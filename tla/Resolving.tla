------------------------------- MODULE Resolving -------------------------------
(***************************************************************************)
(* From the settings of a command to the profile, the endpoint and the     *)
(* credential of its requests, while other commands edit the profiles and  *)
(* log in: the profiles are read twice for a URL, and the credentials after*)
(* them, each time without a lock that lasts.                              *)
(***************************************************************************)
EXTENDS Naturals, FiniteSets, Sequences, SequencesExt

CONSTANTS
  ProfileName,      \* names of profiles
  DefaultName,      \* the one that is taken where nothing names one
  SiteEndpoint,     \* endpoints: a host and the path on it
  Target,           \* URLs that meshstack api is given
  MaxEdits          \* a bound on the changes of others

NotGiven == "none"
NoUrl == [host |-> NotGiven, path |-> <<>>]

ASSUME ResolvingAssumption ==
  /\ DefaultName \in ProfileName /\ NotGiven \notin ProfileName /\ MaxEdits \in Nat

VARIABLES
  \* the configuration directory:
  stored,           \* the profiles: an endpoint, and whether they select a credential
  currentProfile,   \* the current one
  issuedFor,        \* the endpoint that the credential of each was issued for
  edited,           \* the profile whose credential an edit has removed
  edits,            \* how many changes there were
  \* the settings:
  named,            \* the profile of the flag, or else of the environment
  explicit,         \* the endpoint of the flag, or else of the environment
  target,           \* the URL, or a path
  supplied,         \* how many credentials the environment holds
  \* the command:
  resolvePc,        \* where it is
  matched,          \* the profile that profileFor has picked
  session,          \* the profile of the session, and its endpoint
  sent,             \* the credential that the requests carry, by the endpoint it is for
  \* a ghost:
  editedSince       \* the profile of the session was edited since the session has it

dirVars == <<stored, currentProfile, issuedFor, edited, edits>>
settingVars == <<named, explicit, target, supplied>>
resolveVars == <<dirVars, settingVars, resolvePc, matched, session, sent, editedSince>>

AnyEndpoint == SiteEndpoint \cup {NoUrl}
AnyName == ProfileName \cup {NotGiven}
NoCredential == [source |-> NotGiven, for |-> NoUrl]

ResolveTypeOK ==
  /\ stored \in [ProfileName -> [endpoint : AnyEndpoint, selects : BOOLEAN]]
  /\ currentProfile \in AnyName /\ issuedFor \in [ProfileName -> AnyEndpoint]
  /\ edited \in AnyName /\ edits \in 0..MaxEdits
  /\ named \in AnyName /\ explicit \in AnyEndpoint /\ target \in Target \cup {NoUrl}
  /\ supplied \in {0, 1, 2}
  /\ resolvePc \in {"start", "session", "credential", "sent", "failed"}
  /\ matched \in AnyName
  /\ session \in [name : AnyName, endpoint : AnyEndpoint, selects : BOOLEAN]
  /\ sent \in [source : {NotGiven, "stored", "environment"}, for : AnyEndpoint]
  /\ editedSince \in BOOLEAN

StoredNames == {n \in ProfileName : stored[n].endpoint # NoUrl}

(* What a run begins with: each credential is for the endpoint of its profile.           *)
ResolveInit ==
  /\ stored \in [ProfileName -> [endpoint : AnyEndpoint, selects : BOOLEAN]]
  /\ \A n \in ProfileName : stored[n].selects => n \in StoredNames
  /\ issuedFor = [n \in ProfileName |->
                    IF stored[n].selects THEN stored[n].endpoint ELSE NoUrl]
  /\ currentProfile \in StoredNames \cup {NotGiven}
  /\ edited = NotGiven /\ edits = 0
  /\ named \in AnyName /\ explicit \in AnyEndpoint /\ target \in Target \cup {NoUrl}
  /\ supplied \in {0, 1, 2}
  /\ resolvePc = IF target = NoUrl THEN "session" ELSE "start"
  /\ matched = NotGiven /\ sent = NoCredential /\ editedSince = FALSE
  /\ session = [name |-> NotGiven, endpoint |-> NoUrl, selects |-> FALSE]

-----------------------------------------------------------------------------
(* The settings.                                                           *)

(* ResolveSetting: the sources in their order.                             *)
FirstGiven(sources) == sources[Min({i \in 1..Len(sources) : sources[i] # NotGiven})]

(* PathTo: a host, and a path by its segments.                             *)
Holds(endpoint, url) ==
  /\ endpoint # NoUrl
  /\ endpoint.host = url.host /\ IsPrefix(endpoint.path, url.path)

MatchingEndpoint(e) == {n \in StoredNames : stored[n].endpoint = e}

(* The endpoint with the longest path that holds the URL.                  *)
EndpointsHolding(url) ==
  {e \in {stored[n].endpoint : n \in StoredNames} :
     /\ Holds(e, url)
     /\ \A n \in StoredNames : Holds(stored[n].endpoint, url) =>
                                 Len(stored[n].endpoint.path) <= Len(e.path)}

(* One that is the only one, or the current one.                           *)
ForEndpoint(e) ==
  LET matching == MatchingEndpoint(e)
  IN {n \in matching : matching = {n} \/ n = currentProfile}

-----------------------------------------------------------------------------
(* The command.                                                            *)

Fail ==
  /\ resolvePc' = "failed"
  /\ UNCHANGED <<dirVars, settingVars, matched, session, sent, editedSince>>

GoOnWith(names) ==
  IF names = {} THEN Fail
  ELSE /\ \E n \in names : matched' = n
       /\ resolvePc' = "session"
       /\ UNCHANGED <<dirVars, settingVars, session, sent, editedSince>>

(* profileFor: only a profile that holds the URL, unless one is named or none is stored.   *)
ProfileFor ==
  /\ resolvePc = "start"
  /\ IF explicit # NoUrl /\ ~Holds(explicit, target) THEN Fail
     ELSE IF named # NotGiven
     THEN IF named \in StoredNames /\ ~Holds(stored[named].endpoint, target)
          THEN Fail ELSE GoOnWith({NotGiven})
     ELSE IF explicit # NoUrl
     THEN GoOnWith(IF StoredNames = {} THEN {NotGiven} ELSE ForEndpoint(explicit))
     ELSE GoOnWith(UNION {ForEndpoint(e) : e \in EndpointsHolding(target)})

UniqueMatch ==
  IF explicit # NoUrl /\ Cardinality(MatchingEndpoint(explicit)) = 1
  THEN CHOOSE n \in MatchingEndpoint(explicit) : TRUE ELSE NotGiven

ResolvedName == FirstGiven(<<named, matched, UniqueMatch, currentProfile, DefaultName>>)

(* Mutation: the endpoint of the profile goes before that of the setting.  *)
EndpointOfProfile(p, e) == TRUE

(* newSession: the endpoint of a setting is that of the profile.           *)
EndpointFits(p, e) == e = NoUrl \/ p.endpoint = e

(* A profile that is not stored is made of what is given; it is stored by a login only.  *)
SessionProfile ==
  LET n == ResolvedName
  IN IF n \in StoredNames
     THEN [name |-> n, endpoint |-> stored[n].endpoint, selects |-> stored[n].selects]
     ELSE [name |-> n, endpoint |-> explicit, selects |-> FALSE]

NewSession ==
  /\ resolvePc = "session"
  /\ LET p == SessionProfile
     IN IF p.endpoint # NoUrl /\ EndpointFits(p, explicit)
        THEN /\ session' = p /\ editedSince' = (edited = p.name)
             /\ resolvePc' = "credential"
             /\ UNCHANGED <<dirVars, settingVars, matched, sent>>
        ELSE Fail

(* resolveCredentials: one of the environment, else the stored one.  The URL is cut after. *)
ResolveCredentials ==
  /\ resolvePc = "credential"
  /\ \/ supplied = 1 /\ sent' = [source |-> "environment", for |-> NoUrl]
     \/ /\ supplied = 0 /\ session.selects /\ issuedFor[session.name] # NoUrl
        /\ sent' = [source |-> "stored", for |-> issuedFor[session.name]]
  /\ target # NoUrl => Holds(session.endpoint, target)
  /\ resolvePc' = "sent"
  /\ UNCHANGED <<dirVars, settingVars, matched, session, editedSince>>

CredentialsFail ==
  /\ resolvePc = "credential"
  /\ \/ supplied = 2
     \/ supplied = 0 /\ (~session.selects \/ issuedFor[session.name] = NoUrl)
     \/ target # NoUrl /\ ~Holds(session.endpoint, target)
  /\ Fail

-----------------------------------------------------------------------------
(* Other commands, which hold the profiles.                                *)

Edit ==
  /\ edits < MaxEdits /\ edits' = edits + 1
  /\ UNCHANGED <<settingVars, resolvePc, matched, session, sent>>

(* An edit of an endpoint, or a removal, removes the credential before it stores the      *)
(* profiles.                                                                              *)
EditRemoves(n) ==
  /\ edited = NotGiven /\ n \in StoredNames /\ Edit
  /\ issuedFor' = [issuedFor EXCEPT ![n] = NoUrl] /\ edited' = n
  /\ editedSince' = (editedSince \/ n = session.name)
  /\ UNCHANGED <<stored, currentProfile>>

(* Put makes a profile the current one where there is none.  Remove makes the only one     *)
(* that is left the current one, but picks none of several.                                *)
CurrentAfter(n, e) ==
  LET left == StoredNames \ {n}
      only == {m \in left : left = {m}}
  IN CASE e # NoUrl -> IF currentProfile = NotGiven THEN n ELSE currentProfile
       [] e = NoUrl /\ currentProfile # n -> currentProfile
       [] e = NoUrl /\ currentProfile = n -> IF only = {} THEN NotGiven ELSE CHOOSE m \in only : TRUE

EditStores(n, e) ==
  /\ edited = n /\ e # stored[n].endpoint /\ edited' = NotGiven
  /\ stored' = [stored EXCEPT ![n] = [endpoint |-> e, selects |-> FALSE]]
  /\ currentProfile' = CurrentAfter(n, e)
  /\ UNCHANGED <<issuedFor, edits, settingVars, resolvePc, matched, session, sent, editedSince>>

(* A login stores the credential for the endpoint of the profile.          *)
LogIn(n) ==
  /\ edited = NotGiven /\ n \in StoredNames /\ Edit
  /\ issuedFor' = [issuedFor EXCEPT ![n] = stored[n].endpoint]
  /\ stored' = [stored EXCEPT ![n].selects = TRUE]
  /\ currentProfile' = n
  /\ UNCHANGED <<edited, editedSince>>

ResolveStep ==
  \/ ProfileFor \/ NewSession \/ ResolveCredentials \/ CredentialsFail
  \/ \E n \in ProfileName :
       EditRemoves(n) \/ LogIn(n) \/ \E e \in AnyEndpoint : EditStores(n, e)

-----------------------------------------------------------------------------
(* A command sends to the endpoint that it was given, below which the URL is, with the    *)
(* profile that it was given, and a stored credential only to the endpoint it is for,     *)
(* whatever is edited while it resolves them, except after the session has its profile.   *)
NoForeignCredentials ==
  resolvePc = "sent" =>
    /\ explicit \in {NoUrl, session.endpoint} /\ named \in {NotGiven, session.name}
    /\ target # NoUrl => Holds(session.endpoint, target)
    /\ sent.source = "stored" => sent.for = session.endpoint \/ editedSince
=============================================================================

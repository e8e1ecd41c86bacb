------------------------------- MODULE LoginChoice -------------------------------
(***************************************************************************)
(* meshstack login: which profile it logs in to, with what, and which      *)
(* workspace that profile works in afterwards.  The login holds the        *)
(* profiles from the first step to the last, so nobody else stores them.   *)
(* What the credential files and the cache go through is ProfileLogin.     *)
(***************************************************************************)
EXTENDS Naturals, FiniteSets

CONSTANTS
  StorableName,   \* names of profiles
  FirstUse,       \* the name of the profile that a first login creates
  Place,          \* workspaces
  Initially       \* what may be stored before: kept as below

Nobody == "nobody"      \* no profile
NoPlace == "none"       \* no workspace
Failure == "failure"    \* the workspace could not be resolved

(* The profiles: those stored, the current one, the default workspace of each, and those  *)
(* with a credential of this login in their file.                                         *)
Keepable ==
  [names : SUBSET StorableName, current : StorableName \cup {Nobody},
   place : [StorableName -> Place \cup {NoPlace}], loggedIn : SUBSET StorableName]

ASSUME LoginAssumption ==
  /\ FirstUse \in StorableName /\ {NoPlace, Failure} \cap Place = {}
  /\ Initially \subseteq {k \in Keepable : k.loggedIn = {}}

VARIABLES
  with,           \* --apikey, --apitoken or neither
  secretOnStdin,  \* --stdin
  givenName,      \* --profile and its variable
  givenPlace,     \* --workspace and its variable
  givenEndpoint,  \* an endpoint is given
  candidates,     \* the stored profiles for it, or all
  kept,           \* what is stored
  loginAt,        \* where the login is
  loginTo,         \* the profile
  tokens,         \* the cache holds tokens of this login
  offered,         \* the workspaces to select from
  place,          \* the workspace
  \* ghosts:
  questions,      \* what the login asked for
  before          \* what was stored before

givenVars == <<with, secretOnStdin, givenName, givenPlace, givenEndpoint, candidates, before>>
choiceVars == <<givenVars, kept, loginAt, loginTo, tokens, offered, place, questions>>

LoginTypeOK ==
  /\ kept \in Keepable /\ candidates \subseteq before.names
  /\ loginAt \in {"profile", "credential", "workspace", "listing", "selecting", "minting",
                  "storing", "unlocking", "loggedIn", "failed"}
  /\ loginTo \in StorableName \cup {Nobody} /\ place \in Place \cup {NoPlace, Failure}
  /\ offered \subseteq Place /\ tokens \in BOOLEAN
  /\ questions \subseteq {"profile", "workspace"}

LoginInit ==
  /\ with \in {"browser", "apikey", "apitoken"} /\ secretOnStdin \in BOOLEAN
  /\ givenName \in StorableName \cup {Nobody} /\ givenPlace \in Place \cup {NoPlace}
  /\ givenEndpoint \in BOOLEAN
  /\ kept \in Initially /\ before = kept
  /\ candidates \in SUBSET kept.names /\ (givenEndpoint \/ candidates = kept.names)
  /\ loginAt = "profile" /\ loginTo = Nobody /\ tokens = FALSE
  /\ offered = {} /\ place = NoPlace /\ questions = {}

(* A failure before the profiles are locked, and one after it: then the tokens that the   *)
(* login cached are taken back.                                                           *)
Abandon == loginAt' = "failed" /\ UNCHANGED <<givenVars, kept, loginTo, tokens, offered, place, questions>>
GiveBack == loginAt' = "unlocking" /\ UNCHANGED <<givenVars, kept, loginTo, tokens, offered, place>>

-----------------------------------------------------------------------------
(* The profile.                                                            *)

(* stdin can answer one question, or carry the secret.                     *)
RefuseStdin == loginAt = "profile" /\ with = "browser" /\ secretOnStdin /\ Abandon

LogsInTo(name) ==
  /\ loginAt' = "credential" /\ loginTo' = name
  /\ UNCHANGED <<givenVars, kept, tokens, offered, place>>

(* A profile that is not stored is created, and only for an endpoint that is given.  One  *)
(* that is stored for another endpoint would send its credential there.                   *)
TakeName(name) ==
  /\ IF name \in before.names THEN name \in candidates ELSE givenEndpoint
  /\ LogsInTo(name)

CurrentIsCandidate == before.current \in candidates
AsksForProfile == Cardinality(candidates) > 1 /\ ~secretOnStdin

ChooseProfile ==
  /\ loginAt = "profile" /\ ~(with = "browser" /\ secretOnStdin)
  /\ \/ givenName # Nobody /\ TakeName(givenName) /\ UNCHANGED questions
     \/ /\ givenName = Nobody /\ before.names = {}
        /\ TakeName(FirstUse) /\ UNCHANGED questions
     \/ /\ givenName = Nobody /\ ~AsksForProfile
        /\ \E c \in candidates : (candidates = {c} \/ c = before.current) /\ LogsInTo(c)
        /\ UNCHANGED questions
     \/ /\ givenName = Nobody /\ AsksForProfile
        /\ questions' = questions \cup {"profile"}
        /\ \E c \in candidates : LogsInTo(c)

(* The input ends before an answer.                                        *)
TakeCurrentProfile ==
  /\ loginAt = "profile" /\ givenName = Nobody /\ AsksForProfile /\ CurrentIsCandidate
  /\ LogsInTo(before.current) /\ UNCHANGED questions

(* ... or the list is left; a profile has no endpoint, or another one; several match; the *)
(* profiles are in use, or cannot be read.                                                *)
FailToChoose == loginAt = "profile" /\ Abandon

-----------------------------------------------------------------------------
(* The credential, whose tokens are written over those in the cache.       *)

ResolveCredential ==
  /\ loginAt = "credential"
  /\ loginAt' = "workspace" /\ tokens' = TRUE
  /\ UNCHANGED <<givenVars, kept, loginTo, offered, place, questions>>

(* MeshInfo or the browser fails, the secret is empty, half an API key is given, or the   *)
(* cache cannot be written.                                                               *)
FailCredential == loginAt = "credential" /\ Abandon

-----------------------------------------------------------------------------
(* The workspace, once for the login: from its setting, from the list, or the default.    *)

Resolved(p) == loginAt' = "minting" /\ place' = p

(* The list of a login that works without a workspace is optional.         *)
Selects == with = "browser" \/ (with = "apikey" /\ ~secretOnStdin)
Optional == with = "apikey"
DefaultPlace == kept.place[loginTo]

ResolveWorkspaceForLogin ==
  /\ loginAt = "workspace"
  /\ \/ givenPlace # NoPlace /\ Resolved(givenPlace)
     \/ givenPlace = NoPlace /\ ~Selects /\ Resolved(DefaultPlace)
     \/ givenPlace = NoPlace /\ Selects /\ loginAt' = "listing" /\ UNCHANGED place
  /\ UNCHANGED <<givenVars, kept, loginTo, tokens, offered, questions>>

(* Through a client that names no workspace.  It may fail, as may the /mesh/info before   *)
(* it; the list may be refused, or empty.                                                 *)
ListWorkspaces ==
  /\ loginAt = "listing"
  /\ \/ /\ offered' \in SUBSET Place \ {{}} /\ loginAt' = "selecting" /\ UNCHANGED place
     \/ Resolved(IF Optional THEN DefaultPlace ELSE Failure) /\ UNCHANGED offered
  /\ UNCHANGED <<givenVars, kept, loginTo, tokens, questions>>

(* Mutation: the default workspace, whether the login may still work in it or not.        *)
AnyProfileDefault == DefaultPlace

(* A default workspace that is not in the list is none.                    *)
ProfileDefault == IF DefaultPlace \in offered THEN DefaultPlace ELSE NoPlace

SelectWorkspace ==
  /\ loginAt = "selecting"
  /\ \E p \in offered : Resolved(p)
  /\ questions' = IF Cardinality(offered) = 1 THEN questions ELSE questions \cup {"workspace"}
  /\ UNCHANGED <<givenVars, kept, loginTo, tokens, offered>>

(* The input ends.  Without a selection the profile's default comes next, in the list or  *)
(* not.                                                                                   *)
EndOfSelection ==
  /\ loginAt = "selecting" /\ Cardinality(offered) > 1
  /\ Resolved(CASE ProfileDefault # NoPlace -> ProfileDefault
                [] ProfileDefault = NoPlace /\ Optional -> DefaultPlace
                [] OTHER -> Failure)
  /\ UNCHANGED <<givenVars, kept, loginTo, tokens, offered, questions>>

LeaveSelection ==
  /\ loginAt = "selecting" /\ Cardinality(offered) > 1
  /\ Resolved(Failure)
  /\ UNCHANGED <<givenVars, kept, loginTo, tokens, offered, questions>>

-----------------------------------------------------------------------------
(* Its token, and what is stored.                                          *)

(* The token of a browser login is for the workspace; /mesh/info comes after it.          *)
GetBearerToken ==
  /\ loginAt = "minting"
  /\ with = "browser" => place # Failure
  /\ loginAt' = "storing"
  /\ UNCHANGED <<givenVars, kept, loginTo, tokens, offered, place, questions>>

FailToken == loginAt = "minting" /\ GiveBack /\ UNCHANGED questions

RefuseFailure == loginAt = "storing" /\ place = Failure /\ GiveBack /\ UNCHANGED questions

WithProfile ==
  [kept EXCEPT !.names = @ \cup {loginTo}, !.current = loginTo,
               !.place[loginTo] = IF place = NoPlace THEN @ ELSE place]

(* creds.Store, and then SetCurrent, which is called after a failure as well.             *)
StoreSession ==
  /\ loginAt = "storing" /\ place # Failure
  /\ \E credentialStored, currentSet \in BOOLEAN :
       LET stored == IF currentSet THEN WithProfile ELSE kept IN
       /\ kept' = IF credentialStored THEN [stored EXCEPT !.loggedIn = {loginTo}] ELSE stored
       /\ loginAt' = CASE ~credentialStored -> "unlocking"
                       [] credentialStored /\ currentSet -> "loggedIn" [] OTHER -> "failed"
  /\ UNCHANGED <<givenVars, loginTo, tokens, offered, place, questions>>

(* restoreCache: not for a credential that is stored.                      *)
Unlock ==
  /\ loginAt = "unlocking"
  /\ loginAt' = "failed" /\ tokens' = FALSE
  /\ UNCHANGED <<givenVars, kept, loginTo, offered, place, questions>>

LoginSteps ==
  \/ RefuseStdin \/ ChooseProfile \/ TakeCurrentProfile \/ FailToChoose
  \/ ResolveCredential \/ FailCredential
  \/ ResolveWorkspaceForLogin \/ ListWorkspaces \/ SelectWorkspace \/ EndOfSelection \/ LeaveSelection
  \/ GetBearerToken \/ FailToken \/ RefuseFailure \/ StoreSession \/ Unlock

-----------------------------------------------------------------------------
(* A login goes to the profile and the workspace that its person named or chose, or that  *)
(* were the only ones to choose; for an input that ends, to the current profile and the   *)
(* default workspace.  So a credential never comes to a profile of another endpoint; the  *)
(* default workspace of a profile becomes only one that was given or that the login may   *)
(* work in; a browser login has a workspace.  stdin with a secret answers no question.    *)
(* A login that failed takes its tokens back and has stored nothing, except one that      *)
(* failed while it stored.                                                                *)
LoginAsChosen ==
  /\ kept.loggedIn # {} => loginTo \in candidates \cup (StorableName \ before.names)
  /\ \A n \in StorableName :
       kept.place[n] # before.place[n] => n = loginTo /\ kept.place[n] \in offered \cup {givenPlace}
  /\ loginAt = "loggedIn" =>
       /\ kept.current = loginTo /\ kept.loggedIn = {loginTo}
       /\ givenName \in {loginTo, Nobody} /\ givenPlace \in {kept.place[loginTo], NoPlace}
       /\ with = "browser" => kept.place[loginTo] \in (offered \cup {givenPlace}) \ {NoPlace}
  /\ secretOnStdin => questions = {}
  /\ loginAt = "failed" => (tokens => kept.loggedIn # {})
  /\ loginAt \notin {"loggedIn", "unlocking", "failed"} => kept = before
=============================================================================

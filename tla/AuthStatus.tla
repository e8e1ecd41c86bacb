------------------------------- MODULE AuthStatus -------------------------------
(***************************************************************************)
(* meshstack auth status: it shows the credential that commands use, the   *)
(* stored ones that they do not use, and what is in the token cache of     *)
(* each.  It reads the profile, the credentials twice and the caches one by*)
(* one, while other commands log in and out and renew tokens; a cache is   *)
(* of one credential of its kind, be it stored or of the environment.      *)
(***************************************************************************)
EXTENDS Resolving

CONSTANT MaxOthers    \* a bound on what other commands do

ASSUME StatusAssumption == MaxOthers \in Nat

CredentialNames == <<"apiKey", "manual", "oidcLogin">>
CredentialName == ToSet(CredentialNames)

(* Credentials of one kind: none, the stored one, one of the environment, that of a login.*)
NoIdentity == 0
StoredIdentity == 1
EnvironmentIdentity == 2
LoginIdentity == 3

(* A token, of the credential that it was minted for.                      *)
Mint == [by : StoredIdentity..LoginIdentity, workspace : {"none", "own"}, expires : 1..2]
UnscopedOf(i) == [by |-> i, workspace |-> "none", expires |-> 2]
ScopedOf(i) == [by |-> i, workspace |-> "own", expires |-> 1]
NoCache == [of |-> NoIdentity, tokens |-> {}]

VARIABLES
  \* the configuration directory:
  selects,        \* the kind that the profile selects
  keeps,          \* the credentials file
  tokenFile,      \* the token caches
  \* other commands:
  loginOf,        \* the login that has its cache, and no credential yet
  loggingOut,     \* a logout has removed the credentials, and no cache yet
  others,         \* how much they did
  \* the settings and the command:
  provided,       \* the credentials that the environment holds
  worksIn,        \* the workspace
  statusPc,       \* where it is
  statusSelected, \* the kind that its profile selects
  used,           \* the credential that it uses
  shownToken,     \* what of its cache is shown
  readKeeps,      \* what it has read of the credentials
  toTell,         \* the kinds that it is still to tell of
  unused          \* the credentials that it tells as not used

authDirVars == <<selects, keeps, tokenFile, loginOf, loggingOut, others>>
toldVars == <<statusPc, statusSelected, used, shownToken, readKeeps, toTell, unused>>
statusVars == <<authDirVars, provided, worksIn, toldVars>>

(* A login has read the credentials file, and then keeps the cache that it replaces.      *)
NoLoginBeside == [at |-> "none", name |-> "none", identity |-> NoIdentity,
            read |-> [n \in CredentialName |-> NoIdentity], before |-> NoCache]
NotUsed == [name |-> "none", identity |-> NoIdentity, stored |-> FALSE]

StatusTypeOK ==
  /\ selects \in CredentialName \cup {"none"}
  /\ keeps \in [CredentialName -> NoIdentity..LoginIdentity]
  /\ tokenFile \in [CredentialName -> [of : 0..LoginIdentity, tokens : SUBSET Mint]]
  /\ loginOf.at \in {"none", "read", "cached"} /\ loggingOut \in BOOLEAN /\ others \in 0..MaxOthers
  /\ provided \subseteq {"apiKey", "manual"} /\ worksIn \in {"none", "own"}
  /\ statusPc \in {"start", "resolve", "load", "stored", "tell", "shown", "failed"}
  /\ statusSelected \in CredentialName \cup {"none"}
  /\ used \in [name : CredentialName \cup {"none"}, identity : 0..LoginIdentity, stored : BOOLEAN]
  /\ shownToken \in SUBSET Mint
  /\ readKeeps \in [CredentialName -> NoIdentity..LoginIdentity]
  /\ toTell \in {SubSeq(CredentialNames, i, 3) : i \in 1..4}
  /\ unused \in Seq([name : CredentialName, identity : 1..LoginIdentity, token : SUBSET Mint])

(* The identity of an API token is its endpoint alone.                     *)
IdentityOf(n, i) == IF n = "manual" THEN StoredIdentity ELSE i

(* Each stored credential has its cache; that of the API key may be that of a login that   *)
(* was killed.  What the profile selects matters where nothing is provided, and the        *)
(* workspace to a browser login only.                                                      *)
StatusInit ==
  /\ keeps \in [CredentialName -> {NoIdentity, StoredIdentity}]
  /\ selects \in {n \in CredentialName : keeps[n] # NoIdentity} \cup {"none"}
  /\ LET cache(i) == IF i = NoIdentity THEN NoCache ELSE [of |-> i, tokens |-> {UnscopedOf(i)}]
         own == [n \in CredentialName |-> cache(keeps[n])]
     IN tokenFile \in {own, [own EXCEPT !["apiKey"] = cache(EnvironmentIdentity)]}
  /\ loginOf = NoLoginBeside /\ loggingOut = FALSE /\ others = 0
  /\ provided \in SUBSET {"apiKey", "manual"} /\ (provided # {} => selects = "none")
  /\ worksIn \in {"none", "own"} /\ (worksIn = "own" => keeps["oidcLogin"] # NoIdentity)
  /\ statusPc = "start" /\ statusSelected = "none" /\ used = NotUsed /\ shownToken = {}
  /\ readKeeps = [n \in CredentialName |-> NoIdentity]
  /\ toTell = CredentialNames /\ unused = <<>>

-----------------------------------------------------------------------------
(* The command.                                                            *)

ToldAs(pc) == statusPc' = pc /\ UNCHANGED <<authDirVars, provided, worksIn>>

ReadSelection ==
  /\ statusPc = "start" /\ ToldAs("resolve")
  /\ statusSelected' = selects
  /\ UNCHANGED <<used, shownToken, readKeeps, toTell, unused>>

Use(n, i, stores) ==
  /\ ToldAs("load") /\ used' = [name |-> n, identity |-> i, stored |-> stores]
  /\ UNCHANGED <<statusSelected, shownToken, readKeeps, toTell, unused>>

FailStatus ==
  /\ ToldAs("failed") /\ UNCHANGED <<statusSelected, used, shownToken, readKeeps, toTell, unused>>

(* The only one of the environment, or else the one that the profile selects.             *)
UseProvided ==
  /\ statusPc = "resolve" /\ provided # {}
  /\ IF Cardinality(provided) > 1 THEN FailStatus
     ELSE \E n \in provided : Use(n, EnvironmentIdentity, FALSE)

UseStored ==
  /\ statusPc = "resolve" /\ provided = {}
  /\ IF statusSelected = "none" \/ keeps[statusSelected] = NoIdentity THEN FailStatus
     ELSE Use(statusSelected, keeps[statusSelected], TRUE)

(* Mutation: the token that came with a setting is replaced by the cached one.            *)
BringsNone(c) == FALSE

BringsItsToken(c) == c.name = "manual" /\ ~c.stored

(* The tokens that a credential gets from its file.                        *)
LoadedTokens(c) ==
  IF BringsItsToken(c) THEN {UnscopedOf(c.identity)}
  ELSE IF tokenFile[c.name].of = IdentityOf(c.name, c.identity) THEN tokenFile[c.name].tokens
  ELSE {}

(* The token of the workspace, or else one that expires last.              *)
OidcTokenFor(tokens) ==
  LET own == {t \in tokens : t.workspace = worksIn}
  IN IF own # {} THEN own
     ELSE {t \in tokens : \A u \in tokens : u.expires <= t.expires}

LoadUsed ==
  /\ statusPc = "load"
  /\ \/ /\ ToldAs("stored")
        /\ shownToken' = IF used.name = "oidcLogin" THEN OidcTokenFor(LoadedTokens(used))
                         ELSE LoadedTokens(used)
        /\ UNCHANGED <<statusSelected, used, readKeeps, toTell, unused>>
     \/ FailStatus

(* The credentials are read again; the status does without where they cannot be.          *)
ReadStored ==
  /\ statusPc = "stored"
  /\ \/ ToldAs("tell") /\ readKeeps' = keeps
     \/ ToldAs("shown") /\ UNCHANGED readKeeps
  /\ UNCHANGED <<statusSelected, used, shownToken, toTell, unused>>

IsUsed(n) == used.name = n /\ used.stored

(* The token of an API key is not told; a file that cannot be read tells as little as that *)
(* of another credential.                                                                  *)
UnusedToken(c) ==
  CASE c.name = "oidcLogin" -> OidcTokenFor(LoadedTokens(c))
    [] c.name = "manual" -> LoadedTokens(c)
    [] OTHER -> {}

TellUnused ==
  /\ statusPc = "tell" /\ toTell # <<>>
  /\ toTell' = Tail(toTell)
  /\ LET n == Head(toTell)
         c == [name |-> n, identity |-> readKeeps[n], stored |-> TRUE]
     IN IF readKeeps[n] = NoIdentity \/ IsUsed(n) THEN UNCHANGED unused
        ELSE unused' = Append(unused, [name |-> n, identity |-> readKeeps[n], token |-> UnusedToken(c)])
  /\ ToldAs("tell")
  /\ UNCHANGED <<statusSelected, used, shownToken, readKeeps>>

Show ==
  /\ statusPc = "tell" /\ toTell = <<>> /\ ToldAs("shown")
  /\ UNCHANGED <<statusSelected, used, shownToken, readKeeps, toTell, unused>>

-----------------------------------------------------------------------------
(* Other commands of the profile.                                          *)

(* What they do after the command has ended is not followed.              *)
Otherwise == statusPc \notin {"shown", "failed"} /\ UNCHANGED <<provided, worksIn, toldVars>>
AnotherDoes == others < MaxOthers /\ others' = others + 1 /\ Otherwise
Cached(n, of, tokens) == tokenFile' = [tokenFile EXCEPT ![n] = [of |-> of, tokens |-> tokens]]

(* Only one login has the profiles locked; a logout locks nothing.         *)
LoginReads(n) ==
  /\ AnotherDoes /\ loginOf.at = "none"
  /\ \E i \in {LoginIdentity} \cup (IF n = "apiKey" THEN {EnvironmentIdentity} ELSE {}) :
       loginOf' = [NoLoginBeside EXCEPT !.at = "read", !.name = n, !.identity = IdentityOf(n, i), !.read = keeps]
  /\ UNCHANGED <<selects, keeps, tokenFile, loggingOut>>

(* An API key has no token before the login needs one.                     *)
LoginCaches ==
  /\ loginOf.at = "read" /\ Otherwise
  /\ loginOf' = [loginOf EXCEPT !.at = "cached", !.before = tokenFile[loginOf.name]]
  /\ Cached(loginOf.name, loginOf.identity,
            IF loginOf.name = "apiKey" THEN {} ELSE {UnscopedOf(LoginIdentity)})
  /\ UNCHANGED <<selects, keeps, loggingOut, others>>

(* A cache is written over only where it is that of the credential.        *)
Renewed(n, i) ==
  /\ tokenFile[n].of = i
  /\ Cached(n, i, IF n = "oidcLogin" THEN tokenFile[n].tokens \cup {ScopedOf(i)} ELSE {UnscopedOf(i)})

LoginMints ==
  /\ loginOf.at = "cached" /\ loginOf.name = "apiKey" /\ Otherwise
  /\ Renewed("apiKey", loginOf.identity)
  /\ UNCHANGED <<selects, keeps, loginOf, loggingOut, others>>

(* It keeps all that it has read, what a logout has removed meanwhile too. *)
LoginKeeps ==
  /\ loginOf.at = "cached" /\ Otherwise
  /\ keeps' = [loginOf.read EXCEPT ![loginOf.name] = loginOf.identity]
  /\ selects' = loginOf.name /\ loginOf' = NoLoginBeside
  /\ UNCHANGED <<tokenFile, loggingOut, others>>

(* One that fails puts the cache back; one that is killed does not.        *)
OtherLoginEnds ==
  /\ loginOf.at # "none" /\ Otherwise /\ loginOf' = NoLoginBeside
  /\ \/ UNCHANGED tokenFile
     \/ loginOf.at = "cached" /\ Cached(loginOf.name, loginOf.before.of, loginOf.before.tokens)
  /\ UNCHANGED <<selects, keeps, loggingOut, others>>

(* One beside a login does not count.                                      *)
LogoutForgets ==
  /\ ~loggingOut
  /\ IF loginOf.at = "none" THEN AnotherDoes ELSE Otherwise /\ UNCHANGED others
  /\ keeps' = [n \in CredentialName |-> NoIdentity] /\ loggingOut' = TRUE
  /\ UNCHANGED <<selects, tokenFile, loginOf>>

LogoutClears ==
  /\ loggingOut /\ loggingOut' = FALSE /\ Otherwise
  /\ tokenFile' = [n \in CredentialName |-> NoCache]
  /\ UNCHANGED <<selects, keeps, loginOf, others>>

(* A command with the API key of the environment, once that has logged in. *)
ProvidedMints ==
  /\ AnotherDoes /\ "apiKey" \in provided
  /\ Renewed("apiKey", EnvironmentIdentity)
  /\ UNCHANGED <<selects, keeps, loginOf, loggingOut>>

(* A command with the stored credential.                                   *)
StoredMints(n) ==
  /\ AnotherDoes /\ n # "manual" /\ keeps[n] # NoIdentity
  /\ n = "oidcLogin" => tokenFile[n].tokens # {}
  /\ Renewed(n, keeps[n])
  /\ UNCHANGED <<selects, keeps, loginOf, loggingOut>>

StatusStep ==
  \/ ReadSelection \/ UseProvided \/ UseStored \/ LoadUsed \/ ReadStored \/ TellUnused \/ Show
  \/ \E n \in CredentialName : LoginReads(n) \/ StoredMints(n)
  \/ LoginCaches \/ LoginMints \/ LoginKeeps \/ OtherLoginEnds \/ LogoutForgets \/ LogoutClears \/ ProvidedMints

-----------------------------------------------------------------------------
(* All the API tokens that were stored are one credential.                 *)
MintedFor(t, c) ==
  \/ t.by = c.identity
  \/ c.name = "manual" /\ c.stored /\ t.by # EnvironmentIdentity

(* No token is shown under another credential than the one that it was minted for, of the *)
(* stored and the provided ones that share a cache; the credential in use is not told as  *)
(* unused, and every other one that was stored is, even one of the kind that is provided. *)
StatusIsTrue ==
  /\ \A t \in shownToken : MintedFor(t, used)
  /\ \A e \in ToSet(unused) : \A t \in e.token :
       MintedFor(t, [name |-> e.name, identity |-> e.identity, stored |-> TRUE])
  /\ statusPc = "shown" /\ toTell = <<>> =>
       {e.name : e \in ToSet(unused)} = {n \in CredentialName : readKeeps[n] # NoIdentity /\ ~IsUsed(n)}
=============================================================================

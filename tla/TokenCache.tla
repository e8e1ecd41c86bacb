----------------------------- MODULE TokenCache -----------------------------
(***************************************************************************)
(* internal/auth and internal/auth/credential: how the sessions of several *)
(* processes share the token cache of one stored browser login.            *)
(*                                                                         *)
(* Every request takes a bearer token from the cache (GetBearerToken), and *)
(* renews it where it is missing, about to expire or was rejected with 401 *)
(* (RefreshBearerToken).  Renewing rotates the refresh token, and the      *)
(* identity provider ends the whole session when it sees one it has        *)
(* rotated away, so the one cache file has to carry the latest of them.    *)
(*                                                                         *)
(* Callers are the goroutines that send requests.  Those of one process    *)
(* share the Session's credential in memory.  The cache's Locker is the    *)
(* readers-writer lock that FileLock implements.  A refresh token is named *)
(* by how many rotations came before it, an access token by the rotation   *)
(* that minted it and its workspace claim.                                 *)
(***************************************************************************)
EXTENDS Naturals, FiniteSets

CONSTANTS Process,      \* the processes that use the profile
          Caller,       \* the goroutines that send requests
          ProcessOf,    \* the process of each goroutine
          Workspace,    \* the workspaces requests are sent for
          NoWorkspace,  \* no workspace: an unscoped token
          Granted,      \* the workspaces the user has a role in
          NoToken,      \* no access token
          MaxCalls,     \* the bound on the sessions and requests of a goroutine
          MaxInvalid    \* the bound on the tokens that expire or are revoked

ASSUME ProcessOfAssumption == ProcessOf \in [Caller -> Process]
ASSUME WorkspaceAssumption == NoWorkspace \in Workspace /\ Granted \subseteq Workspace
ASSUME BoundsAssumption == MaxCalls \in Nat /\ MaxInvalid \in Nat

AccessToken == [id : Nat, claim : Workspace]

ASSUME NoTokenAssumption == NoToken \notin AccessToken

Token == AccessToken \cup {NoToken}

(* OidcLogin.Cache: the refresh token, and the access tokens under the        *)
(* workspace each of them is bound to.                                        *)
Cache == [refresh : Nat, tokens : [Workspace -> Token]]

VARIABLES
  pc,        \* where each goroutine is
  want,      \* the workspace of the request it works on
  rejected,  \* the token that request was rejected with
  out,       \* the token it is sent with
  answer,    \* the access token that answered its refresh
  calls,     \* how many sessions and requests it has started
  holding,   \* how it holds the cache's lock
  loaded,    \* the processes that have resolved their session
  memory,    \* the credential's cache in each process
  file,      \* the cache file
  issued,    \* how often the identity provider has rotated the refresh token
  ended,     \* it has ended the session
  replayed,  \* it has seen a refresh token that it had rotated away
  expired,   \* the access tokens that are about to expire
  revoked,   \* the access tokens that meshStack answers with 401
  lost       \* a rotated refresh token was lost on its way into the file

call == <<want, rejected, out, answer>>
issuer == <<issued, ended, replayed>>
backend == <<expired, revoked>>
vars == <<pc, call, calls, holding, loaded, memory, file, issuer, backend, lost>>

L == INSTANCE RWLock WITH Rivals <- Caller \X Caller

Modifying == {"loading", "asking", "answered", "writing", "unlocking"}
Steps == {"idle", "wantLoad", "reading", "wantRead", "lookup", "wantWrite", "sending"}
            \cup Modifying

TypeOK ==
  /\ pc \in [Caller -> Steps]
  /\ want \in [Caller -> Workspace]
  /\ rejected \in [Caller -> Token]
  /\ out \in [Caller -> Token]
  /\ answer \in [Caller -> Token]
  /\ calls \in [Caller -> Nat]
  /\ holding \in [Caller -> {"none", "read", "write"}]
  /\ loaded \in SUBSET Process
  /\ memory \in [Process -> Cache]
  /\ file \in Cache
  /\ issued \in Nat
  /\ ended \in BOOLEAN
  /\ replayed \in BOOLEAN
  /\ lost \in BOOLEAN
  /\ expired \in SUBSET Nat
  /\ revoked \in SUBSET Nat

(* A login has just stored its tokens: a first one bound to no workspace. *)
FirstToken == [id |-> 0, claim |-> NoWorkspace]
LoginCache == [refresh |-> 0,
               tokens |-> [w \in Workspace |-> IF w = NoWorkspace THEN FirstToken ELSE NoToken]]

Init ==
  /\ pc = [c \in Caller |-> "idle"]
  /\ want = [c \in Caller |-> NoWorkspace]
  /\ rejected = [c \in Caller |-> NoToken]
  /\ out = [c \in Caller |-> NoToken]
  /\ answer = [c \in Caller |-> NoToken]
  /\ calls = [c \in Caller |-> 0]
  /\ holding = [c \in Caller |-> "none"]
  /\ loaded = {}
  /\ memory = [p \in Process |-> LoginCache]
  /\ file = LoginCache
  /\ issued = 0
  /\ ended = FALSE /\ replayed = FALSE /\ lost = FALSE
  /\ expired = {} /\ revoked = {}

-----------------------------------------------------------------------------
Mine(c) == memory[ProcessOf[c]]
Goto(c, step) == pc' = [pc EXCEPT ![c] = step]

(* Callers start over with a request for a workspace, after a rejected token. *)
Begin(S, w, t) ==
  /\ want' = [c \in Caller |-> IF c \in S THEN w ELSE want[c]]
  /\ rejected' = [c \in Caller |-> IF c \in S THEN t ELSE rejected[c]]
  /\ out' = [c \in Caller |-> IF c \in S THEN NoToken ELSE out[c]]
  /\ answer' = [c \in Caller |-> IF c \in S THEN NoToken ELSE answer[c]]

End(c) == Goto(c, "idle") /\ Begin({c}, NoWorkspace, NoToken)

Take(c, t) == out' = [out EXCEPT ![c] = t] /\ UNCHANGED <<want, rejected, answer>>

(* CachedToken, and what RefreshBearerToken accepts of it. *)
Cached(cache, c) == cache.tokens[want[c]]

(* A mutation of Usable: the token that was just rejected is as good as any. *)
UsableThoughRejected(cache, c) ==
  Cached(cache, c) # NoToken /\ Cached(cache, c).id \notin expired

Usable(cache, c) ==
  /\ Cached(cache, c) # NoToken
  /\ Cached(cache, c).id \notin expired
  /\ Cached(cache, c) # rejected[c]

(* Reading the file decodes it into the cache in memory, which keeps tokens   *)
(* of workspaces that the file has none for.                                  *)
Decoded(cache) ==
  [refresh |-> file.refresh,
   tokens |-> [w \in Workspace |-> IF file.tokens[w] = NoToken THEN cache.tokens[w]
                                                                ELSE file.tokens[w]]]

(* StoreLogin: the refresh token of a refresh that minted this access token,  *)
(* which goes under the workspace it claims.                                  *)
WithLogin(cache, token) ==
  [refresh |-> token.id, tokens |-> [cache.tokens EXCEPT ![token.claim] = token]]

-----------------------------------------------------------------------------
(* ResolveSession loads the cache under a read lock, into a credential that   *)
(* no goroutine uses yet.                                                     *)
Resolve(c) ==
  /\ ProcessOf[c] \notin loaded
  /\ \A d \in Caller : ProcessOf[d] = ProcessOf[c] => pc[d] = "idle"
  /\ calls[c] < MaxCalls
  /\ calls' = [calls EXCEPT ![c] = @ + 1]
  /\ Goto(c, "wantLoad")
  /\ UNCHANGED <<call, holding, loaded, memory, file, issuer, backend, lost>>

LockLoad(c) ==
  /\ pc[c] = "wantLoad"
  /\ L!Acquire(c, "read")
  /\ Goto(c, "reading")
  /\ UNCHANGED <<call, calls, loaded, memory, file, issuer, backend, lost>>

(* A mutation of Load: the session is kept for the goroutine that loaded it. *)
LoadForGoroutine(c) ==
  /\ pc[c] = "reading"
  /\ memory' = [memory EXCEPT ![ProcessOf[c]] = file]
  /\ loaded' = loaded \cup {c}
  /\ L!Release(c)
  /\ Goto(c, "idle")
  /\ UNCHANGED <<call, calls, file, issuer, backend, lost>>

Load(c) ==
  /\ pc[c] = "reading"
  /\ memory' = [memory EXCEPT ![ProcessOf[c]] = file]
  /\ loaded' = loaded \cup {ProcessOf[c]}
  /\ L!Release(c)
  /\ Goto(c, "idle")
  /\ UNCHANGED <<call, calls, file, issuer, backend, lost>>

(* A request for a workspace asks for a bearer token, rejecting none yet. *)
Request(c, w) ==
  /\ pc[c] = "idle"
  /\ ProcessOf[c] \in loaded
  /\ calls[c] < MaxCalls
  /\ calls' = [calls EXCEPT ![c] = @ + 1]
  /\ Begin({c}, w, NoToken)
  /\ Goto(c, "wantRead")
  /\ UNCHANGED <<holding, loaded, memory, file, issuer, backend, lost>>

(* Read: look for a usable token in memory under the read lock. *)
LockRead(c) ==
  /\ pc[c] = "wantRead"
  /\ L!Acquire(c, "read")
  /\ Goto(c, "lookup")
  /\ UNCHANGED <<call, calls, loaded, memory, file, issuer, backend, lost>>

LookUp(c) ==
  /\ pc[c] = "lookup"
  /\ \/ /\ Usable(Mine(c), c)
        /\ Take(c, Cached(Mine(c), c))
        /\ Goto(c, "sending")
     \/ /\ ~Usable(Mine(c), c)
        /\ Goto(c, "wantWrite")
        /\ UNCHANGED call
  /\ L!Release(c)
  /\ UNCHANGED <<calls, loaded, memory, file, issuer, backend, lost>>

(* A wait for the lock is given up with the request's context. *)
GiveUp(c) ==
  /\ pc[c] \in {"wantLoad", "wantRead", "wantWrite"}
  /\ End(c)
  /\ UNCHANGED <<calls, holding, loaded, memory, file, issuer, backend, lost>>

-----------------------------------------------------------------------------
(* Modify: read the file again under the exclusive lock, renew the token      *)
(* unless that read found one, and write the cache back in either case.       *)
LockWrite(c) ==
  /\ pc[c] = "wantWrite"
  /\ L!Acquire(c, "write")
  /\ Goto(c, "loading")
  /\ UNCHANGED <<call, calls, loaded, memory, file, issuer, backend, lost>>

(* Mutations of ReadFile: the cache in memory is taken for current, or the     *)
(* token is renewed without another look for one that the file has by now.     *)
ReadMemory(c) ==
  /\ pc[c] = "loading"
  /\ Goto(c, "asking")
  /\ UNCHANGED <<call, calls, holding, loaded, memory, file, issuer, backend, lost>>

ReadFileAndAsk(c) ==
  /\ pc[c] = "loading"
  /\ memory' = [memory EXCEPT ![ProcessOf[c]] = Decoded(@)]
  /\ Goto(c, "asking")
  /\ UNCHANGED <<call, calls, holding, loaded, file, issuer, backend, lost>>

ReadFile(c) ==
  /\ pc[c] = "loading"
  /\ memory' = [memory EXCEPT ![ProcessOf[c]] = Decoded(@)]
  /\ \/ /\ Usable(Decoded(Mine(c)), c)
        /\ Take(c, Cached(Decoded(Mine(c)), c))
        /\ Goto(c, "writing")
     \/ /\ ~Usable(Decoded(Mine(c)), c)
        /\ Goto(c, "asking")
        /\ UNCHANGED call
  /\ UNCHANGED <<calls, holding, loaded, file, issuer, backend, lost>>

(* The identity provider's token endpoint.  A refresh rotates the refresh     *)
(* token and mints an access token for the workspace, or for none where the   *)
(* user has no role in it.  A rotated refresh token ends the session.         *)
Rotates(refresh) == ~ended /\ refresh = issued
Replays(refresh) == ~ended /\ refresh # issued
Minted(w) == [id |-> issued + 1, claim |-> IF w \in Granted THEN w ELSE NoWorkspace]

(* The refresh request, which no context cancels.  Its answer may get lost,   *)
(* and it may never reach the identity provider.                              *)
Ask(c) ==
  /\ pc[c] = "asking"
  /\ \/ /\ Rotates(Mine(c).refresh)
        /\ issued' = issued + 1
        /\ \/ answer' = [answer EXCEPT ![c] = Minted(want[c])] /\ UNCHANGED lost
           \/ UNCHANGED answer /\ lost' = TRUE
        /\ UNCHANGED <<ended, replayed>>
     \/ /\ Replays(Mine(c).refresh)
        /\ ended' = TRUE /\ replayed' = TRUE
        /\ UNCHANGED <<answer, issued, lost>>
     \/ UNCHANGED <<answer, issuer, lost>>
  /\ Goto(c, "answered")
  /\ UNCHANGED <<want, rejected, out, calls, holding, loaded, memory, file, backend>>

(* RefreshCachedToken stores the rotated refresh token before it fails for a  *)
(* workspace without a role.  A failed refresh keeps the cache as it is.      *)
Refused(c) == want[c] # NoWorkspace /\ answer[c].claim # want[c]

(* A mutation of Receive: a refused workspace drops the rotated refresh token. *)
ReceiveAllOrNothing(c) ==
  /\ pc[c] = "answered"
  /\ \/ /\ answer[c] # NoToken /\ ~Refused(c)
        /\ memory' = [memory EXCEPT ![ProcessOf[c]] = WithLogin(@, answer[c])]
        /\ Take(c, Cached(WithLogin(Mine(c), answer[c]), c))
     \/ /\ ~(answer[c] # NoToken /\ ~Refused(c))
        /\ UNCHANGED <<call, memory>>
  /\ Goto(c, "writing")
  /\ UNCHANGED <<calls, holding, loaded, file, issuer, backend, lost>>

Receive(c) ==
  /\ pc[c] = "answered"
  /\ \/ /\ answer[c] # NoToken
        /\ memory' = [memory EXCEPT ![ProcessOf[c]] = WithLogin(@, answer[c])]
        /\ Take(c, IF Refused(c) THEN NoToken ELSE Cached(WithLogin(Mine(c), answer[c]), c))
     \/ /\ answer[c] = NoToken
        /\ UNCHANGED <<call, memory>>
  /\ Goto(c, "writing")
  /\ UNCHANGED <<calls, holding, loaded, file, issuer, backend, lost>>

(* A cache that cannot be written goes on in memory alone. *)
WriteBack(c) ==
  /\ pc[c] = "writing"
  /\ \/ file' = Mine(c) /\ UNCHANGED lost
     \/ file' = file /\ lost' = (lost \/ file.refresh # Mine(c).refresh)
  /\ Goto(c, "unlocking")
  /\ UNCHANGED <<call, calls, holding, loaded, memory, issuer, backend>>

(* A mutation of Unlock: a failed refresh returns with the lock held. *)
UnlockOnSuccess(c) ==
  /\ pc[c] = "unlocking"
  /\ IF out[c] = NoToken THEN End(c) /\ UNCHANGED holding
                              ELSE Goto(c, "sending") /\ UNCHANGED call /\ L!Release(c)
  /\ UNCHANGED <<calls, loaded, memory, file, issuer, backend, lost>>

Unlock(c) ==
  /\ pc[c] = "unlocking"
  /\ L!Release(c)
  /\ IF out[c] = NoToken THEN End(c) ELSE Goto(c, "sending") /\ UNCHANGED call
  /\ UNCHANGED <<calls, loaded, memory, file, issuer, backend, lost>>

-----------------------------------------------------------------------------
(* The request is sent.  A first 401 earns one retry with another token. *)
Send(c) ==
  /\ pc[c] = "sending"
  /\ IF out[c].id \in revoked /\ rejected[c] = NoToken
     THEN /\ Begin({c}, want[c], out[c])
          /\ Goto(c, "wantRead")
     ELSE End(c)
  /\ UNCHANGED <<calls, holding, loaded, memory, file, issuer, backend, lost>>

(* Tokens expire, and meshStack stops accepting them earlier than expected. *)
InvalidBound == Cardinality(expired) + Cardinality(revoked) < MaxInvalid

Expire(t) ==
  /\ t \notin expired
  /\ InvalidBound
  /\ expired' = expired \cup {t}
  /\ UNCHANGED <<pc, call, calls, holding, loaded, memory, file, issuer, revoked, lost>>

Revoke(t) ==
  /\ t \notin revoked
  /\ InvalidBound
  /\ revoked' = revoked \cup {t}
  /\ UNCHANGED <<pc, call, calls, holding, loaded, memory, file, issuer, expired, lost>>

(* The session ends at the identity provider, by an administrator or its age. *)
EndSession ==
  /\ ~ended
  /\ ended' = TRUE
  /\ UNCHANGED <<pc, call, calls, holding, loaded, memory, file, issued, replayed, backend, lost>>

(* A process is killed.  What it rotated and had not written is lost. *)
Crash(p) ==
  LET dead == {c \in Caller : ProcessOf[c] = p}
  IN  /\ \E c \in dead : pc[c] # "idle"
      /\ pc' = [c \in Caller |-> IF c \in dead THEN "idle" ELSE pc[c]]
      /\ Begin(dead, NoWorkspace, NoToken)
      /\ L!Drop(dead)
      /\ loaded' = loaded \ {p}
      /\ lost' = (lost \/ \E c \in dead :
                            \/ pc[c] = "answered" /\ answer[c] # NoToken
                            \/ pc[c] = "writing" /\ file.refresh # memory[p].refresh)
      /\ UNCHANGED <<calls, memory, file, issuer, backend>>

-----------------------------------------------------------------------------
Refresh(c) == ReadFile(c) \/ Ask(c) \/ Receive(c) \/ WriteBack(c) \/ Unlock(c)

Step(c) == \/ LockLoad(c) \/ Load(c)
           \/ LockRead(c) \/ LookUp(c)
           \/ LockWrite(c) \/ Refresh(c)
           \/ Send(c)

Next ==
  \/ \E c \in Caller : \/ Resolve(c) \/ GiveUp(c) \/ Step(c)
                       \/ \E w \in Workspace : Request(c, w)
  \/ \E t \in 0..issued : Expire(t) \/ Revoke(t)
  \/ EndSession
  \/ \E p \in Process : Crash(p)

Spec == Init /\ [][Next]_vars

(* Every goroutine that can run does. *)
FairSpec == Spec /\ \A c \in Caller : WF_vars(Step(c))

-----------------------------------------------------------------------------
(* Properties. *)

(* No process ever presents a refresh token that was rotated away, however    *)
(* many goroutines of however many processes renew at once, unless an answer, *)
(* a process or a write was lost right after a rotation: "Keycloak ends the   *)
(* whole session when a session replays a refresh token".                     *)
NeverReplayed == replayed => lost

(* While nobody modifies the cache, the file carries the latest refresh       *)
(* token, also after a refresh that failed for a workspace without a role.    *)
FileIsCurrent ==
  (~lost /\ \A c \in Caller : pc[c] \notin Modifying) => file.refresh = issued

(* A request is sent with a token for its workspace, and never again with the *)
(* one meshStack has just rejected.                                           *)
SentTokenFits ==
  \A c \in Caller : pc[c] = "sending" =>
     out[c].claim = want[c] /\ out[c] # rejected[c]

(* Nobody rotates the refresh token while the file has a token that serves    *)
(* the request: callers that wait for a refresh share what it minted.         *)
NoNeedlessRotation ==
  [][issued' # issued => \E c \in Caller : pc[c] = "asking" /\ ~Usable(file, c)]_vars

(* Every request ends, and every session gets its lock: nobody waits for a    *)
(* lock that is never given back.  The bound on the requests stands in for    *)
(* fairness, which the lock does not have.                                    *)
EveryRequestEnds == \A c \in Caller : pc[c] # "idle" ~> pc[c] = "idle"
=============================================================================

-------------------------- MODULE TokenCacheProofs --------------------------
(***************************************************************************)
(* Proofs about TokenCache, for any number of processes, goroutines and    *)
(* workspaces, of requests and of tokens that expire or are revoked.       *)
(***************************************************************************)
EXTENDS TokenCache, TLAPS

USE DEF Steps, Modifying

(* The values the records of the state are made of. *)
LEMMA Tokens ==
  /\ NoToken \in Token
  /\ AccessToken \subseteq Token
  /\ \A t \in Token : t # NoToken => t \in AccessToken
  /\ \A t \in AccessToken : t # NoToken /\ t.id \in Nat /\ t.claim \in Workspace
  BY NoTokenAssumption DEF Token, AccessToken

(* Reading a cache and storing a login in one yield a cache. *)
LEMMA Caches ==
  ASSUME NEW cache \in Cache
  PROVE  /\ cache.refresh \in Nat
         /\ \A w \in Workspace : cache.tokens[w] \in Token
         /\ file \in Cache => Decoded(cache) \in Cache
         /\ \A t \in AccessToken : WithLogin(cache, t) \in Cache
  BY Tokens DEF Cache, Decoded, WithLogin

(* What the helpers of the actions leave of the type of a call. *)
LEMMA CallType ==
  ASSUME TypeOK, NEW w \in Workspace, NEW t \in Token, NEW c \in Caller, NEW S,
         Begin(S, w, t) \/ Take(c, t) \/ UNCHANGED call
  PROVE  /\ want' \in [Caller -> Workspace]
         /\ rejected' \in [Caller -> Token]
         /\ out' \in [Caller -> Token]
         /\ answer' \in [Caller -> Token]
  BY Tokens DEF TypeOK, Begin, Take, call

(* What the identity provider mints is an access token. *)
LEMMA MintedType ==
  ASSUME issued \in Nat, NEW w \in Workspace
  PROVE  Minted(w) \in AccessToken
  BY WorkspaceAssumption DEF Minted, AccessToken

(* What the lock's actions leave of the type of holding. *)
LEMMA LockType ==
  ASSUME holding \in [Caller -> {"none", "read", "write"}], NEW c \in Caller, NEW m \in {"read", "write"}
  PROVE  /\ L!Acquire(c, m) => holding' \in [Caller -> {"none", "read", "write"}]
         /\ L!Release(c) => holding' \in [Caller -> {"none", "read", "write"}]
         /\ \A S : L!Drop(S) => holding' \in [Caller -> {"none", "read", "write"}]
  BY DEF L!Acquire, L!Release, L!Drop
-----------------------------------------------------------------------------
(* Every step keeps the state well typed. *)
LEMMA TypeNext == TypeOK /\ [Next]_vars => TypeOK'
<1> SUFFICES ASSUME TypeOK, [Next]_vars PROVE TypeOK'
  OBVIOUS
<1> USE DEF TypeOK, Goto, issuer, backend, call
<1>1. \A p \in Process : memory[p] \in Cache
  OBVIOUS
<1>2. NoWorkspace \in Workspace /\ NoToken \in Token
  BY WorkspaceAssumption, Tokens
<1>3. ASSUME NEW c \in Caller, Resolve(c) PROVE TypeOK'
  BY <1>3 DEF Resolve
<1>4. ASSUME NEW c \in Caller, GiveUp(c) PROVE TypeOK'
  BY <1>4, <1>2, CallType DEF GiveUp, End
<1>5. ASSUME NEW c \in Caller, NEW w \in Workspace, Request(c, w) PROVE TypeOK'
  BY <1>5, <1>2, CallType DEF Request
<1>6. ASSUME NEW c \in Caller, LockLoad(c) \/ LockRead(c) \/ LockWrite(c) PROVE TypeOK'
  BY <1>6, LockType DEF LockLoad, LockRead, LockWrite
<1>7. ASSUME NEW c \in Caller, Load(c) PROVE TypeOK'
  BY <1>7, LockType, ProcessOfAssumption DEF Load
<1>8. ASSUME NEW c \in Caller PROVE Mine(c) \in Cache /\ Cached(Mine(c), c) \in Token
  <2>1. Mine(c) \in Cache
    BY ProcessOfAssumption DEF Mine
  <2> QED BY <2>1, Caches DEF Cached
<1>9. ASSUME NEW c \in Caller, LookUp(c) PROVE TypeOK'
  BY <1>9, <1>8, LockType DEF LookUp, Take
<1>10. ASSUME NEW c \in Caller, ReadFile(c) PROVE TypeOK'
  <2>1. Decoded(Mine(c)) \in Cache
    BY <1>8, Caches
  <2>2. Cached(Decoded(Mine(c)), c) \in Token
    BY <2>1, Caches DEF Cached
  <2>3. memory' \in [Process -> Cache]
    BY <1>10, <2>1 DEF ReadFile, Mine
  <2> QED BY <1>10, <2>2, <2>3 DEF ReadFile, Take
<1>11. ASSUME NEW c \in Caller, Ask(c) PROVE TypeOK'
  <2>1. Minted(want[c]) \in Token
    BY MintedType, Tokens
  <2>2. answer' \in [Caller -> Token]
    BY <1>11, <2>1 DEF Ask
  <2>3. issued' \in Nat
    BY <1>11 DEF Ask
  <2>5. (ended \in BOOLEAN /\ replayed \in BOOLEAN /\ lost \in BOOLEAN)'
    BY <1>11, Zenon DEF Ask
  <2>4. pc' \in [Caller -> Steps]
    BY <1>11 DEF Ask
  <2> QED BY <1>11, <2>2, <2>3, <2>4, <2>5 DEF Ask
<1>12. ASSUME NEW c \in Caller, Receive(c) PROVE TypeOK'
  <2>1. CASE answer[c] = NoToken
    BY <1>12, <2>1 DEF Receive
  <2>2. CASE answer[c] # NoToken
    <3>1. WithLogin(Mine(c), answer[c]) \in Cache
      BY <2>2, <1>8, Caches, Tokens
    <3>2. Cached(WithLogin(Mine(c), answer[c]), c) \in Token
      BY <3>1, Caches DEF Cached
    <3>3. memory' \in [Process -> Cache]
      BY <1>12, <2>2, <3>1 DEF Receive, Mine
    <3> QED BY <1>12, <2>2, <3>2, <3>3, <1>2 DEF Receive, Take
  <2> QED BY <2>1, <2>2
<1>13. ASSUME NEW c \in Caller, WriteBack(c) PROVE TypeOK'
  BY <1>13, <1>8 DEF WriteBack
<1>14. ASSUME NEW c \in Caller, Unlock(c) PROVE TypeOK'
  BY <1>14, <1>2, LockType, CallType DEF Unlock, End
<1>15. ASSUME NEW c \in Caller, Send(c) PROVE TypeOK'
  <2>1. want[c] \in Workspace /\ out[c] \in Token
    OBVIOUS
  <2>2. CASE Begin({c}, want[c], out[c]) /\ Goto(c, "wantRead")
    BY <1>15, <2>1, <2>2, CallType DEF Send
  <2>3. CASE End(c)
    BY <1>15, <2>3, <1>2, CallType DEF Send, End
  <2> QED BY <1>15, <2>2, <2>3 DEF Send
<1>16. ASSUME NEW t \in 0..issued, Expire(t) \/ Revoke(t) PROVE TypeOK'
  <2>1. t \in Nat
    OBVIOUS
  <2>2. CASE Expire(t)
    BY <2>1, <2>2 DEF Expire
  <2>3. CASE Revoke(t)
    BY <2>1, <2>3 DEF Revoke
  <2> QED BY <1>16, <2>2, <2>3
<1>17. ASSUME EndSession PROVE TypeOK'
  <2>1. ended' \in BOOLEAN
    BY <1>17, Zenon DEF EndSession
  <2>2. UNCHANGED <<pc, call, calls, holding, loaded, memory, file, issued, replayed, backend, lost>>
    BY <1>17 DEF EndSession
  <2> QED BY <2>1, <2>2
<1>18. ASSUME NEW p \in Process, Crash(p) PROVE TypeOK'
  BY <1>18, <1>2, LockType, CallType DEF Crash
<1>19. CASE UNCHANGED vars
  BY <1>19 DEF vars
<1> QED
  BY <1>3, <1>4, <1>5, <1>6, <1>7, <1>8, <1>9, <1>10, <1>11, <1>12, <1>13, <1>14,
     <1>15, <1>16, <1>17, <1>18, <1>19 DEF Next, Step, Refresh

(* The state keeps its type: every cache, in memory or in the file, holds a   *)
(* refresh token and at most one access token per workspace.                  *)
THEOREM TypeCorrect == Spec => []TypeOK
<1>1. Init => TypeOK
  <2>1. FirstToken \in AccessToken
    BY WorkspaceAssumption DEF FirstToken, AccessToken
  <2>2. LoginCache \in Cache
    BY <2>1, Tokens DEF LoginCache, Cache
  <2>3. NoToken \in Token
    BY Tokens
  <2>4. Init => ended \in BOOLEAN /\ replayed \in BOOLEAN /\ lost \in BOOLEAN
    BY Zenon DEF Init
  <2>5. Init => expired \in SUBSET Nat /\ revoked \in SUBSET Nat /\ loaded \in SUBSET Process
    BY DEF Init
  <2>6. Init => calls \in [Caller -> Nat] /\ issued \in Nat
    BY DEF Init
  <2>7. Init => memory \in [Process -> Cache] /\ file \in Cache
    BY <2>2 DEF Init
  <2>8. Init => pc \in [Caller -> Steps] /\ holding \in [Caller -> {"none", "read", "write"}]
    BY DEF Init
  <2> QED BY <2>3, <2>4, <2>5, <2>6, <2>7, <2>8, WorkspaceAssumption DEF Init, TypeOK
<1> QED BY <1>1, TypeNext, PTL DEF Spec
-----------------------------------------------------------------------------
(* How each step needs the lock, and what the lock excludes. *)
Needed(step) == IF step \in Modifying THEN "write"
                ELSE IF step \in {"reading", "lookup"} THEN "read"
                ELSE "none"

LockInv ==
  /\ \A c \in Caller : holding[c] = Needed(pc[c])
  /\ \A c, d \in Caller : c # d /\ holding[c] = "write" => holding[d] = "none"

(* Acquiring, releasing and dropping the lock keep a writer alone. *)
LEMMA LockSteps ==
  ASSUME TypeOK, LockInv, NEW c \in Caller, NEW step \in Steps, Goto(c, step)
  PROVE  /\ \A m \in {"read", "write"} : L!Acquire(c, m) /\ m = Needed(step) => LockInv'
         /\ L!Release(c) /\ Needed(step) = "none" => LockInv'
         /\ UNCHANGED holding /\ Needed(step) = Needed(pc[c]) => LockInv'
<1>1. /\ pc'[c] = step
      /\ \A d \in Caller \ {c} : pc'[d] = pc[d]
  BY DEF TypeOK, Goto
<1>2. ASSUME NEW m \in {"read", "write"}, L!Acquire(c, m), m = Needed(step) PROVE LockInv'
  <2>1. /\ holding'[c] = m
        /\ \A d \in Caller \ {c} : holding'[d] = holding[d]
    BY <1>2 DEF TypeOK, L!Acquire
  <2>2. ASSUME NEW d \in Caller \ {c}
        PROVE  \/ holding[d] = "none"
               \/ m = "read" /\ holding[d] = "read"
    <3>1. <<c, d>> \in Caller \X Caller
      OBVIOUS
    <3> QED BY <1>2, <3>1, Zenon DEF L!Acquire, L!Compatible
  <2> QED BY <1>1, <1>2, <2>1, <2>2 DEF LockInv
<1>3. ASSUME L!Release(c), Needed(step) = "none" PROVE LockInv'
  <2>1. /\ holding'[c] = "none"
        /\ \A d \in Caller \ {c} : holding'[d] = holding[d]
    BY <1>3 DEF TypeOK, L!Release
  <2> QED BY <1>1, <1>3, <2>1 DEF LockInv
<1>4. ASSUME UNCHANGED holding, Needed(step) = Needed(pc[c]) PROVE LockInv'
  BY <1>1, <1>4 DEF LockInv
<1> QED BY <1>2, <1>3, <1>4

(* Every step keeps a writer alone, and gives everyone the lock it needs. *)
LEMMA LockNext == TypeOK /\ LockInv /\ [Next]_vars => LockInv'
<1> SUFFICES ASSUME TypeOK, LockInv, [Next]_vars PROVE LockInv'
  OBVIOUS
<1>1. ASSUME NEW c \in Caller, Step(c) PROVE LockInv'
  <2>1. CASE LockLoad(c) \/ LockRead(c) \/ LockWrite(c)
    BY <2>1, LockSteps DEF LockLoad, LockRead, LockWrite, Needed
  <2>2. CASE Load(c) \/ LookUp(c)
    BY <2>2, LockSteps DEF Load, LookUp, Needed
  <2>3. CASE ReadFile(c) \/ Ask(c) \/ Receive(c) \/ WriteBack(c)
    BY <2>3, LockSteps DEF ReadFile, Ask, Receive, WriteBack, Needed
  <2>4. CASE Unlock(c)
    BY <2>4, LockSteps DEF Unlock, End, Needed
  <2>5. CASE Send(c)
    BY <2>5, LockSteps DEF Send, End, Needed
  <2> QED BY <1>1, <2>1, <2>2, <2>3, <2>4, <2>5 DEF Step, Refresh
<1>2. ASSUME NEW c \in Caller, Resolve(c) PROVE LockInv'
  BY <1>2, LockSteps DEF Resolve, Needed
<1>3. ASSUME NEW c \in Caller, GiveUp(c) \/ \E w \in Workspace : Request(c, w) PROVE LockInv'
  BY <1>3, LockSteps DEF GiveUp, Request, End, Needed
<1>4. ASSUME NEW p \in Process, Crash(p) PROVE LockInv'
  BY <1>4 DEF Crash, TypeOK, LockInv, Needed, L!Drop
<1>5. CASE UNCHANGED <<pc, holding>>
  BY <1>5 DEF LockInv, Needed
<1> QED
  BY <1>1, <1>2, <1>3, <1>4, <1>5 DEF Next, Expire, Revoke, EndSession, vars

(* Whoever modifies the cache does so alone, and nobody loads it meanwhile. *)
LEMMA Alone ==
  ASSUME TypeOK, LockInv, NEW c \in Caller, NEW d \in Caller, c # d,
         pc[c] \in Modifying \cup {"reading"}
  PROVE  pc[d] \notin Modifying
  BY DEF TypeOK, LockInv, Needed
-----------------------------------------------------------------------------
(* Where the latest refresh token is while a caller modifies the cache. *)
Current(c) ==
  /\ pc[c] \in {"loading", "asking", "unlocking"} => file.refresh = issued
  /\ pc[c] \in {"asking", "writing"} => Mine(c).refresh = issued
  /\ (pc[c] = "answered" /\ answer[c] # NoToken) => answer[c].id = issued
  /\ (pc[c] = "answered" /\ answer[c] = NoToken) =>
        file.refresh = issued /\ Mine(c).refresh = issued

RotationInv ==
  ~lost => /\ ~replayed
           /\ (\A c \in Caller : pc[c] \notin Modifying) => file.refresh = issued
           /\ \A c \in Caller : Current(c)

(* A call has an answer only once its refresh was answered. *)
AnswerInv ==
  \A c \in Caller :
     pc[c] \notin {"answered", "writing", "unlocking", "sending"} => answer[c] = NoToken

(* A caller has an answer only after it has asked for one. *)
LEMMA AnswerNext == TypeOK /\ AnswerInv /\ [Next]_vars => AnswerInv'
<1> SUFFICES ASSUME TypeOK, AnswerInv, [Next]_vars PROVE AnswerInv'
  OBVIOUS
<1> USE DEF TypeOK, AnswerInv, Goto, End, Begin, Take, call, issuer, backend
<1>1. ASSUME NEW c \in Caller, LockLoad(c) \/ Load(c) \/ LockRead(c) \/ LookUp(c) PROVE AnswerInv'
  BY <1>1 DEF LockLoad, Load, LockRead, LookUp
<1>2. ASSUME NEW c \in Caller, LockWrite(c) \/ ReadFile(c) \/ Ask(c) PROVE AnswerInv'
  BY <1>2 DEF LockWrite, ReadFile, Ask
<1>3. ASSUME NEW c \in Caller, Receive(c) \/ WriteBack(c) PROVE AnswerInv'
  BY <1>3 DEF Receive, WriteBack
<1>4. ASSUME NEW c \in Caller, Unlock(c) \/ Send(c) PROVE AnswerInv'
  BY <1>4 DEF Unlock, Send
<1>5. ASSUME NEW c \in Caller, Resolve(c) \/ GiveUp(c) PROVE AnswerInv'
  BY <1>5 DEF Resolve, GiveUp
<1>6. ASSUME NEW c \in Caller, NEW w \in Workspace, Request(c, w) PROVE AnswerInv'
  BY <1>6 DEF Request
<1>7. ASSUME NEW p \in Process, Crash(p) PROVE AnswerInv'
  BY <1>7 DEF Crash
<1>8. CASE UNCHANGED <<pc, answer>>
  BY <1>8
<1> QED
  BY <1>1, <1>2, <1>3, <1>4, <1>5, <1>6, <1>7, <1>8
  DEF Next, Step, Refresh, Expire, Revoke, EndSession, vars

(* A step that leaves the tokens alone, and takes no caller from one step of   *)
(* modifying the cache to another, leaves them current.                        *)
LEMMA Quiet ==
  ASSUME RotationInv, UNCHANGED <<memory, file, issued, replayed, lost>>,
         \A d \in Caller : pc'[d] \in Modifying => pc'[d] = pc[d] /\ answer'[d] = answer[d],
         \A d \in Caller : pc[d] \in Modifying => pc'[d] = pc[d]
  PROVE  RotationInv'
  BY DEF RotationInv, Current, Mine

(* No step puts an older refresh token in the place of the latest one. *)
LEMMA RotationNext ==
  TypeOK /\ LockInv /\ AnswerInv /\ RotationInv /\ [Next]_vars => RotationInv'
<1> SUFFICES ASSUME TypeOK, LockInv, AnswerInv, RotationInv, [Next]_vars PROVE RotationInv'
  OBVIOUS
<1> USE DEF Goto, End, Begin, Take, call, issuer, backend
<1>1. ASSUME NEW c \in Caller, Resolve(c) \/ GiveUp(c) \/ LockLoad(c) \/ LockRead(c) \/ LookUp(c)
      PROVE  RotationInv'
  BY <1>1, Quiet DEF Resolve, GiveUp, LockLoad, LockRead, LookUp, TypeOK
<1>2. ASSUME NEW c \in Caller, NEW w \in Workspace, Request(c, w) PROVE RotationInv'
  BY <1>2, Quiet DEF Request, TypeOK
<1>3. ASSUME NEW c \in Caller, Send(c) PROVE RotationInv'
  BY <1>3, Quiet DEF Send, TypeOK
<1>4. ASSUME NEW c \in Caller, Load(c) PROVE RotationInv'
  <2>1. \A d \in Caller : pc[d] \notin Modifying
    BY <1>4, Alone DEF Load
  <2> QED BY <1>4, <2>1 DEF Load, RotationInv, Current, Mine, TypeOK
<1>5. ASSUME NEW c \in Caller, pc[c] \in Modifying, \A d \in Caller \ {c} : pc'[d] = pc[d],
             ~lost' => ~lost, ~lost' => ~replayed', ~lost' => Current(c)',
             (~lost' /\ pc'[c] \notin Modifying) => file'.refresh = issued'
      PROVE  RotationInv'
  BY <1>5, Alone DEF RotationInv, Current
<1>6. ASSUME NEW c \in Caller, LockWrite(c) PROVE RotationInv'
  <2>1. /\ \A d \in Caller \ {c} : pc'[d] = pc[d] /\ d # c
        /\ pc[c] = "wantWrite" /\ pc'[c] = "loading"
    BY <1>6 DEF LockWrite, TypeOK
  <2>2. UNCHANGED <<call, memory, file, issued, replayed, lost>>
    BY <1>6 DEF LockWrite
  <2>3. ASSUME NEW d \in Caller \ {c} PROVE pc[d] \notin Modifying
    <3>1. <<c, d>> \in Caller \X Caller
      OBVIOUS
    <3>2. holding[d] = "none"
      BY <1>6, <3>1, Zenon DEF LockWrite, L!Acquire, L!Compatible
    <3> QED BY <3>2 DEF LockInv, Needed
  <2>4. \A d \in Caller : pc[d] \notin Modifying
    BY <2>1, <2>3
  <2> QED BY <2>1, <2>2, <2>4 DEF RotationInv, Current
<1>7. ASSUME NEW c \in Caller, ReadFile(c) PROVE RotationInv'
  BY <1>7, <1>5, ProcessOfAssumption DEF ReadFile, RotationInv, Current, Mine, Decoded, TypeOK
<1>8. ASSUME NEW c \in Caller, Ask(c) PROVE RotationInv'
  <2>1. /\ pc[c] = "asking" /\ pc'[c] = "answered"
        /\ \A d \in Caller \ {c} : pc'[d] = pc[d]
        /\ UNCHANGED <<memory, file>>
    BY <1>8 DEF Ask, TypeOK
  <2>2. answer[c] = NoToken
    BY <2>1 DEF AnswerInv
  <2>3. ~lost => ~replayed /\ file.refresh = issued /\ Mine(c).refresh = issued
    BY <2>1 DEF RotationInv, Current
  <2>4. CASE UNCHANGED <<answer, issuer, lost>>
    BY <1>5, <2>1, <2>2, <2>3, <2>4 DEF RotationInv, Current, Mine
  <2>5. CASE Rotates(Mine(c).refresh) /\ Ask(c)
    <3>1. \/ lost'
          \/ answer'[c] = Minted(want[c]) /\ issued' = issued + 1 /\ UNCHANGED <<lost, replayed>>
          \/ UNCHANGED <<answer, issuer, lost>>
      BY <2>5 DEF Ask, TypeOK, Rotates, Replays
    <3>2. Minted(want[c]).id = issued + 1 /\ Minted(want[c]) # NoToken
      BY MintedType, Tokens DEF Minted, TypeOK
    <3> QED BY <1>5, <2>1, <2>3, <2>4, <3>1, <3>2 DEF Current
  <2>6. CASE Replays(Mine(c).refresh) /\ Ask(c)
    <3>1. lost
      BY <2>3, <2>6 DEF Replays
    <3> QED BY <2>6, <3>1 DEF Ask, RotationInv, Replays, Rotates
  <2> QED BY <1>8, <2>4, <2>5, <2>6 DEF Ask
<1>9. ASSUME NEW c \in Caller, Receive(c) PROVE RotationInv'
  <2>1. /\ pc[c] = "answered" /\ pc'[c] = "writing"
        /\ \A d \in Caller \ {c} : pc'[d] = pc[d]
        /\ UNCHANGED <<file, issued, replayed, lost>>
    BY <1>9 DEF Receive, TypeOK
  <2>2. ASSUME ~lost PROVE Mine(c)'.refresh = issued
    <3>1. CASE answer[c] = NoToken
      BY <1>9, <2>1, <2>2, <3>1 DEF Receive, RotationInv, Current, Mine
    <3>2. CASE answer[c] # NoToken
      <4>1. answer[c].id = issued
        BY <2>1, <2>2, <3>2 DEF RotationInv, Current
      <4>2. Mine(c)' = WithLogin(Mine(c), answer[c])
        BY <1>9, <3>2, ProcessOfAssumption DEF Receive, Mine, TypeOK
      <4> QED BY <4>1, <4>2 DEF WithLogin
    <3> QED BY <3>1, <3>2
  <2>3. ~lost' => Current(c)'
    BY <2>1, <2>2 DEF Current
  <2> QED BY <1>5, <2>1, <2>3 DEF RotationInv
<1>10. ASSUME NEW c \in Caller, WriteBack(c) PROVE RotationInv'
  <2>1. pc[c] = "writing" /\ pc'[c] = "unlocking" /\ \A d \in Caller \ {c} : pc'[d] = pc[d]
    BY <1>10 DEF WriteBack, TypeOK
  <2>2. ~lost' => ~lost
    BY <1>10, Zenon DEF WriteBack
  <2>6. replayed' = replayed /\ issued' = issued
    BY <1>10 DEF WriteBack
  <2>3. ASSUME ~lost, Mine(c).refresh = issued PROVE lost' \/ file'.refresh = issued
    BY <1>10, <2>3 DEF WriteBack
  <2>4. ~lost => ~replayed /\ Mine(c).refresh = issued
    BY <2>1 DEF RotationInv, Current
  <2>5. ~lost' => Current(c)'
    BY <2>1, <2>2, <2>3, <2>4, <2>6 DEF Current
  <2> QED BY <1>5, <2>1, <2>2, <2>4, <2>5, <2>6
<1>11. ASSUME NEW c \in Caller, Unlock(c) PROVE RotationInv'
  <2>1. pc[c] = "unlocking" /\ pc'[c] \notin Modifying /\ \A d \in Caller \ {c} : pc'[d] = pc[d]
    BY <1>11 DEF Unlock, TypeOK
  <2>2. UNCHANGED <<file, issued, replayed, lost>>
    BY <1>11 DEF Unlock
  <2> QED BY <1>5, <2>1, <2>2 DEF RotationInv, Current
<1>12. ASSUME NEW p \in Process, Crash(p) PROVE RotationInv'
  <2> DEFINE dead == {c \in Caller : ProcessOf[c] = p}
  <2>1. UNCHANGED <<memory, file, issued, replayed>>
    BY <1>12 DEF Crash
  <2>2. \A c \in Caller : IF c \in dead THEN pc'[c] = "idle"
                                       ELSE pc'[c] = pc[c] /\ answer'[c] = answer[c]
    BY <1>12 DEF Crash
  <2>3. SUFFICES ASSUME ~lost' PROVE RotationInv'
    BY DEF RotationInv
  <2>4. ~lost
    BY <1>12, <2>3 DEF Crash
  <2>5. ASSUME NEW c \in dead
        PROVE  /\ pc[c] = "answered" => answer[c] = NoToken
               /\ pc[c] = "writing" => file.refresh = Mine(c).refresh
    BY <1>12, <2>3 DEF Crash, Mine
  <2>6. \A c \in Caller : Current(c)'
    BY <2>1, <2>2, <2>4 DEF RotationInv, Current, Mine
  <2>7. ASSUME \A c \in Caller : pc'[c] \notin Modifying PROVE file.refresh = issued
    <3>1. CASE \A c \in Caller : pc[c] \notin Modifying
      BY <2>4, <3>1 DEF RotationInv
    <3>2. ASSUME NEW c \in Caller, pc[c] \in Modifying PROVE file.refresh = issued
      <4>1. c \in dead
        BY <2>2, <2>7, <3>2
      <4> QED BY <2>4, <2>5, <3>2, <4>1 DEF RotationInv, Current
    <3> QED BY <3>1, <3>2
  <2> QED BY <2>1, <2>4, <2>6, <2>7 DEF RotationInv
<1>13. CASE UNCHANGED <<pc, call, memory, file, issued, replayed, lost>>
  BY <1>13, Quiet
<1> QED
  BY <1>1, <1>2, <1>3, <1>4, <1>6, <1>7, <1>8, <1>9, <1>10, <1>11, <1>12, <1>13
  DEF Next, Step, Refresh, Expire, Revoke, EndSession, vars
-----------------------------------------------------------------------------
(* Who asks for a refresh has found no usable token in the file. *)
NeedInv == \A c \in Caller : pc[c] = "asking" => ~Usable(file, c)

(* A caller that asks for a refresh needs it until then, as nobody else writes the file. *)
LEMMA NeedNext == TypeOK /\ LockInv /\ NeedInv /\ [Next]_vars => NeedInv'
<1> SUFFICES ASSUME TypeOK, LockInv, NeedInv, [Next]_vars,
                    NEW c \in Caller, pc'[c] = "asking", Usable(file, c)'
             PROVE  FALSE
  BY DEF NeedInv
<1> USE DEF Goto, End, Begin, Take, call, issuer, backend
<1>1. ASSUME ReadFile(c) PROVE FALSE
  <2>1. ~Usable(Decoded(Mine(c)), c)
    BY <1>1 DEF ReadFile, TypeOK
  <2>2. UNCHANGED <<file, want, rejected, expired>>
    BY <1>1 DEF ReadFile
  <2>3. file.tokens[want[c]] # NoToken
    BY <2>2 DEF Usable, Cached
  <2>4. Cached(Decoded(Mine(c)), c) = Cached(file, c)
    BY <2>3 DEF Decoded, Cached, TypeOK
  <2> QED BY <2>1, <2>2, <2>4 DEF Usable, Cached
<1>2. CASE UNCHANGED <<file, want, rejected>> /\ expired \subseteq expired' /\ pc[c] = "asking"
  BY <1>2 DEF NeedInv, Usable, Cached
<1>3. ASSUME NEW d \in Caller, Resolve(d) \/ LockLoad(d) \/ LockRead(d) \/ LockWrite(d) PROVE FALSE
  BY <1>2, <1>3 DEF Resolve, LockLoad, LockRead, LockWrite, TypeOK
<1>4. ASSUME NEW d \in Caller, Load(d) \/ LookUp(d) PROVE FALSE
  BY <1>2, <1>4 DEF Load, LookUp, TypeOK
<1>5. ASSUME NEW d \in Caller, GiveUp(d) \/ Unlock(d) \/ Send(d) PROVE FALSE
  <2>1. d # c /\ pc[c] = "asking"
    BY <1>5 DEF GiveUp, Unlock, Send, TypeOK
  <2>2. want'[c] = want[c] /\ rejected'[c] = rejected[c] /\ UNCHANGED <<file, expired>>
    BY <1>5, <2>1 DEF GiveUp, Unlock, Send, TypeOK
  <2> QED BY <2>1, <2>2 DEF NeedInv, Usable, Cached
<1>6. ASSUME NEW d \in Caller, NEW w \in Workspace, Request(d, w) PROVE FALSE
  <2>1. d # c /\ pc[c] = "asking"
    BY <1>6 DEF Request, TypeOK
  <2>2. want'[c] = want[c] /\ rejected'[c] = rejected[c] /\ UNCHANGED <<file, expired>>
    BY <1>6, <2>1 DEF Request, TypeOK
  <2> QED BY <2>1, <2>2 DEF NeedInv, Usable, Cached
<1>7. ASSUME NEW d \in Caller, ReadFile(d), d # c PROVE FALSE
  BY <1>2, <1>7 DEF ReadFile, TypeOK
<1>8. ASSUME NEW d \in Caller, Ask(d) \/ Receive(d) PROVE FALSE
  BY <1>2, <1>8 DEF Ask, Receive, TypeOK
<1>9. ASSUME NEW d \in Caller, WriteBack(d) PROVE FALSE
  <2>1. d # c /\ pc[c] = "asking" /\ pc[d] = "writing"
    BY <1>9 DEF WriteBack, TypeOK
  <2> QED BY <2>1, Alone
<1>10. ASSUME NEW p \in Process, Crash(p) PROVE FALSE
  <2>1. ProcessOf[c] # p /\ pc[c] = "asking"
    BY <1>10 DEF Crash, TypeOK
  <2>2. want'[c] = want[c] /\ rejected'[c] = rejected[c] /\ UNCHANGED <<file, expired>>
    BY <1>10, <2>1 DEF Crash, TypeOK
  <2> QED BY <2>1, <2>2 DEF NeedInv, Usable, Cached
<1>11. CASE UNCHANGED <<pc, call, file>> /\ expired \subseteq expired'
  BY <1>2, <1>11
<1> QED
  BY <1>1, <1>3, <1>4, <1>5, <1>6, <1>7, <1>8, <1>9, <1>10, <1>11
  DEF Next, Step, Refresh, Expire, Revoke, EndSession, vars

-----------------------------------------------------------------------------
IInv == TypeOK /\ LockInv /\ AnswerInv /\ RotationInv /\ NeedInv

(* The inductive invariant: the exclusive lock makes whoever modifies the      *)
(* cache the only one who knows the latest refresh token.                      *)
THEOREM InductiveInvariant == Spec => []IInv
<1>1. Init => LockInv /\ AnswerInv /\ NeedInv
  BY DEF Init, LockInv, Needed, AnswerInv, NeedInv
<1>2. Init => RotationInv
  BY DEF Init, RotationInv, Current, LoginCache
<1>3. IInv /\ [Next]_vars => IInv'
  BY TypeNext, LockNext, AnswerNext, RotationNext, NeedNext DEF IInv
<1> QED BY <1>1, <1>2, <1>3, TypeCorrect, PTL DEF Spec, IInv

(* No process presents a refresh token that was rotated away, unless one was   *)
(* lost right after its rotation.                                              *)
THEOREM NothingReplayed == Spec => []NeverReplayed
<1>1. IInv => NeverReplayed
  BY Zenon DEF IInv, RotationInv, NeverReplayed
<1> QED BY <1>1, InductiveInvariant, PTL

(* The file carries the latest refresh token whenever nobody modifies it.      *)
THEOREM FileStaysCurrent == Spec => []FileIsCurrent
<1>1. IInv => FileIsCurrent
  BY DEF IInv, RotationInv, FileIsCurrent
<1> QED BY <1>1, InductiveInvariant, PTL

(* A refresh token is rotated only for a request that no token in the file     *)
(* serves: whoever waited for the lock takes what the refresh before it minted.*)
THEOREM RefreshesAreShared == Spec => NoNeedlessRotation
<1>1. IInv /\ [Next]_vars =>
        [issued' # issued => \E c \in Caller : pc[c] = "asking" /\ ~Usable(file, c)]_vars
  <2> SUFFICES ASSUME IInv, [Next]_vars, issued' # issued
               PROVE  \E c \in Caller : pc[c] = "asking" /\ ~Usable(file, c)
    OBVIOUS
  <2>1. PICK c \in Caller : Ask(c)
    BY DEF Next, Step, Refresh, Resolve, GiveUp, Request, LockLoad, Load, LockRead, LookUp,
           LockWrite, ReadFile, Receive, WriteBack, Unlock, Send, Expire, Revoke, EndSession,
           Crash, vars, issuer
  <2> QED BY <2>1 DEF Ask, IInv, NeedInv
<1> QED BY <1>1, InductiveInvariant, PTL DEF Spec, NoNeedlessRotation
-----------------------------------------------------------------------------
(* Where the tokens of a cache come from: each is kept under the workspace it  *)
(* claims, and a rotation that has happened has minted it.                     *)
Filed(cache) ==
  \A w \in Workspace : cache.tokens[w] # NoToken =>
     cache.tokens[w].claim = w /\ cache.tokens[w].id <= issued

(* What a call has in hand.  The answer to a refresh is newer than the token   *)
(* the refresh was for, or there is none.                                      *)
InHand(c) ==
  /\ rejected[c] # NoToken => rejected[c].id <= issued
  /\ answer[c] # NoToken => /\ answer[c].id <= issued
                            /\ answer[c].claim \in {want[c], NoWorkspace}
                            /\ answer[c] # rejected[c]
  /\ out[c] # NoToken => /\ out[c].id <= issued
                         /\ out[c].claim = want[c]
                         /\ out[c] # rejected[c]
  /\ pc[c] = "sending" => out[c] # NoToken

FitInv ==
  /\ Filed(file)
  /\ \A p \in Process : Filed(memory[p])
  /\ \A c \in Caller : InHand(c)

(* A usable token of such a cache serves the request. *)
LEMMA UsableFits ==
  ASSUME TypeOK, NEW c \in Caller, NEW cache \in Cache, Filed(cache), Usable(cache, c)
  PROVE  /\ Cached(cache, c) \in AccessToken
         /\ Cached(cache, c).id <= issued
         /\ Cached(cache, c).claim = want[c]
         /\ Cached(cache, c) # rejected[c]
<1>1. want[c] \in Workspace
  BY DEF TypeOK
<1> QED BY <1>1, Caches, Tokens DEF Filed, Usable, Cached

(* Reading the file keeps a cache filed, and so does storing a login in it. *)
LEMMA FiledCaches ==
  ASSUME TypeOK, NEW cache \in Cache, Filed(cache), Filed(file)
  PROVE  /\ Filed(Decoded(cache))
         /\ \A t \in AccessToken : t.id <= issued => Filed(WithLogin(cache, t))
<1>1. Filed(Decoded(cache))
  BY DEF Filed, Decoded
<1>2. ASSUME NEW t \in AccessToken, t.id <= issued PROVE Filed(WithLogin(cache, t))
  <2>1. \A w \in Workspace : WithLogin(cache, t).tokens[w] = IF w = t.claim THEN t ELSE cache.tokens[w]
    BY Tokens DEF WithLogin, Cache
  <2> QED BY <1>2, <2>1 DEF Filed
<1> QED BY <1>1, <1>2

(* Every step keeps the tokens filed, and those in hand fitting the request. *)
LEMMA FitNext == TypeOK /\ FitInv /\ [Next]_vars => FitInv'
<1> SUFFICES ASSUME TypeOK, FitInv, [Next]_vars PROVE FitInv'
  OBVIOUS
<1> USE DEF Goto, End, Begin, Take, call, issuer, backend
<1>1. ASSUME UNCHANGED <<memory, file, issued>>, \A c \in Caller : InHand(c)' PROVE FitInv'
  BY <1>1 DEF FitInv, Filed
<1>2. ASSUME UNCHANGED <<want, rejected, out, answer, issued>>,
             \A c \in Caller : pc'[c] = "sending" => pc[c] = "sending"
      PROVE  \A c \in Caller : InHand(c)'
  BY <1>2 DEF FitInv, InHand
<1>3. ASSUME NEW c \in Caller, Resolve(c) \/ LockLoad(c) \/ LockRead(c) \/ LockWrite(c) PROVE FitInv'
  BY <1>1, <1>2, <1>3 DEF Resolve, LockLoad, LockRead, LockWrite, TypeOK
<1>4. ASSUME NEW S, NEW w \in Workspace, NEW t \in Token, Begin(S, w, t),
             t # NoToken => t.id <= issued, UNCHANGED issued,
             \A c \in Caller \cap S : pc'[c] # "sending", \A c \in Caller \ S : pc'[c] = pc[c]
      PROVE  \A c \in Caller : InHand(c)'
  BY <1>4 DEF FitInv, InHand
<1>5. NoWorkspace \in Workspace /\ NoToken \in Token
  BY WorkspaceAssumption, Tokens
<1>6. ASSUME NEW c \in Caller, GiveUp(c) PROVE FitInv'
  <2>1. /\ Begin({c}, NoWorkspace, NoToken)
        /\ UNCHANGED <<memory, file, issued>>
        /\ pc'[c] # "sending" /\ \A d \in Caller \ {c} : pc'[d] = pc[d]
    BY <1>6 DEF GiveUp, TypeOK
  <2> HIDE DEF Begin
  <2> QED BY <1>1, <1>4, <1>5, <2>1
<1>7. ASSUME NEW c \in Caller, NEW w \in Workspace, Request(c, w) PROVE FitInv'
  <2>1. /\ Begin({c}, w, NoToken)
        /\ UNCHANGED <<memory, file, issued>>
        /\ pc'[c] # "sending" /\ \A d \in Caller \ {c} : pc'[d] = pc[d]
    BY <1>7 DEF Request, TypeOK
  <2> HIDE DEF Begin
  <2> QED BY <1>1, <1>4, <1>5, <2>1
<1>8. ASSUME NEW c \in Caller, Send(c) PROVE FitInv'
  <2>1. want[c] \in Workspace /\ out[c] \in Token /\ out[c].id <= issued
    BY <1>8 DEF Send, TypeOK, FitInv, InHand
  <2>2. UNCHANGED <<memory, file, issued>> /\ pc'[c] # "sending" /\ \A d \in Caller \ {c} : pc'[d] = pc[d]
    BY <1>8 DEF Send, TypeOK
  <2>3. Begin({c}, want[c], out[c]) \/ Begin({c}, NoWorkspace, NoToken)
    BY <1>8, Zenon DEF Send, End
  <2> HIDE DEF Begin
  <2> QED BY <1>1, <1>4, <1>5, <2>1, <2>2, <2>3
<1>9. ASSUME NEW p \in Process, Crash(p) PROVE FitInv'
  <2> DEFINE dead == {c \in Caller : ProcessOf[c] = p}
  <2>1. /\ Begin(dead, NoWorkspace, NoToken)
        /\ UNCHANGED <<memory, file, issued>>
        /\ \A c \in Caller \cap dead : pc'[c] # "sending"
        /\ \A c \in Caller \ dead : pc'[c] = pc[c]
    BY <1>9 DEF Crash
  <2> HIDE DEF Begin, dead
  <2> QED BY <1>1, <1>4, <1>5, <2>1
<1>10. ASSUME NEW c \in Caller PROVE Mine(c) \in Cache /\ Filed(Mine(c))
  BY ProcessOfAssumption DEF Mine, TypeOK, FitInv
<1>11. ASSUME NEW c \in Caller, Load(c) PROVE FitInv'
  <2>1. UNCHANGED <<want, rejected, out, answer, issued, file>>
    BY <1>11 DEF Load
  <2>2. \A d \in Caller : pc'[d] = "sending" => pc[d] = "sending"
    BY <1>11 DEF Load, TypeOK
  <2>3. \A p \in Process : memory'[p] \in {memory[p], file}
    BY <1>11 DEF Load, TypeOK
  <2> QED BY <1>2, <2>1, <2>2, <2>3 DEF FitInv, Filed
<1>12. ASSUME NEW c \in Caller, NEW cache \in Cache, Filed(cache), Usable(cache, c),
              Take(c, Cached(cache, c)), UNCHANGED issued,
              \A d \in Caller \ {c} : pc'[d] = pc[d]
       PROVE  \A d \in Caller : InHand(d)'
  <2>1. /\ Cached(cache, c) \in AccessToken
        /\ Cached(cache, c).id <= issued
        /\ Cached(cache, c).claim = want[c]
        /\ Cached(cache, c) # rejected[c]
    BY <1>12, UsableFits
  <2>2. out'[c] = Cached(cache, c) /\ \A d \in Caller \ {c} : out'[d] = out[d]
    BY <1>12 DEF TypeOK
  <2>3. UNCHANGED <<want, rejected, answer, issued>>
    BY <1>12
  <2> QED BY <1>12, <2>1, <2>2, <2>3, Tokens DEF FitInv, InHand
<1>13. ASSUME NEW c \in Caller, LookUp(c) PROVE FitInv'
  <2>1. UNCHANGED <<memory, file, issued>> /\ \A d \in Caller \ {c} : pc'[d] = pc[d]
    BY <1>13 DEF LookUp, TypeOK
  <2>2. CASE Usable(Mine(c), c) /\ Take(c, Cached(Mine(c), c))
    BY <1>1, <1>10, <1>12, <2>1, <2>2
  <2>3. CASE Goto(c, "wantWrite") /\ UNCHANGED call
    BY <1>1, <1>2, <2>1, <2>3 DEF TypeOK
  <2> QED BY <1>13, <2>2, <2>3 DEF LookUp
<1>14. ASSUME NEW c \in Caller, ReadFile(c) PROVE FitInv'
  <2>1. UNCHANGED <<file, issued>> /\ \A d \in Caller \ {c} : pc'[d] = pc[d]
    BY <1>14 DEF ReadFile, TypeOK
  <2>2. Decoded(Mine(c)) \in Cache /\ Filed(Decoded(Mine(c)))
    BY <1>10, FiledCaches, Caches DEF FitInv, TypeOK
  <2>3. \A p \in Process : memory'[p] \in {memory[p], Decoded(Mine(c))}
    BY <1>14 DEF ReadFile, Mine, TypeOK
  <2>4. \A d \in Caller : InHand(d)'
    <3>1. CASE Usable(Decoded(Mine(c)), c) /\ Take(c, Cached(Decoded(Mine(c)), c))
      BY <1>12, <2>1, <2>2, <3>1
    <3>2. CASE Goto(c, "asking") /\ UNCHANGED call
      BY <1>2, <2>1, <3>2 DEF TypeOK
    <3> QED BY <1>14, <3>1, <3>2 DEF ReadFile
  <2> QED BY <2>1, <2>2, <2>3, <2>4 DEF FitInv, Filed
<1>15. ASSUME NEW c \in Caller, Ask(c) PROVE FitInv'
  <2>1. /\ UNCHANGED <<want, rejected, out, memory, file>>
        /\ \A d \in Caller : pc'[d] = "sending" => pc[d] = "sending"
    BY <1>15 DEF Ask, TypeOK
  <2>2. /\ issued' \in Nat /\ issued <= issued'
        /\ \A d \in Caller \ {c} : answer'[d] = answer[d]
        /\ \/ answer'[c] = answer[c]
           \/ answer'[c] = Minted(want[c]) /\ issued' = issued + 1
    BY <1>15 DEF Ask, TypeOK
  <2>3. \A t \in AccessToken : t.id <= issued => t.id <= issued' /\ t # Minted(want[c])
    <3>1. Minted(want[c]).id = issued + 1
      BY DEF Minted
    <3> QED BY <2>2, <3>1, Tokens DEF TypeOK
  <2>4. Minted(want[c]).claim \in {want[c], NoWorkspace} /\ Minted(want[c]).id = issued + 1
    BY DEF Minted
  <2>5. \A d \in Caller : /\ rejected[d] \in Token /\ out[d] \in Token /\ answer[d] \in Token
    BY DEF TypeOK
  <2>6. ASSUME NEW cache \in Cache, Filed(cache)
        PROVE  \A w \in Workspace : cache.tokens[w] # NoToken =>
                  cache.tokens[w].claim = w /\ cache.tokens[w].id <= issued'
    BY <2>3, <2>6, Caches, Tokens DEF Filed
  <2>7. Filed(file)' /\ \A p \in Process : Filed(memory[p])'
    BY <2>1, <2>6 DEF FitInv, Filed, TypeOK
  <2>8. ASSUME NEW d \in Caller PROVE InHand(d)'
    <3>1. InHand(d)
      BY DEF FitInv
    <3>2. CASE answer'[d] = answer[d]
      BY <2>1, <2>3, <2>5, <3>1, <3>2, Tokens DEF InHand
    <3>3. CASE d = c /\ answer'[c] = Minted(want[c]) /\ issued' = issued + 1
      BY <2>1, <2>3, <2>4, <2>5, <3>1, <3>3, Tokens DEF InHand, TypeOK
    <3> QED BY <2>2, <3>2, <3>3
  <2> QED BY <2>7, <2>8 DEF FitInv
<1>16. ASSUME NEW c \in Caller, Receive(c) PROVE FitInv'
  <2>1. /\ UNCHANGED <<want, rejected, answer, file, issued>>
        /\ \A d \in Caller : pc'[d] = "sending" => pc[d] = "sending" /\ d # c
    BY <1>16 DEF Receive, TypeOK
  <2>2. CASE answer[c] = NoToken
    BY <1>16, <1>1, <1>2, <2>1, <2>2 DEF Receive
  <2>3. CASE answer[c] # NoToken
    <3>1. answer[c] \in AccessToken /\ answer[c].id <= issued
      BY <2>3, Tokens DEF FitInv, InHand, TypeOK
    <3>2. Filed(WithLogin(Mine(c), answer[c]))
      BY <1>10, <3>1, FiledCaches DEF FitInv
    <3>3. \A p \in Process : memory'[p] \in {memory[p], WithLogin(Mine(c), answer[c])}
      BY <1>16, <2>3 DEF Receive, Mine, TypeOK
    <3>4. /\ \A d \in Caller \ {c} : out'[d] = out[d]
          /\ out'[c] = IF Refused(c) THEN NoToken ELSE Cached(WithLogin(Mine(c), answer[c]), c)
      BY <1>16, <2>3 DEF Receive, TypeOK
    <3>5. ASSUME ~Refused(c) PROVE Cached(WithLogin(Mine(c), answer[c]), c) = answer[c] /\ answer[c].claim = want[c]
      <4>1. answer[c].claim = want[c]
        BY <2>3, <3>5 DEF Refused, FitInv, InHand
      <4>2. want[c] \in Workspace /\ Mine(c).tokens \in [Workspace -> Token]
        BY <1>10 DEF TypeOK, Cache
      <4> QED BY <4>1, <4>2 DEF Cached, WithLogin
    <3>6. \A d \in Caller : InHand(d)'
      BY <2>1, <2>3, <3>4, <3>5 DEF FitInv, InHand
    <3> QED BY <2>1, <3>2, <3>3, <3>6 DEF FitInv, Filed
  <2> QED BY <2>2, <2>3
<1>17. ASSUME NEW c \in Caller, WriteBack(c) PROVE FitInv'
  <2>1. /\ UNCHANGED <<want, rejected, out, answer, memory, issued>>
        /\ \A d \in Caller : pc'[d] = "sending" => pc[d] = "sending"
    BY <1>17 DEF WriteBack, TypeOK
  <2>2. file' \in {file, Mine(c)}
    BY <1>17 DEF WriteBack
  <2> QED BY <1>2, <1>10, <2>1, <2>2 DEF FitInv, Filed
<1>18. ASSUME NEW c \in Caller, Unlock(c) PROVE FitInv'
  <2>1. UNCHANGED <<memory, file, issued>> /\ \A d \in Caller \ {c} : pc'[d] = pc[d]
    BY <1>18 DEF Unlock, TypeOK
  <2>2. CASE out[c] = NoToken
    <3>1. Begin({c}, NoWorkspace, NoToken) /\ pc'[c] # "sending"
      BY <1>18, <2>2 DEF Unlock, TypeOK
    <3> HIDE DEF Begin
    <3> QED BY <1>1, <1>4, <1>5, <2>1, <3>1
  <2>3. CASE out[c] # NoToken
    BY <1>18, <1>1, <2>1, <2>3 DEF Unlock, FitInv, InHand
  <2> QED BY <2>2, <2>3
<1>19. CASE UNCHANGED <<pc, call, memory, file, issued>>
  BY <1>1, <1>2, <1>19
<1> QED
  BY <1>3, <1>6, <1>7, <1>8, <1>9, <1>11, <1>13, <1>14, <1>15, <1>16, <1>17, <1>18, <1>19
  DEF Next, Step, Refresh, Expire, Revoke, EndSession, vars, issuer

(* A request is sent with a token that claims its workspace, and its retry    *)
(* with another one than meshStack has just rejected.                         *)
THEOREM SentTokensFit == Spec => []SentTokenFits
<1>1. Init => FitInv
  <2>1. FirstToken.id = 0 /\ FirstToken.claim = NoWorkspace
    BY DEF FirstToken
  <2>2. issued = 0 => Filed(LoginCache)
    BY <2>1 DEF Filed, LoginCache
  <2> QED BY <2>2 DEF Init, FitInv, InHand
<1>2. FitInv => SentTokenFits
  BY DEF FitInv, InHand, SentTokenFits
<1> QED BY <1>1, <1>2, TypeCorrect, FitNext, PTL DEF Spec
=============================================================================

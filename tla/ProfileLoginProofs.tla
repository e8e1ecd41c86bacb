-------------------------- MODULE ProfileLoginProofs --------------------------
(***************************************************************************)
(* Proofs about the life of browser logins in profiles, for any processes, *)
(* profiles and access levels, and any number of commands.                 *)
(***************************************************************************)
EXTENDS ProfileLogin, TLAPS

-----------------------------------------------------------------------------
(* Where a command is, and what it has there.                              *)

InLogin(p) == kind[p] = "login" /\ pc[p] \in {"session", "refresh", "write", "restore"}

(* A command at work has a profile, a login has the profiles to itself, and whoever is  *)
(* modifying a cache has its lock.                                                        *)
Place(p) ==
  /\ pc[p] # "idle" => kind[p] \in Commands /\ name[p] \in Name /\ target[p] \in Name
  /\ pc[p] = "lock" => kind[p] \in Editing \cup {"login"}
  /\ pc[p] = "read" => kind[p] # "edit"
  /\ pc[p] = "load" => kind[p] \in {"use", "login", "logout", "delete"} /\ level[p] # None
  /\ pc[p] = "move" => kind[p] = "rename" /\ level[p] # None
  /\ pc[p] \in {"choose", "redirected", "writeOver", "restore"} => kind[p] = "login"
  /\ pc[p] \in {"session", "refresh", "write"} => kind[p] \in {"use", "login"} /\ level[p] # None
  /\ pc[p] \in {"redirected", "writeOver", "restore"} => level[p] # None
  /\ kind[p] = "login" /\ pc[p] \notin {"idle", "lock", "end"} => lock = p
  /\ pc[p] = "writeOver" \/ InLogin(p) => memory[p] # None
  /\ pc[p] \in {"refresh", "write"} => cacheLock[name[p]] = p
  /\ matched[p] => pc[p] \in {"refresh", "write"} /\ memory[p] # None
  /\ stored[p] => kind[p] = "login" /\ pc[p] \in {"session", "refresh", "write", "end"}

PlaceInv == TypeOK /\ \A p \in Process : Place(p)

(* What a process does. *)
Acts(p) ==
  \/ \E k \in Kinds, n, m \in Name : Start(p, k, n, m)
  \/ LockProfiles(p) \/ ReadCredentials(p) \/ Load(p) \/ End(p)
  \/ Use(p) \/ LogIn(p) \/ Edit(p) \/ Crash(p)

(* A process changes what it has itself, and takes no lock from another one. *)
LEMMA Others ==
  ASSUME PlaceInv, NEW p \in Process, Acts(p), NEW q \in Process, q # p
  PROVE  /\ pc'[q] = pc[q] /\ kind'[q] = kind[q] /\ name'[q] = name[q] /\ target'[q] = target[q]
         /\ level'[q] = level[q] /\ memory'[q] = memory[q] /\ matched'[q] = matched[q]
         /\ previous'[q] = previous[q] /\ stored'[q] = stored[q]
         /\ lock = q => lock' = q
         /\ \A n \in Name : cacheLock[n] = q => cacheLock'[n] = q
         /\ q \in overlapped => q \in overlapped'
<1>1. /\ pc \in [Process -> Steps] /\ kind \in [Process -> Commands \cup {None}]
      /\ name \in [Process -> Name \cup {None}] /\ target \in [Process -> Name \cup {None}]
      /\ level \in [Process -> Level \cup {None}] /\ memory \in [Process -> Refresh \cup {None}]
      /\ matched \in [Process -> BOOLEAN] /\ previous \in [Process -> Cached \cup {None}]
      /\ stored \in [Process -> BOOLEAN] /\ cacheLock \in [Name -> Process \cup {None}]
      /\ None \notin Process
  BY NoneAssumption DEF PlaceInv, TypeOK
<1>2. Place(p)
  BY DEF PlaceInv
<1> DEFINE Kept == /\ pc'[q] = pc[q] /\ kind'[q] = kind[q] /\ name'[q] = name[q] /\ target'[q] = target[q]
                   /\ level'[q] = level[q] /\ memory'[q] = memory[q] /\ matched'[q] = matched[q]
                   /\ previous'[q] = previous[q] /\ stored'[q] = stored[q]
                   /\ lock = q => lock' = q
                   /\ \A n \in Name : cacheLock[n] = q => cacheLock'[n] = q
                   /\ q \in overlapped => q \in overlapped'
<1>3. ASSUME Forget(p)
      PROVE  /\ pc'[q] = pc[q] /\ kind'[q] = kind[q] /\ name'[q] = name[q] /\ target'[q] = target[q]
             /\ level'[q] = level[q] /\ memory'[q] = memory[q] /\ matched'[q] = matched[q]
             /\ previous'[q] = previous[q] /\ stored'[q] = stored[q]
             /\ lock = q => lock' = q
             /\ q \in overlapped => q \in overlapped'
  BY <1>1, <1>3 DEF Forget, Goto, Set
<1>4. ASSUME NEW k \in Kinds, NEW n \in Name, NEW m \in Name, Start(p, k, n, m) PROVE Kept
  BY <1>1, <1>4 DEF Start, Goto, Set, ghosts
<1>5. CASE LockProfiles(p)
  BY <1>1, <1>5 DEF LockProfiles, Goto, ghosts, command
<1>6. CASE ReadCredentials(p) \/ Load(p)
  BY <1>1, <1>6 DEF ReadCredentials, Load, Goto, Set, ghosts
<1>7. CASE End(p)
  BY <1>1, <1>3, <1>7 DEF End
<1>8. CASE Crash(p)
  BY <1>1, <1>3, <1>8 DEF Crash
<1>9. CASE LockCache(p)
  BY <1>1, <1>9 DEF LockCache, CacheFree, Goto, Set, ghosts
<1>10. CASE RefreshToken(p)
  BY <1>1, <1>10 DEF RefreshToken, Rotate, Goto
<1>11. CASE WriteCache(p)
  <2>1. cacheLock[name[p]] = p /\ cacheLock' = [cacheLock EXCEPT ![name[p]] = None]
    BY <1>2, <1>11 DEF WriteCache, Place, Set
  <2> QED BY <1>1, <1>11, <2>1 DEF WriteCache, Goto, Set
<1>12. CASE EndUse(p)
  BY <1>1, <1>12 DEF EndUse, Goto, ghosts, command
<1>13. ASSUME NEW l \in Level, Choose(p, l) PROVE Kept
  BY <1>1, <1>13 DEF Choose, Goto, Set, ghosts
<1>14. CASE Arrive(p) \/ WriteOver(p)
  BY <1>1, <1>14 DEF Arrive, WriteOver, Goto, Set, ghosts
<1>15. CASE FailLogin(p) \/ Store(p) \/ EndLogin(p) \/ Restore(p)
  BY <1>1, <1>15 DEF FailLogin, Store, EndLogin, Restore, Goto, Set, ghosts, command
<1>16. CASE Edit(p)
  BY <1>1, <1>16 DEF Edit, EndBrowserSession, MoveCredentials, RemoveCredentials, RemoveCache, Goto, ghosts, command
<1> QED BY <1>4, <1>5, <1>6, <1>7, <1>8, <1>9, <1>10, <1>11, <1>12, <1>13, <1>14, <1>15, <1>16 DEF Acts, Use, LogIn

(* The place of another process is as it was. *)
LEMMA OthersPlace ==
  ASSUME PlaceInv, NEW p \in Process, Acts(p), NEW q \in Process, q # p
  PROVE  Place(q)'
<1>1. /\ pc'[q] = pc[q] /\ kind'[q] = kind[q] /\ name'[q] = name[q] /\ target'[q] = target[q]
      /\ level'[q] = level[q] /\ memory'[q] = memory[q] /\ matched'[q] = matched[q] /\ stored'[q] = stored[q]
      /\ lock = q => lock' = q
      /\ \A n \in Name : cacheLock[n] = q => cacheLock'[n] = q
  BY Others
<1>2. Place(q)
  BY DEF PlaceInv
<1>3. pc[q] \in {"refresh", "write"} => name[q] \in Name /\ cacheLock[name[q]] = q
  BY <1>2 DEF Place
<1>4. pc'[q] \in {"refresh", "write"} => cacheLock'[name'[q]] = q
  BY <1>1, <1>3
<1> QED BY <1>1, <1>2, <1>4 DEF Place, InLogin

(* The types of what a command has. *)
CommandTypes ==
  /\ pc \in [Process -> Steps] /\ kind \in [Process -> Commands \cup {None}]
  /\ name \in [Process -> Name \cup {None}] /\ target \in [Process -> Name \cup {None}]
  /\ level \in [Process -> Level \cup {None}] /\ memory \in [Process -> Refresh \cup {None}]
  /\ matched \in [Process -> BOOLEAN] /\ previous \in [Process -> Cached \cup {None}]
  /\ stored \in [Process -> BOOLEAN] /\ overlapped \in SUBSET Process

(* The types of what is shared. *)
SharedTypes ==
  /\ lock \in Process \cup {None} /\ cacheLock \in [Name -> Process \cup {None}]
  /\ profiles \in SUBSET Name /\ credentials \in [Name -> Level \cup {None}]
  /\ cache \in [Name -> Cached \cup {None}] /\ sessions \in 0..MaxLogins
  /\ rotations \in [Session -> 0..MaxRotations]
  /\ ended \in SUBSET Session /\ lost \in SUBSET Session /\ abandoned \in SUBSET Session
  /\ spoiled \in SUBSET Name /\ commands \in 0..MaxCommands

(* Together they are all there is. *)
LEMMA TypesSplit == TypeOK <=> CommandTypes /\ SharedTypes
BY DEF TypeOK, CommandTypes, SharedTypes

(* None is nothing else. *)
LEMMA NoneElse ==
  /\ None \notin Process /\ None \notin Name /\ None \notin Level /\ None \notin Commands
  /\ None \notin Refresh /\ None \notin Cached
BY NoneAssumption

(* A command that is over has nothing. *)
LEMMA ForgetKeeps ==
  ASSUME CommandTypes, SharedTypes, NEW p \in Process, Forget(p)
  PROVE  CommandTypes' /\ Place(p)' /\ lock' \in Process \cup {None}
<1>1. "idle" \in Steps
  BY DEF Steps
<1>2. CommandTypes'
  BY <1>1 DEF Forget, Goto, Set, CommandTypes
<1>3. /\ pc'[p] = "idle" /\ kind'[p] = None /\ memory'[p] = None /\ matched'[p] = FALSE /\ stored'[p] = FALSE
      /\ lock' \in Process \cup {None}
  BY DEF Forget, Goto, Set, CommandTypes, SharedTypes
<1>4. None # "login"
  BY NoneElse DEF Commands
<1> QED BY <1>2, <1>3, <1>4 DEF Place, InLogin

(* A command starts, and finds its profile and its login. *)
LEMMA BeginningKeeps ==
  ASSUME CommandTypes, SharedTypes, NEW p \in Process, Place(p),
         \/ \E k \in Kinds, n, m \in Name : Start(p, k, n, m)
         \/ LockProfiles(p) \/ ReadCredentials(p) \/ Load(p) \/ End(p)
  PROVE  CommandTypes' /\ SharedTypes' /\ Place(p)'
<1>1. CASE \E k \in Kinds, n, m \in Name : Start(p, k, n, m)
  <2>1. PICK k \in Kinds, n \in Name, m \in Name : Start(p, k, n, m)
    BY <1>1
  <2>2. /\ k \in Commands /\ commands' \in 0..MaxCommands
    <3>1. commands \in Nat /\ MaxCommands \in Nat /\ commands < MaxCommands /\ commands' = commands + 1
      BY <2>1, BoundsAssumption DEF Start, SharedTypes
    <3> QED BY <3>1, KindsAssumption
  <2>3. /\ pc' = [pc EXCEPT ![p] = IF k \in Editing \cup {"login"} THEN "lock" ELSE "read"]
        /\ kind' = [kind EXCEPT ![p] = k] /\ name' = [name EXCEPT ![p] = n] /\ target' = [target EXCEPT ![p] = m]
        /\ pc[p] = "idle"
        /\ UNCHANGED <<level, memory, matched, previous, stored, lock, cacheLock, files, idp, ghosts>>
    BY <2>1 DEF Start, Goto, Set
  <2>4. CommandTypes'
    BY <2>2, <2>3 DEF CommandTypes, Steps, ghosts
  <2>5. SharedTypes'
    BY <2>2, <2>3 DEF SharedTypes, files, idp, ghosts
  <2>6. /\ pc'[p] = IF k \in Editing \cup {"login"} THEN "lock" ELSE "read"
        /\ kind'[p] = k /\ name'[p] = n /\ target'[p] = m /\ matched'[p] = matched[p] /\ stored'[p] = stored[p]
    BY <2>3 DEF CommandTypes
  <2>7. ~matched[p] /\ ~stored[p]
    BY <2>3 DEF Place
  <2>8. k \notin Editing \cup {"login"} => k # "edit" /\ k # "login"
    BY DEF Editing
  <2>9. Place(p)'
    <3>1. CASE k \in Editing \cup {"login"}
      BY <2>2, <2>6, <2>7, <3>1 DEF Place, InLogin
    <3>2. CASE k \notin Editing \cup {"login"}
      BY <2>2, <2>6, <2>7, <2>8, <3>2 DEF Place, InLogin
    <3> QED BY <3>1, <3>2
  <2> QED BY <2>4, <2>5, <2>9
<1>2. CASE LockProfiles(p)
  <2>1. /\ pc[p] = "lock" /\ UNCHANGED <<command, cacheLock, files, idp, ghosts, commands>>
        /\ kind[p] \in Editing \cup {"login"} /\ kind[p] \in Commands /\ name[p] \in Name /\ target[p] \in Name
        /\ ~matched[p] /\ ~stored[p]
    BY <1>2 DEF LockProfiles, Place
  <2>2. \/ lock' = p /\ pc' = [pc EXCEPT ![p] = AfterLock(p)]
        \/ lock' = lock /\ pc' = [pc EXCEPT ![p] = "end"]
    BY <1>2 DEF LockProfiles, Goto
  <2>3. /\ AfterLock(p) \in {"end", "removeCredentials", "read"}
        /\ AfterLock(p) = "read" => kind[p] # "edit"
    BY DEF AfterLock
  <2>4. CommandTypes' /\ SharedTypes'
    BY <2>1, <2>2, <2>3 DEF CommandTypes, SharedTypes, Steps, command, files, idp, ghosts
  <2>5. /\ pc'[p] \in {"end", "removeCredentials", "read"}
        /\ pc'[p] = "read" => kind[p] # "edit"
        /\ pc'[p] # "end" => lock' = p
        /\ kind'[p] = kind[p] /\ name'[p] = name[p] /\ target'[p] = target[p] /\ ~matched'[p] /\ ~stored'[p]
    BY <2>1, <2>2, <2>3 DEF CommandTypes, command
  <2> QED BY <2>1, <2>4, <2>5 DEF Place, InLogin
<1>3. CASE ReadCredentials(p)
  <2>1. /\ pc[p] = "read" /\ level' = [level EXCEPT ![p] = credentials[name[p]]]
        /\ pc' = [pc EXCEPT ![p] = IF credentials[name[p]] = None THEN WithoutLogin[kind[p]] ELSE WithLogin[kind[p]]]
        /\ UNCHANGED <<kind, name, target, memory, matched, previous, stored, lock, cacheLock, files,
                       idp, ghosts, commands>>
    BY <1>3 DEF ReadCredentials, Goto, Set
  <2>2. /\ kind[p] \in {"use", "login", "logout", "delete", "rename"} /\ name[p] \in Name /\ target[p] \in Name
        /\ kind[p] \in Commands /\ ~matched[p] /\ ~stored[p] /\ (kind[p] = "login" => lock = p)
    BY <2>1 DEF Place, Commands, Editing
  <2>3. credentials[name[p]] \in Level \cup {None}
    BY <2>2 DEF SharedTypes
  <2>4. /\ WithoutLogin[kind[p]] \in {"end", "choose", "removeCredentials"}
        /\ WithLogin[kind[p]] \in {"load", "move"}
        /\ WithoutLogin[kind[p]] = "choose" => kind[p] = "login"
        /\ WithLogin[kind[p]] = "move" <=> kind[p] = "rename"
    BY <2>2 DEF WithoutLogin, WithLogin
  <2>5. CommandTypes' /\ SharedTypes'
    BY <2>1, <2>3, <2>4 DEF CommandTypes, SharedTypes, Steps, files, idp, ghosts
  <2>6. /\ pc'[p] = IF credentials[name[p]] = None THEN WithoutLogin[kind[p]] ELSE WithLogin[kind[p]]
        /\ level'[p] = credentials[name[p]] /\ kind'[p] = kind[p] /\ name'[p] = name[p] /\ target'[p] = target[p]
        /\ ~matched'[p] /\ ~stored'[p] /\ lock' = lock
    BY <2>1, <2>2 DEF CommandTypes
  <2> QED
    <3>1. CASE credentials[name[p]] = None
      BY <2>2, <2>4, <2>5, <2>6, <3>1 DEF Place, InLogin
    <3>2. CASE credentials[name[p]] # None
      BY <2>2, <2>4, <2>5, <2>6, <3>2 DEF Place, InLogin
    <3> QED BY <3>1, <3>2
<1>4. CASE Load(p)
  <2>1. /\ pc[p] = "load" /\ pc' = [pc EXCEPT ![p] = AfterLoad[kind[p]]]
        /\ memory' = [memory EXCEPT ![p] = IF Matches(p) THEN cache[name[p]].token ELSE None]
        /\ UNCHANGED <<kind, name, target, level, matched, previous, stored, lock, cacheLock, files,
                       idp, ghosts, commands>>
    BY <1>4 DEF Load, Goto, Set
  <2>2. /\ kind[p] \in {"use", "login", "logout", "delete"} /\ level[p] # None
        /\ name[p] \in Name /\ target[p] \in Name
        /\ kind[p] \in Commands /\ ~matched[p] /\ ~stored[p] /\ (kind[p] = "login" => lock = p)
    BY <2>1 DEF Place
  <2>3. (IF Matches(p) THEN cache[name[p]].token ELSE None) \in Refresh \cup {None}
    BY <2>2 DEF Matches, SharedTypes, Cached
  <2>4. /\ AfterLoad[kind[p]] \in {"session", "choose", "revoke"}
        /\ AfterLoad[kind[p]] = "choose" <=> kind[p] = "login"
        /\ AfterLoad[kind[p]] = "session" <=> kind[p] = "use"
    BY <2>2 DEF AfterLoad
  <2>5. CommandTypes' /\ SharedTypes'
    BY <2>1, <2>3, <2>4 DEF CommandTypes, SharedTypes, Steps, files, idp, ghosts
  <2>6. /\ pc'[p] = AfterLoad[kind[p]]
        /\ level'[p] = level[p] /\ kind'[p] = kind[p] /\ name'[p] = name[p] /\ target'[p] = target[p]
        /\ ~matched'[p] /\ ~stored'[p] /\ lock' = lock
    BY <2>1, <2>2 DEF CommandTypes
  <2> QED BY <2>2, <2>4, <2>5, <2>6 DEF Place, InLogin
<1>5. CASE End(p)
  <2>1. Forget(p) /\ UNCHANGED <<cacheLock, files, idp, lost, abandoned, spoiled, commands>>
    BY <1>5 DEF End
  <2> QED BY <2>1, ForgetKeeps DEF SharedTypes, files, idp
<1> QED BY <1>1, <1>2, <1>3, <1>4, <1>5

(* A refresh token stays one of its session. *)
LEMMA RotateKeeps ==
  ASSUME CommandTypes, SharedTypes, NEW p \in Process, NEW t \in Refresh, memory[p] = t, Rotate(p, t)
  PROVE  /\ memory' \in [Process -> Refresh \cup {None}] /\ memory'[p] \in Refresh
         /\ memory'[p].session = t.session
         /\ rotations' \in [Session -> 0..MaxRotations] /\ lost' \in SUBSET Session
         /\ rotations' = [rotations EXCEPT ![t.session] = rotations[t.session] + 1]
         /\ t.session \notin ended /\ t.rotation = rotations[t.session]
         /\ \/ memory' = [memory EXCEPT ![p] = [session |-> t.session, rotation |-> t.rotation + 1]] /\ lost' = lost
            \/ memory' = memory /\ lost' = lost \cup {t.session}
<1>1. t.session \in Session /\ t.rotation \in 0..MaxRotations /\ MaxRotations \in Nat
  BY BoundsAssumption DEF Refresh
<1>2. /\ t.session \notin ended /\ t.rotation = rotations[t.session] /\ t.rotation < MaxRotations
      /\ rotations' = [rotations EXCEPT ![t.session] = rotations[t.session] + 1]
      /\ \/ memory' = [memory EXCEPT ![p].rotation = t.rotation + 1] /\ lost' = lost
         \/ memory' = memory /\ lost' = lost \cup {t.session}
  BY DEF Rotate
<1>3. t.rotation + 1 \in 0..MaxRotations
  BY <1>1, <1>2
<1>4. rotations' \in [Session -> 0..MaxRotations] /\ lost' \in SUBSET Session
  BY <1>1, <1>2, <1>3 DEF SharedTypes
<1> DEFINE u == [session |-> t.session, rotation |-> t.rotation + 1]
<1>5. u \in Refresh /\ u.session = t.session
  BY <1>1, <1>3 DEF Refresh
<1>6. [t EXCEPT !.rotation = t.rotation + 1] = u
  BY DEF Refresh
<1>7. [memory EXCEPT ![p].rotation = t.rotation + 1] = [memory EXCEPT ![p] = u]
  BY <1>6
<1> HIDE DEF u
<1>8. \/ memory' = [memory EXCEPT ![p] = u] /\ lost' = lost
      \/ memory' = memory /\ lost' = lost \cup {t.session}
  BY <1>2, <1>7
<1>9. memory \in [Process -> Refresh \cup {None}]
  BY DEF CommandTypes
<1>10. memory' \in [Process -> Refresh \cup {None}] /\ memory'[p] \in Refresh /\ memory'[p].session = t.session
  BY <1>5, <1>8, <1>9
<1> QED BY <1>2, <1>4, <1>8, <1>10 DEF u

(* A cache file is of the process's identity and token. *)
LEMMA CacheOfTypes ==
  ASSUME CommandTypes, NEW p \in Process, level[p] # None, memory[p] # None
  PROVE  CacheOf(p) \in Cached /\ CacheOf(p).level = level[p] /\ CacheOf(p).token = memory[p]
BY DEF CommandTypes, CacheOf, Cached

(* A command uses its login. *)
LEMMA UseKeeps ==
  ASSUME CommandTypes, SharedTypes, NEW p \in Process, Place(p), Use(p)
  PROVE  CommandTypes' /\ SharedTypes' /\ Place(p)'
<1>1. /\ pc[p] \in {"session", "refresh", "write"} /\ kind[p] \in {"use", "login"} /\ level[p] # None
      /\ kind[p] \in Commands /\ name[p] \in Name /\ target[p] \in Name
      /\ kind[p] = "login" => lock = p /\ memory[p] # None
      /\ stored[p] => kind[p] = "login"
  BY DEF Use, LockCache, RefreshToken, WriteCache, EndUse, Place, InLogin
<1>2. CASE LockCache(p)
  <2>1. /\ cacheLock' = [cacheLock EXCEPT ![name[p]] = p]
        /\ matched' = [matched EXCEPT ![p] = Matches(p)]
        /\ memory' = [memory EXCEPT ![p] = IF Matches(p) THEN cache[name[p]].token ELSE memory[p]]
        /\ pc' = [pc EXCEPT ![p] = "refresh"]
        /\ UNCHANGED <<kind, name, target, level, previous, stored, lock, files, idp, ghosts, commands>>
    BY <1>2 DEF LockCache, Goto, Set
  <2>2. /\ Matches(p) \in BOOLEAN
        /\ Matches(p) => cache[name[p]].token \in Refresh
    BY <1>1 DEF Matches, SharedTypes, Cached
  <2>3. SharedTypes'
    BY <1>1, <2>1 DEF SharedTypes, files, idp, ghosts
  <2>4. matched' \in [Process -> BOOLEAN]
    BY <2>1, <2>2 DEF CommandTypes
  <2>5. (IF Matches(p) THEN cache[name[p]].token ELSE memory[p]) \in Refresh \cup {None}
    BY <2>2 DEF CommandTypes
  <2>6. memory' \in [Process -> Refresh \cup {None}]
    BY <2>1, <2>5 DEF CommandTypes
  <2>7. CommandTypes'
    BY <2>1, <2>4, <2>6 DEF CommandTypes, Steps, ghosts
  <2>8. /\ pc'[p] = "refresh" /\ kind'[p] = kind[p] /\ name'[p] = name[p] /\ target'[p] = target[p]
        /\ level'[p] = level[p] /\ stored'[p] = stored[p] /\ cacheLock'[name[p]] = p
    BY <1>1, <2>1 DEF CommandTypes, SharedTypes
  <2>9. /\ memory'[p] = IF Matches(p) THEN cache[name[p]].token ELSE memory[p]
        /\ matched'[p] => Matches(p)
    BY <2>1 DEF CommandTypes
  <2>10. /\ matched'[p] => memory'[p] # None
         /\ memory[p] # None => memory'[p] # None
    BY <2>2, <2>9, NoneElse
  <2> QED BY <1>1, <2>1, <2>3, <2>7, <2>8, <2>10 DEF Place, InLogin
<1>3. CASE RefreshToken(p)
  <2>1. /\ pc[p] = "refresh" /\ pc' = [pc EXCEPT ![p] = "write"]
        /\ UNCHANGED <<kind, name, target, level, matched, previous, stored, lock, cacheLock, files,
                       sessions, abandoned, overlapped, spoiled, commands>>
    BY <1>3 DEF RefreshToken, Goto
  <2>2. /\ memory' \in [Process -> Refresh \cup {None}] /\ (memory[p] # None => memory'[p] # None)
        /\ rotations' \in [Session -> 0..MaxRotations] /\ lost' \in SUBSET Session /\ ended' \in SUBSET Session
    <3>1. CASE UNCHANGED <<memory, rotations, ended, lost>>
      BY <3>1 DEF CommandTypes, SharedTypes
    <3>2. CASE memory[p] # None /\ Rotate(p, memory[p]) /\ UNCHANGED ended
      <4>1. memory[p] \in Refresh
        BY <3>2 DEF CommandTypes
      <4>2. memory' \in [Process -> Refresh \cup {None}] /\ memory'[p] \in Refresh
            /\ rotations' \in [Session -> 0..MaxRotations] /\ lost' \in SUBSET Session
        BY <3>2, <4>1, RotateKeeps
      <4> QED BY <3>2, <4>2, NoneElse DEF SharedTypes
    <3>3. CASE memory[p] # None /\ Replay(memory[p]) /\ UNCHANGED <<memory, rotations, lost>>
      <4>1. memory[p] \in Refresh
        BY <3>3 DEF CommandTypes
      <4>2. ended' \in SUBSET Session
        BY <3>3, <4>1 DEF Replay, SharedTypes, Refresh
      <4> QED BY <3>3, <4>2 DEF CommandTypes, SharedTypes
    <3> QED BY <1>3, <3>1, <3>2, <3>3 DEF RefreshToken
  <2>3. CommandTypes'
    BY <2>1, <2>2 DEF CommandTypes, Steps
  <2>4. SharedTypes'
    BY <2>1, <2>2 DEF SharedTypes, files
  <2>5. /\ pc'[p] = "write" /\ kind'[p] = kind[p] /\ name'[p] = name[p] /\ target'[p] = target[p]
        /\ level'[p] = level[p] /\ stored'[p] = stored[p] /\ cacheLock'[name[p]] = p /\ lock' = lock
        /\ (matched'[p] => matched[p])
    BY <2>1 DEF CommandTypes, Place
  <2>6. matched[p] => memory[p] # None
    BY DEF Place
  <2> QED BY <1>1, <2>2, <2>3, <2>4, <2>5, <2>6 DEF Place, InLogin
<1>4. CASE WriteCache(p)
  <2>1. /\ cacheLock' = [cacheLock EXCEPT ![name[p]] = None]
        /\ matched' = [matched EXCEPT ![p] = FALSE]
        /\ pc' = [pc EXCEPT ![p] = "session"]
        /\ UNCHANGED <<kind, name, target, level, memory, previous, stored, lock, profiles, credentials,
                       idp, abandoned, overlapped, spoiled, commands>>
    BY <1>4 DEF WriteCache, Goto, Set
  <2>2. matched[p] => memory[p] \in Refresh
    BY DEF Place, CommandTypes
  <2>3. cache' \in [Name -> Cached \cup {None}] /\ lost' \in SUBSET Session
    <3>1. CASE matched[p] /\ cache' = [cache EXCEPT ![name[p]] = CacheOf(p)] /\ UNCHANGED lost
      <4>1. CacheOf(p) \in Cached
        BY <1>1, <2>2, <3>1, CacheOfTypes, NoneElse
      <4> QED BY <3>1, <4>1 DEF SharedTypes
    <3>2. CASE ~matched[p] /\ UNCHANGED <<cache, lost>>
      BY <3>2 DEF SharedTypes
    <3>3. CASE matched[p] /\ UNCHANGED cache /\ lost' = LostWith(p)
      BY <2>2, <3>3 DEF SharedTypes, LostWith, Refresh
    <3> QED BY <1>4, <3>1, <3>2, <3>3 DEF WriteCache, SetCache
  <2>4. SharedTypes'
    BY <2>1, <2>3 DEF SharedTypes, idp
  <2>5. CommandTypes'
    BY <2>1 DEF CommandTypes, Steps
  <2>6. /\ pc'[p] = "session" /\ kind'[p] = kind[p] /\ name'[p] = name[p] /\ target'[p] = target[p]
        /\ level'[p] = level[p] /\ stored'[p] = stored[p] /\ memory'[p] = memory[p] /\ lock' = lock /\ ~matched'[p]
    BY <2>1 DEF CommandTypes
  <2> QED BY <1>1, <2>4, <2>5, <2>6 DEF Place, InLogin
<1>5. CASE EndUse(p)
  <2>1. /\ kind[p] = "use" /\ pc[p] = "session" /\ pc' = [pc EXCEPT ![p] = "end"]
        /\ UNCHANGED <<command, lock, cacheLock, files, idp, ghosts, commands>>
    BY <1>5 DEF EndUse, Goto
  <2>2. CommandTypes' /\ SharedTypes'
    BY <2>1 DEF CommandTypes, SharedTypes, Steps, command, files, idp, ghosts
  <2>3. pc'[p] = "end" /\ kind'[p] = "use" /\ name'[p] = name[p] /\ target'[p] = target[p] /\ (matched'[p] => matched[p])
        /\ (stored'[p] => stored[p])
    BY <2>1 DEF CommandTypes, command
  <2>4. ~matched[p]
    BY <2>1 DEF Place
  <2> QED BY <1>1, <2>1, <2>2, <2>3, <2>4 DEF Place, InLogin
<1> QED BY <1>2, <1>3, <1>4, <1>5 DEF Use

(* A login goes on. *)
LEMMA LogInKeeps ==
  ASSUME CommandTypes, SharedTypes, NEW p \in Process, Place(p), LogIn(p)
  PROVE  CommandTypes' /\ SharedTypes' /\ Place(p)'
<1>1. /\ kind[p] = "login" /\ pc[p] \in {"choose", "redirected", "writeOver", "session", "restore"}
      /\ name[p] \in Name /\ target[p] \in Name /\ kind[p] \in Commands /\ lock = p
      /\ ~matched[p] /\ (stored[p] => pc[p] = "session")
  BY DEF LogIn, Choose, Arrive, WriteOver, FailLogin, Store, EndLogin, Restore, Place
<1>2. ASSUME NEW l \in Level, Choose(p, l) PROVE CommandTypes' /\ SharedTypes' /\ Place(p)'
  <2>1. /\ pc[p] = "choose" /\ level' = [level EXCEPT ![p] = l] /\ memory' = [memory EXCEPT ![p] = None]
        /\ \/ pc' = [pc EXCEPT ![p] = "redirected"]
           \/ pc' = [pc EXCEPT ![p] = "end"]
        /\ ended' = ended \/ (memory[p] # None /\ ended' = ended \cup {memory[p].session})
        /\ UNCHANGED <<kind, name, target, matched, previous, stored, lock, cacheLock, files,
                       sessions, rotations, ghosts, commands>>
    BY <1>2 DEF Choose, Goto, Set, Replaces, Revoked
  <2>2. ended' \in SUBSET Session
    BY <2>1 DEF CommandTypes, SharedTypes, Refresh
  <2>3. CommandTypes' /\ SharedTypes'
    BY <2>1, <2>2 DEF CommandTypes, SharedTypes, Steps, files, ghosts
  <2>4. /\ pc'[p] \in {"redirected", "end"} /\ kind'[p] = kind[p] /\ name'[p] = name[p] /\ target'[p] = target[p]
        /\ level'[p] = l /\ ~stored'[p] /\ ~matched'[p] /\ lock' = lock
    BY <1>1, <2>1 DEF CommandTypes
  <2> QED BY <1>1, <2>3, <2>4, NoneElse DEF Place, InLogin
<1>3. CASE Arrive(p)
  <2>1. sessions + 1 \in Session /\ sessions' \in 0..MaxLogins /\ 0 \in 0..MaxRotations
    <3>1. sessions \in Nat /\ MaxLogins \in Nat /\ sessions < MaxLogins /\ sessions' = sessions + 1 /\ MaxRotations \in Nat
      BY <1>3, BoundsAssumption DEF Arrive, SharedTypes
    <3> QED BY <3>1 DEF Session
  <2>2. [session |-> sessions + 1, rotation |-> 0] \in Refresh
    BY <2>1 DEF Refresh
  <2>3. /\ pc[p] = "redirected" /\ pc' = [pc EXCEPT ![p] = "writeOver"]
        /\ memory' = [memory EXCEPT ![p] = [session |-> sessions + 1, rotation |-> 0]]
        /\ UNCHANGED <<kind, name, target, level, matched, previous, stored, lock, cacheLock, files,
                       rotations, ended, ghosts, commands>>
    BY <1>3 DEF Arrive, Goto, Set
  <2>4. CommandTypes' /\ SharedTypes'
    BY <2>1, <2>2, <2>3 DEF CommandTypes, SharedTypes, Steps, files, ghosts
  <2>5. /\ pc'[p] = "writeOver" /\ kind'[p] = kind[p] /\ name'[p] = name[p] /\ target'[p] = target[p]
        /\ level'[p] = level[p] /\ ~stored'[p] /\ ~matched'[p] /\ lock' = lock /\ memory'[p] \in Refresh
    BY <1>1, <2>2, <2>3 DEF CommandTypes
  <2>6. level[p] # None /\ memory'[p] # None
    BY <2>3, <2>5, NoneElse DEF Place
  <2> QED BY <1>1, <2>4, <2>5, <2>6 DEF Place, InLogin
<1>4. CASE WriteOver(p)
  <2>1. pc[p] = "writeOver" /\ level[p] # None /\ memory[p] # None
    BY <1>4 DEF WriteOver, Place
  <2>2. CacheOf(p) \in Cached
    BY <2>1, CacheOfTypes
  <2>3. /\ pc' = [pc EXCEPT ![p] = "session"] /\ previous' = [previous EXCEPT ![p] = cache[name[p]]]
        /\ cache' = [cache EXCEPT ![name[p]] = CacheOf(p)]
        /\ UNCHANGED <<kind, name, target, level, memory, matched, stored, lock, cacheLock, profiles,
                       credentials, idp, ghosts, commands>>
    BY <1>4 DEF WriteOver, Goto, Set, SetCache
  <2>4. cache[name[p]] \in Cached \cup {None}
    BY <1>1 DEF SharedTypes
  <2>5. CommandTypes' /\ SharedTypes'
    BY <2>2, <2>3, <2>4 DEF CommandTypes, SharedTypes, Steps, idp, ghosts
  <2>6. /\ pc'[p] = "session" /\ kind'[p] = kind[p] /\ name'[p] = name[p] /\ target'[p] = target[p]
        /\ level'[p] = level[p] /\ memory'[p] = memory[p] /\ ~stored'[p] /\ ~matched'[p] /\ lock' = lock
    BY <1>1, <2>1, <2>3 DEF CommandTypes
  <2> QED BY <1>1, <2>1, <2>5, <2>6 DEF Place, InLogin
<1>5. CASE FailLogin(p)
  <2>1. /\ pc[p] # "session" /\ pc' = [pc EXCEPT ![p] = "end"]
        /\ UNCHANGED <<command, lock, cacheLock, files, idp, ghosts, commands>>
    BY <1>5 DEF FailLogin, Goto
  <2>2. CommandTypes' /\ SharedTypes'
    BY <2>1 DEF CommandTypes, SharedTypes, Steps, command, files, idp, ghosts
  <2>3. /\ pc'[p] = "end" /\ kind'[p] = kind[p] /\ name'[p] = name[p] /\ target'[p] = target[p]
        /\ ~stored'[p] /\ ~matched'[p]
    BY <1>1, <2>1 DEF CommandTypes, command
  <2> QED BY <1>1, <2>2, <2>3 DEF Place, InLogin
<1>6. CASE Store(p)
  <2>1. /\ pc[p] = "session" /\ profiles' \in SUBSET Name /\ level[p] \in Level /\ memory[p] # None
    BY <1>1, <1>6 DEF Store, Place, SharedTypes, CommandTypes, InLogin
  <2>2. /\ UNCHANGED <<kind, name, target, level, memory, matched, previous, lock, cacheLock, cache,
                       idp, lost, abandoned, overlapped, commands>>
        /\ \/ /\ credentials' = [credentials EXCEPT ![name[p]] = level[p]]
              /\ stored' = [stored EXCEPT ![p] = TRUE]
              /\ spoiled' \in {spoiled \cup {name[p]}, spoiled \ {name[p]}}
              /\ pc' = pc
           \/ /\ pc' = [pc EXCEPT ![p] = "restore"] /\ ~stored[p]
              /\ UNCHANGED <<credentials, stored, spoiled>>
    BY <1>6 DEF Store, Goto, Set
  <2>3. CommandTypes' /\ SharedTypes'
    <3>1. spoiled' \in SUBSET Name
      BY <1>1, <2>2 DEF SharedTypes
    <3> QED BY <2>1, <2>2, <3>1 DEF CommandTypes, SharedTypes, Steps, idp
  <2>4. /\ pc'[p] \in {"session", "restore"} /\ kind'[p] = kind[p] /\ name'[p] = name[p] /\ target'[p] = target[p]
        /\ level'[p] = level[p] /\ memory'[p] = memory[p] /\ ~matched'[p] /\ lock' = lock
        /\ stored'[p] => pc'[p] = "session"
    BY <1>1, <2>1, <2>2 DEF CommandTypes
  <2> QED BY <1>1, <2>1, <2>3, <2>4, NoneElse DEF Place, InLogin
<1>7. CASE EndLogin(p)
  <2>1. /\ pc[p] = "session" /\ pc' = [pc EXCEPT ![p] = IF stored[p] THEN "end" ELSE "restore"]
        /\ UNCHANGED <<command, lock, cacheLock, files, idp, ghosts, commands>>
    BY <1>7 DEF EndLogin, Goto
  <2>2. CommandTypes' /\ SharedTypes'
    BY <2>1 DEF CommandTypes, SharedTypes, Steps, command, files, idp, ghosts
  <2>3. /\ pc'[p] \in {"end", "restore"} /\ kind'[p] = kind[p] /\ name'[p] = name[p] /\ target'[p] = target[p]
        /\ level'[p] = level[p] /\ memory'[p] = memory[p] /\ ~matched'[p] /\ lock' = lock
        /\ stored'[p] => pc'[p] = "end"
    BY <1>1, <2>1 DEF CommandTypes, command
  <2>4. level[p] # None /\ memory[p] # None
    BY <1>1, <2>1 DEF Place, InLogin
  <2> QED BY <1>1, <2>2, <2>3, <2>4 DEF Place, InLogin
<1>8. CASE Restore(p)
  <2>1. /\ pc[p] = "restore" /\ memory[p] # None /\ pc' = [pc EXCEPT ![p] = "end"]
        /\ UNCHANGED <<command, lock, cacheLock, profiles, credentials, idp, lost, overlapped, commands>>
    BY <1>1, <1>8 DEF Restore, Goto, Place, InLogin
  <2>2. memory[p].session \in Session /\ previous[p] \in Cached \cup {None}
    BY <2>1 DEF CommandTypes, Refresh
  <2>3. /\ cache' \in [Name -> Cached \cup {None}] /\ abandoned' \in SUBSET Session /\ spoiled' \in SUBSET Name
    BY <1>1, <1>8, <2>2 DEF Restore, SetCache, SharedTypes
  <2>4. CommandTypes' /\ SharedTypes'
    BY <2>1, <2>3 DEF CommandTypes, SharedTypes, Steps, command, idp
  <2>5. /\ pc'[p] = "end" /\ kind'[p] = kind[p] /\ name'[p] = name[p] /\ target'[p] = target[p]
        /\ ~stored'[p] /\ ~matched'[p]
    BY <1>1, <2>1 DEF CommandTypes, command
  <2> QED BY <1>1, <2>4, <2>5 DEF Place, InLogin
<1> QED BY <1>2, <1>3, <1>4, <1>5, <1>6, <1>7, <1>8 DEF LogIn

(* A command ends a login, moves or removes it. *)
LEMMA EditKeeps ==
  ASSUME CommandTypes, SharedTypes, NEW p \in Process, Place(p), Edit(p)
  PROVE  CommandTypes' /\ SharedTypes' /\ Place(p)'
<1>1. /\ pc[p] \in {"revoke", "move", "removeCredentials", "removeCache"}
      /\ name[p] \in Name /\ target[p] \in Name /\ kind[p] \in Commands
      /\ ~matched[p] /\ ~stored[p] /\ (kind[p] = "login" => lock = p)
  BY DEF Edit, EndBrowserSession, MoveCredentials, RemoveCredentials, RemoveCache, Place
<1>2. /\ pc' \in {[pc EXCEPT ![p] = "removeCredentials"], [pc EXCEPT ![p] = "removeCache"], [pc EXCEPT ![p] = "end"]}
      /\ UNCHANGED <<command, lock, cacheLock, sessions, rotations, lost, abandoned, commands>>
  BY DEF Edit, EndBrowserSession, MoveCredentials, RemoveCredentials, RemoveCache, Goto, idp, ghosts
<1>3. /\ pc' \in [Process -> Steps] /\ pc'[p] \in {"removeCredentials", "removeCache", "end"}
  BY <1>2 DEF CommandTypes, Steps
<1>4. Place(p)'
  BY <1>1, <1>2, <1>3 DEF Place, InLogin, command
<1>5. ended' \in SUBSET Session
  <2>1. CASE EndBrowserSession(p)
    <3>1. ended' = ended \/ (memory[p] # None /\ ended' = ended \cup {memory[p].session})
      BY <2>1 DEF EndBrowserSession, Revoked
    <3> QED BY <3>1 DEF CommandTypes, SharedTypes, Refresh
  <2>2. CASE ~EndBrowserSession(p)
    BY <2>2 DEF Edit, MoveCredentials, RemoveCredentials, RemoveCache, idp, SharedTypes
  <2> QED BY <2>1, <2>2
<1>6. credentials' \in [Name -> Level \cup {None}]
  <2>1. CASE MoveCredentials(p)
    <3>1. credentials' = [credentials EXCEPT ![target[p]] = level[p]] /\ level[p] \in Level \cup {None}
      BY <2>1 DEF MoveCredentials, Set, CommandTypes
    <3> QED BY <3>1 DEF SharedTypes
  <2>2. CASE ~MoveCredentials(p)
    BY <2>2 DEF Edit, EndBrowserSession, RemoveCredentials, RemoveCache, Set, files, SharedTypes
  <2> QED BY <2>1, <2>2
<1>7. cache' \in [Name -> Cached \cup {None}]
  BY DEF Edit, EndBrowserSession, MoveCredentials, RemoveCredentials, RemoveCache, SetCache, files, SharedTypes
<1>8. profiles' \in SUBSET Name
  BY <1>1 DEF Edit, EndBrowserSession, MoveCredentials, RemoveCredentials, RemoveCache, ProfilesAfter, files, SharedTypes
<1>9. spoiled' \in SUBSET Name
  BY <1>1 DEF Edit, EndBrowserSession, MoveCredentials, RemoveCredentials, RemoveCache, ghosts, SharedTypes
<1>10. overlapped' \in SUBSET Process
  BY DEF Edit, EndBrowserSession, MoveCredentials, RemoveCredentials, RemoveCache, ghosts, CommandTypes
<1>11. CommandTypes'
  BY <1>2, <1>3, <1>10 DEF CommandTypes, command
<1>12. SharedTypes'
  BY <1>2, <1>5, <1>6, <1>7, <1>8, <1>9 DEF SharedTypes
<1> QED BY <1>4, <1>11, <1>12

(* A killed command is over. *)
LEMMA CrashKeeps ==
  ASSUME CommandTypes, SharedTypes, NEW p \in Process, Place(p), Crash(p)
  PROVE  CommandTypes' /\ SharedTypes' /\ Place(p)'
<1>1. Forget(p) /\ name[p] \in Name /\ UNCHANGED <<files, idp, abandoned, commands>>
  BY DEF Crash, Place
<1>2. cacheLock' \in [Name -> Process \cup {None}]
  BY DEF Crash, SharedTypes
<1>3. spoiled' \in SUBSET Name
  BY <1>1 DEF Crash, SharedTypes
<1>4. lost' \in SUBSET Session
  <2>1. matched[p] => memory[p] \in Refresh
    BY DEF Place, CommandTypes
  <2>2. LostWith(p) \in SUBSET Session
    BY <2>1 DEF LostWith, Unwritten, SharedTypes, Refresh
  <2> QED BY <2>2 DEF Crash, SharedTypes
<1>5. CommandTypes' /\ Place(p)' /\ lock' \in Process \cup {None}
  BY <1>1, ForgetKeeps
<1> QED BY <1>1, <1>2, <1>3, <1>4, <1>5 DEF SharedTypes, files, idp

(* No command is at work at first. *)
LEMMA PlaceStarts == Init => PlaceInv
<1> SUFFICES ASSUME Init PROVE PlaceInv
  OBVIOUS
<1>1. /\ MaxCommands \in Nat /\ MaxLogins \in Nat /\ MaxRotations \in Nat
      /\ 0 \in 0..MaxCommands /\ 0 \in 0..MaxLogins /\ 0 \in 0..MaxRotations
  BY BoundsAssumption
<1>2. CommandTypes
  BY DEF Init, CommandTypes, Nobody, Steps
<1>3. SharedTypes
  BY <1>1 DEF Init, SharedTypes
<1>4. ASSUME NEW p \in Process PROVE Place(p)
  <2>1. pc[p] = "idle" /\ kind[p] = None /\ ~matched[p] /\ ~stored[p]
    BY DEF Init, Nobody
  <2>2. None # "login"
    BY NoneElse DEF Commands
  <2> QED BY <2>1, <2>2 DEF Place, InLogin
<1> QED BY <1>2, <1>3, <1>4, TypesSplit DEF PlaceInv

(* Every command keeps its place and the types. *)
LEMMA PlaceKeeps ==
  ASSUME PlaceInv, NEW p \in Process, Acts(p)
  PROVE  PlaceInv'
<1>1. CommandTypes /\ SharedTypes /\ Place(p)
  BY TypesSplit DEF PlaceInv
<1>2. CommandTypes' /\ SharedTypes' /\ Place(p)'
  BY <1>1, BeginningKeeps, UseKeeps, LogInKeeps, EditKeeps, CrashKeeps DEF Acts
<1>3. TypeOK'
  BY <1>2 DEF TypeOK, CommandTypes, SharedTypes
<1>4. \A q \in Process : Place(q)'
  BY <1>2, OthersPlace
<1> QED BY <1>3, <1>4 DEF PlaceInv

(* Every step keeps the places and the types. *)
LEMMA PlaceNext == PlaceInv /\ [Next]_vars => PlaceInv'
<1> SUFFICES ASSUME PlaceInv, [Next]_vars PROVE PlaceInv'
  OBVIOUS
<1>1. CASE UNCHANGED vars
  BY <1>1 DEF vars, command, files, idp, ghosts, PlaceInv, TypeOK, Place, InLogin
<1>2. CASE \E p \in Process : Acts(p)
  BY <1>2, PlaceKeeps
<1> QED BY <1>1, <1>2 DEF Next, Acts

(* Every state of the profiles and the commands on them has the types that are declared. *)
THEOREM LoginTypes == Spec => []TypeOK
<1>1. PlaceInv => TypeOK
  BY DEF PlaceInv
<1> QED BY <1>1, PlaceStarts, PlaceNext, PTL DEF Spec

-----------------------------------------------------------------------------
(* Which cache files and which commands have a token of a session.         *)

Mine(p) == memory[p].session

(* A cache file has it, or it is in the memory of who is modifying the file. *)
Carries(n, s) ==
  \/ cache[n] # None /\ cache[n].token.session = s
  \/ \E q \in Process : matched[q] /\ name[q] = n /\ memory[q].session = s

(* A session that was started, by a login that did not fail. *)
Known(s) == s \notin abandoned /\ s <= sessions

(* Nobody has a token of the session that a login brings from the browser. *)
Fresh(p) == Known(Mine(p)) /\ \A n \in Name : ~Carries(n, Mine(p))

(* A login's session is all that its profile's cache has, and no other cache has it, or *)
(* what the login replaced.                                                             *)
Alone(p) ==
  /\ Known(Mine(p))
  /\ \A n \in Name, s \in Session : Carries(n, s) => (s = Mine(p) <=> n = name[p])
  /\ previous[p] # None =>
       /\ Known(previous[p].token.session)
       /\ previous[p].token.session # Mine(p)
       /\ \A n \in Name : Carries(n, previous[p].token.session) => n = name[p]

CarriedInv == \A n \in Name, s \in Session : Carries(n, s) => Known(s)
OneNameInv == \A n, m \in Name, s \in Session : Carries(n, s) /\ Carries(m, s) => n = m
FreshInv == \A p \in Process : pc[p] = "writeOver" => Fresh(p)
AloneInv == \A p \in Process : InLogin(p) => Alone(p)
StartedInv == \A s \in Session : s \in abandoned => s <= sessions
SessionInv == CarriedInv /\ OneNameInv /\ FreshInv /\ AloneInv /\ StartedInv

(* By what step a command gets where it is. *)
LEMMA ComesBy ==
  ASSUME PlaceInv, NEW p \in Process, Acts(p)
  PROVE  /\ pc'[p] = "idle" => End(p) \/ Crash(p)
         /\ pc'[p] = "lock" => \E k \in Kinds, n, m \in Name : Start(p, k, n, m)
         /\ pc'[p] = "read" => LockProfiles(p) \/ \E k \in Kinds, n, m \in Name : Start(p, k, n, m)
         /\ pc'[p] = "load" => ReadCredentials(p) /\ credentials[name[p]] # None
         /\ pc'[p] = "choose" => Load(p) \/ (ReadCredentials(p) /\ credentials[name[p]] = None)
         /\ pc'[p] = "redirected" => \E l \in Level : Choose(p, l)
         /\ pc'[p] = "writeOver" => Arrive(p)
         /\ pc'[p] = "session" => Load(p) \/ WriteCache(p) \/ WriteOver(p) \/ Store(p)
         /\ pc'[p] = "session" /\ kind'[p] = "login" => ~Load(p)
         /\ pc'[p] = "refresh" => LockCache(p)
         /\ pc'[p] = "write" => RefreshToken(p)
         /\ pc'[p] = "restore" => EndLogin(p) \/ Store(p)
<1> DEFINE Comes ==
         /\ pc'[p] = "idle" => End(p) \/ Crash(p)
         /\ pc'[p] = "lock" => \E k \in Kinds, n, m \in Name : Start(p, k, n, m)
         /\ pc'[p] = "read" => LockProfiles(p) \/ \E k \in Kinds, n, m \in Name : Start(p, k, n, m)
         /\ pc'[p] = "load" => ReadCredentials(p) /\ credentials[name[p]] # None
         /\ pc'[p] = "choose" => Load(p) \/ (ReadCredentials(p) /\ credentials[name[p]] = None)
         /\ pc'[p] = "redirected" => \E l \in Level : Choose(p, l)
         /\ pc'[p] = "writeOver" => Arrive(p)
         /\ pc'[p] = "session" => Load(p) \/ WriteCache(p) \/ WriteOver(p) \/ Store(p)
         /\ pc'[p] = "session" /\ kind'[p] = "login" => ~Load(p)
         /\ pc'[p] = "refresh" => LockCache(p)
         /\ pc'[p] = "write" => RefreshToken(p)
         /\ pc'[p] = "restore" => EndLogin(p) \/ Store(p)
<1>1. CommandTypes /\ Place(p)
  BY TypesSplit DEF PlaceInv
<1>2. Load(p) => /\ pc[p] = "load" /\ kind[p] \in {"use", "login", "logout", "delete"} /\ kind' = kind
                 /\ pc'[p] = AfterLoad[kind[p]]
  BY <1>1 DEF Load, Goto, Place, CommandTypes
<1>3. AfterLoad \in [{"use", "login", "logout", "delete"} -> {"session", "choose", "revoke"}] /\ AfterLoad["login"] = "choose"
  BY DEF AfterLoad
<1>4. pc'[p] = "session" /\ kind'[p] = "login" => ~Load(p)
  BY <1>2, <1>3
<1>5. ASSUME NEW k \in Kinds, NEW n \in Name, NEW m \in Name, Start(p, k, n, m) PROVE Comes
  <2>1. pc'[p] \in {"lock", "read"}
    BY <1>1, <1>5 DEF Start, Goto, CommandTypes
  <2> QED BY <1>5, <2>1
<1>6. CASE LockProfiles(p)
  <2>1. pc'[p] \in {"end", "removeCredentials", "read"}
    BY <1>1, <1>6 DEF LockProfiles, AfterLock, Goto, CommandTypes
  <2> QED BY <1>6, <2>1
<1>7. CASE ReadCredentials(p)
  <2>1. kind[p] \in {"use", "login", "logout", "delete", "rename"}
    BY <1>1, <1>7 DEF ReadCredentials, Place, Commands, Editing
  <2>2. pc'[p] = IF credentials[name[p]] = None THEN WithoutLogin[kind[p]] ELSE WithLogin[kind[p]]
    BY <1>1, <1>7 DEF ReadCredentials, Goto, CommandTypes
  <2>3. /\ WithoutLogin[kind[p]] \in {"end", "choose", "removeCredentials"}
        /\ WithLogin[kind[p]] \in {"load", "move"}
    BY <2>1 DEF WithoutLogin, WithLogin
  <2>4. /\ pc'[p] \in {"end", "choose", "removeCredentials", "load", "move"}
        /\ pc'[p] = "load" => credentials[name[p]] # None
        /\ pc'[p] = "choose" => credentials[name[p]] = None
    BY <2>2, <2>3
  <2> QED BY <1>7, <2>4
<1>8. CASE Load(p)
  <2>1. pc'[p] \in {"session", "choose", "revoke"}
    BY <1>2, <1>3, <1>8
  <2> QED BY <1>4, <1>8, <2>1
<1>9. CASE End(p) \/ Crash(p)
  <2>1. pc'[p] = "idle"
    BY <1>1, <1>9 DEF End, Crash, Forget, Goto, CommandTypes
  <2> QED BY <1>9, <2>1
<1>10. CASE LockCache(p)
  <2>1. pc'[p] = "refresh"
    BY <1>1, <1>10 DEF LockCache, Goto, CommandTypes
  <2> QED BY <1>10, <2>1
<1>11. CASE RefreshToken(p)
  <2>1. pc'[p] = "write"
    BY <1>1, <1>11 DEF RefreshToken, Goto, CommandTypes
  <2> QED BY <1>11, <2>1
<1>12. CASE WriteCache(p) \/ WriteOver(p)
  <2>1. pc'[p] = "session"
    BY <1>1, <1>12 DEF WriteCache, WriteOver, Goto, CommandTypes
  <2> QED BY <1>4, <1>12, <2>1
<1>13. CASE EndUse(p) \/ FailLogin(p) \/ Restore(p)
  <2>1. pc'[p] = "end"
    BY <1>1, <1>13 DEF EndUse, FailLogin, Restore, Goto, CommandTypes
  <2> QED BY <2>1
<1>14. ASSUME NEW l \in Level, Choose(p, l) PROVE Comes
  <2>1. pc'[p] \in {"redirected", "end"}
    BY <1>1, <1>14 DEF Choose, Goto, CommandTypes
  <2> QED BY <1>14, <2>1
<1>15. CASE Arrive(p)
  <2>1. pc'[p] = "writeOver"
    BY <1>1, <1>15 DEF Arrive, Goto, CommandTypes
  <2> QED BY <1>15, <2>1
<1>16. CASE Store(p)
  <2>1. pc'[p] \in {"session", "restore"}
    BY <1>1, <1>16 DEF Store, Goto, CommandTypes
  <2> QED BY <1>4, <1>16, <2>1
<1>17. CASE EndLogin(p)
  <2>1. pc'[p] \in {"end", "restore"}
    BY <1>1, <1>17 DEF EndLogin, Goto, CommandTypes
  <2> QED BY <1>17, <2>1
<1>18. CASE Edit(p)
  <2>1. pc'[p] \in {"removeCredentials", "removeCache", "end"}
    BY <1>1, <1>18 DEF Edit, EndBrowserSession, MoveCredentials, RemoveCredentials, RemoveCache, Goto, CommandTypes
  <2> QED BY <2>1
<1> QED BY <1>5, <1>6, <1>7, <1>8, <1>9, <1>10, <1>11, <1>12, <1>13, <1>14, <1>15, <1>16, <1>17, <1>18 DEF Acts, Use, LogIn

(* What a command is modifying a cache for is what the cache had. *)
LEMMA MatchedFrom ==
  ASSUME PlaceInv, NEW p \in Process, Acts(p), matched'[p]
  PROVE  /\ LockCache(p) \/ RefreshToken(p)
         /\ name'[p] = name[p] /\ name[p] \in Name /\ cache' = cache
         /\ \/ matched[p] /\ memory'[p].session = memory[p].session
            \/ cache[name[p]] # None /\ memory'[p].session = cache[name[p]].token.session
<1>1. CommandTypes /\ SharedTypes /\ Place(p)
  BY TypesSplit DEF PlaceInv
<1>2. pc'[p] \in {"refresh", "write"}
  BY PlaceKeeps DEF PlaceInv, Place
<1>3. LockCache(p) \/ RefreshToken(p)
  BY <1>2, ComesBy
<1>4. name[p] \in Name /\ name' = name /\ cache' = cache
  BY <1>1, <1>3 DEF LockCache, RefreshToken, Place, files
<1>5. CASE LockCache(p)
  <2>1. Matches(p)
    BY <1>1, <1>5 DEF LockCache, Set, CommandTypes
  <2>2. memory'[p] = cache[name[p]].token
    BY <1>1, <1>5, <2>1 DEF LockCache, Set, CommandTypes
  <2> QED BY <1>3, <1>4, <2>1, <2>2 DEF Matches
<1>6. CASE RefreshToken(p)
  <2>1. matched[p] /\ memory[p] \in Refresh
    BY <1>1, <1>6 DEF RefreshToken, Place, CommandTypes
  <2>2. memory'[p].session = memory[p].session
    <3>1. CASE memory' = memory
      BY <3>1
    <3>2. CASE Rotate(p, memory[p])
      BY <1>1, <2>1, <3>2, RotateKeeps
    <3> QED BY <1>6, <3>1, <3>2 DEF RefreshToken
  <2> QED BY <1>3, <1>4, <2>1, <2>2
<1> QED BY <1>3, <1>5, <1>6

(* A cache file changes where a refresh is written, and where a login writes over it or puts *)
(* it back, which nobody is modifying; else it is removed.                                   *)
LEMMA CacheFrom ==
  ASSUME PlaceInv, NEW p \in Process, Acts(p), NEW n \in Name, cache'[n] # cache[n], cache'[n] # None
  PROVE  /\ n = name[p]
         /\ \/ WriteCache(p) /\ matched[p] /\ cache'[n].token = memory[p]
            \/ WriteOver(p) /\ cache'[n].token = memory[p]
            \/ Restore(p) /\ cache'[n] = previous[p]
<1>1. CommandTypes /\ SharedTypes /\ Place(p) /\ cache \in [Name -> Cached \cup {None}]
  BY TypesSplit DEF PlaceInv, SharedTypes
<1>2. WriteCache(p) \/ WriteOver(p) \/ Restore(p) \/ RemoveCache(p)
  BY DEF Acts, Start, LockProfiles, ReadCredentials, Load, End, Use, LockCache, RefreshToken, EndUse, LogIn, Choose,
         Arrive, FailLogin, Store, EndLogin, Edit, EndBrowserSession, MoveCredentials, RemoveCredentials, Crash, files
<1>3. CASE WriteCache(p)
  <2>1. matched[p] /\ cache' = [cache EXCEPT ![name[p]] = CacheOf(p)] /\ memory' = memory
    BY <1>3 DEF WriteCache, SetCache
  <2>2. n = name[p] /\ cache'[n] = CacheOf(p)
    BY <1>1, <2>1
  <2>3. memory[p] \in Refresh
    BY <1>1, <2>1 DEF Place, CommandTypes
  <2> QED BY <1>3, <2>1, <2>2, <2>3 DEF CacheOf
<1>4. CASE WriteOver(p)
  <2>1. cache' = [cache EXCEPT ![name[p]] = CacheOf(p)] /\ memory' = memory
    BY <1>4 DEF WriteOver, SetCache
  <2>2. n = name[p] /\ cache'[n] = CacheOf(p)
    BY <1>1, <2>1
  <2>3. memory[p] \in Refresh
    BY <1>1, <1>4 DEF WriteOver, Place, CommandTypes
  <2> QED BY <1>4, <2>1, <2>2, <2>3 DEF CacheOf
<1>5. CASE Restore(p)
  <2>1. cache' = [cache EXCEPT ![name[p]] = previous[p]]
    BY <1>5 DEF Restore, SetCache
  <2> QED BY <1>1, <1>5, <2>1
<1>6. CASE RemoveCache(p)
  <2>1. cache' = [cache EXCEPT ![name[p]] = None]
    BY <1>6 DEF RemoveCache, SetCache
  <2> QED BY <1>1, <2>1
<1> QED BY <1>2, <1>3, <1>4, <1>5, <1>6

(* A token of a session gets to a cache from the cache, or from a login. *)
LEMMA CarriedFrom ==
  ASSUME PlaceInv, NEW p \in Process, Acts(p), NEW n \in Name, NEW s \in Session, Carries(n, s)'
  PROVE  \/ Carries(n, s)
         \/ WriteOver(p) /\ n = name[p] /\ s = Mine(p)
         \/ Restore(p) /\ n = name[p] /\ previous[p] # None /\ s = previous[p].token.session /\ cache'[n] = previous[p]
<1>1. CASE cache'[n] # None /\ cache'[n].token.session = s
  <2>1. CASE cache'[n] = cache[n]
    BY <1>1, <2>1 DEF Carries
  <2>2. CASE cache'[n] # cache[n]
    <3>1. /\ n = name[p]
          /\ \/ WriteCache(p) /\ matched[p] /\ cache'[n].token = memory[p]
             \/ WriteOver(p) /\ cache'[n].token = memory[p]
             \/ Restore(p) /\ cache'[n] = previous[p]
      BY <1>1, <2>2, CacheFrom
    <3>2. CASE WriteCache(p) /\ matched[p] /\ cache'[n].token = memory[p]
      BY <1>1, <3>1, <3>2 DEF Carries
    <3>3. CASE WriteOver(p) /\ cache'[n].token = memory[p]
      BY <1>1, <3>1, <3>3 DEF Mine
    <3>4. CASE Restore(p) /\ cache'[n] = previous[p]
      BY <1>1, <3>1, <3>4
    <3> QED BY <3>1, <3>2, <3>3, <3>4
  <2> QED BY <2>1, <2>2
<1>2. ASSUME NEW q \in Process, matched'[q], name'[q] = n, memory'[q].session = s
      PROVE  Carries(n, s)
  <2>1. CASE q # p
    <3>1. matched[q] /\ name[q] = n /\ memory[q].session = s
      BY <1>2, <2>1, Others
    <3> QED BY <3>1 DEF Carries
  <2>2. CASE q = p
    <3>1. /\ name[p] = n
          /\ \/ matched[p] /\ memory[p].session = s
             \/ cache[n] # None /\ cache[n].token.session = s
      BY <1>2, <2>2, MatchedFrom
    <3> QED BY <3>1 DEF Carries
  <2> QED BY <2>1, <2>2
<1> QED BY <1>1, <1>2 DEF Carries

(* What nobody is modifying has the tokens in its file. *)
LEMMA FreeCarries ==
  ASSUME PlaceInv, NEW p \in Process, NEW s \in Session, CacheFree(p), Carries(name[p], s)
  PROVE  cache[name[p]] # None /\ cache[name[p]].token.session = s
<1>1. ASSUME NEW q \in Process, matched[q], name[q] = name[p] PROVE FALSE
  <2>1. cacheLock[name[p]] = q
    BY <1>1 DEF PlaceInv, Place
  <2> QED BY <2>1, NoneElse DEF CacheFree
<1> QED BY <1>1 DEF Carries

(* A login that writes a cache over, or puts it back, is all that the cache has a token of. *)
LEMMA OverCarries ==
  ASSUME PlaceInv, NEW p \in Process, Acts(p), NEW n \in Name, n = name[p], NEW s \in Session,
         (WriteOver(p) \/ (Restore(p) /\ cache' = [cache EXCEPT ![name[p]] = previous[p]])),
         Carries(n, s)'
  PROVE  \/ WriteOver(p) /\ s = Mine(p)
         \/ Restore(p) /\ previous[p] # None /\ s = previous[p].token.session
<1>1. CommandTypes /\ SharedTypes /\ Place(p) /\ CacheFree(p)
  BY TypesSplit DEF PlaceInv, Place, WriteOver, Restore
<1>2. ASSUME NEW q \in Process, matched'[q], name'[q] = n PROVE FALSE
  <2>1. CASE q = p
    <3>1. ~matched'[p]
      BY <1>1, PlaceKeeps DEF WriteOver, Restore, Goto, PlaceInv, Place, CommandTypes
    <3> QED BY <1>2, <2>1, <3>1
  <2>2. CASE q # p
    <3>1. matched[q] /\ name[q] = name[p]
      BY <1>2, <2>2, Others
    <3>2. cacheLock[name[p]] = q
      BY <3>1 DEF PlaceInv, Place
    <3> QED BY <1>1, <3>2, NoneElse DEF CacheFree
  <2> QED BY <2>1, <2>2
<1>3. cache'[n] # None /\ cache'[n].token.session = s
  BY <1>2 DEF Carries
<1>4. CASE WriteOver(p)
  <2>1. cache'[n] = CacheOf(p)
    BY <1>1, <1>4 DEF WriteOver, SetCache, SharedTypes
  <2> QED BY <1>3, <1>4, <2>1 DEF CacheOf, Mine
<1>5. CASE Restore(p) /\ cache' = [cache EXCEPT ![name[p]] = previous[p]]
  <2>1. cache'[n] = previous[p]
    BY <1>1, <1>5 DEF SharedTypes
  <2> QED BY <1>3, <1>5, <2>1
<1> QED BY <1>4, <1>5

(* What is restored, and what came with a new session, is all that the sessions know. *)
LEMMA SessionsStep ==
  ASSUME PlaceInv, NEW p \in Process, Acts(p)
  PROVE  /\ sessions \in Nat /\ sessions' \in Nat /\ sessions' >= sessions
         /\ \/ abandoned' = abandoned /\ (Restore(p) => cache' = cache)
            \/ /\ Restore(p) /\ abandoned' = abandoned \cup {Mine(p)}
               /\ cache' = [cache EXCEPT ![name[p]] = previous[p]]
<1>1. sessions \in Nat
  BY BoundsAssumption DEF PlaceInv, TypeOK
<1>2. sessions' = sessions \/ sessions' = sessions + 1
  BY DEF Acts, Start, LockProfiles, ReadCredentials, Load, End, Use, LockCache, RefreshToken, WriteCache, EndUse,
         LogIn, Choose, Arrive, WriteOver, FailLogin, Store, EndLogin, Restore, Edit, EndBrowserSession,
         MoveCredentials, RemoveCredentials, RemoveCache, Crash, idp
<1>3. CASE Restore(p)
  BY <1>1, <1>2, <1>3 DEF Restore, SetCache, Mine
<1>4. CASE ~Restore(p)
  <2>1. abandoned' = abandoned
    BY <1>4 DEF Acts, Start, LockProfiles, ReadCredentials, Load, End, Use, LockCache, RefreshToken, WriteCache, EndUse,
           LogIn, Choose, Arrive, WriteOver, FailLogin, Store, EndLogin, Edit, EndBrowserSession,
           MoveCredentials, RemoveCredentials, RemoveCache, Crash, ghosts
  <2> QED BY <1>1, <1>2, <1>4, <2>1
<1> QED BY <1>3, <1>4

(* A session stays known until its login fails. *)
LEMMA StaysKnown ==
  ASSUME PlaceInv, NEW p \in Process, Acts(p), NEW s \in Session, Known(s), ~Restore(p) \/ s # Mine(p)
  PROVE  Known(s)'
<1>1. s \in Nat
  BY DEF Session
<1>2. s <= sessions'
  BY <1>1, SessionsStep DEF Known
<1>3. s \notin abandoned'
  BY SessionsStep DEF Known
<1> QED BY <1>2, <1>3 DEF Known

(* A login has the profiles to itself, so that no other one brings or has a session. *)
LEMMA OneLogin ==
  ASSUME PlaceInv, NEW p \in Process, NEW q \in Process,
         pc[p] = "writeOver" \/ InLogin(p), pc[q] = "writeOver" \/ InLogin(q)
  PROVE  p = q
<1>1. lock = p /\ lock = q
  BY DEF PlaceInv, Place, InLogin
<1> QED BY <1>1

(* A login's session, what it replaced and its profile stay as they were. *)
LEMMA LoginGoesOn ==
  ASSUME PlaceInv, AloneInv, NEW p \in Process, Acts(p), InLogin(p)', ~WriteOver(p)
  PROVE  /\ InLogin(p) /\ ~Restore(p) /\ name'[p] = name[p] /\ previous'[p] = previous[p]
         /\ Mine(p)' = Mine(p) /\ memory[p] \in Refresh
<1>1. CommandTypes /\ SharedTypes /\ Place(p)
  BY TypesSplit DEF PlaceInv
<1>2. LockCache(p) \/ RefreshToken(p) \/ WriteCache(p) \/ Store(p) \/ EndLogin(p)
  BY ComesBy DEF InLogin
<1>3. InLogin(p) /\ ~Restore(p) /\ name'[p] = name[p] /\ previous'[p] = previous[p]
  BY <1>1, <1>2 DEF LockCache, RefreshToken, WriteCache, Store, EndLogin, Restore, InLogin, command
<1>4. memory[p] \in Refresh
  BY <1>1, <1>3 DEF Place, CommandTypes
<1>5. memory'[p].session = memory[p].session
  <2>1. CASE LockCache(p) /\ Matches(p)
    <3>1. memory'[p] = cache[name[p]].token /\ cache[name[p]] # None /\ name[p] \in Name
      BY <1>1, <2>1 DEF LockCache, Set, CommandTypes, Matches, Place
    <3>2. cache[name[p]].token.session \in Session /\ Carries(name[p], cache[name[p]].token.session)
      BY <1>1, <3>1 DEF SharedTypes, Cached, Refresh, Carries
    <3>3. cache[name[p]].token.session = Mine(p)
      BY <1>3, <3>1, <3>2 DEF AloneInv, Alone
    <3> QED BY <3>1, <3>3 DEF Mine
  <2>2. CASE LockCache(p) /\ ~Matches(p)
    BY <1>1, <2>2 DEF LockCache, Set, CommandTypes
  <2>3. CASE RefreshToken(p)
    <3>1. CASE memory' = memory
      BY <3>1
    <3>2. CASE Rotate(p, memory[p])
      BY <1>1, <1>4, <3>2, RotateKeeps
    <3> QED BY <2>3, <3>1, <3>2 DEF RefreshToken
  <2>4. CASE WriteCache(p) \/ Store(p) \/ EndLogin(p)
    BY <2>4 DEF WriteCache, Store, EndLogin, command
  <2> QED BY <1>2, <2>1, <2>2, <2>3, <2>4
<1> QED BY <1>3, <1>4, <1>5 DEF Mine

(* What the caches and the login in question know stays so, whoever acts. *)
LEMMA SessionKeeps ==
  ASSUME PlaceInv, SessionInv, NEW p \in Process, Acts(p)
  PROVE  SessionInv'
<1>1. CommandTypes /\ SharedTypes /\ Place(p) /\ PlaceInv'
  BY TypesSplit, PlaceKeeps DEF PlaceInv
<1>2. CarriedInv /\ OneNameInv /\ FreshInv /\ AloneInv /\ StartedInv
  BY DEF SessionInv
<1>3. WriteOver(p) => /\ pc[p] = "writeOver" /\ name[p] \in Name /\ memory[p] \in Refresh /\ Mine(p) \in Session
                      /\ Fresh(p) /\ ~Restore(p)
  BY <1>1, <1>2 DEF WriteOver, Restore, Place, CommandTypes, Refresh, Mine, FreshInv
<1>4. Restore(p) => /\ InLogin(p) /\ name[p] \in Name /\ memory[p] \in Refresh /\ Mine(p) \in Session
                    /\ Alone(p) /\ pc'[p] = "end"
  BY <1>1, <1>2 DEF Restore, Place, InLogin, Goto, CommandTypes, Refresh, Mine, AloneInv
<1>5. previous[p] # None => previous[p].token.session \in Session
  BY <1>1 DEF CommandTypes, Cached, Refresh
<1>6. ASSUME NEW n \in Name, NEW s \in Session, Carries(n, s)'
      PROVE  Known(s)'
  <2>1. CASE Carries(n, s) /\ ~(Restore(p) /\ s = Mine(p))
    BY <1>2, <2>1, StaysKnown DEF CarriedInv
  <2>2. CASE Carries(n, s) /\ Restore(p) /\ s = Mine(p)
    <3>1. n = name[p]
      BY <1>4, <2>2 DEF Alone
    <3>2. CASE abandoned' = abandoned
      <4>1. s <= sessions' /\ s \notin abandoned'
        <5>1. s <= sessions /\ s \notin abandoned /\ s \in Nat
          BY <1>2, <2>2 DEF CarriedInv, Known, Session
        <5> QED BY <3>2, <5>1, SessionsStep
      <4> QED BY <4>1 DEF Known
    <3>3. CASE cache' = [cache EXCEPT ![name[p]] = previous[p]]
      <4>1. previous[p] # None /\ s = previous[p].token.session
        BY <1>3, <1>6, <2>2, <3>1, <3>3, OverCarries
      <4> QED BY <1>4, <2>2, <4>1 DEF Alone
    <3> QED BY <2>2, <3>2, <3>3, SessionsStep
  <2>3. CASE WriteOver(p) /\ s = Mine(p)
    BY <1>3, <2>3, StaysKnown DEF Fresh
  <2>4. CASE Restore(p) /\ previous[p] # None /\ s = previous[p].token.session
    <3>1. Known(s) /\ s # Mine(p)
      BY <1>4, <2>4 DEF Alone
    <3> QED BY <3>1, StaysKnown
  <2> QED BY <1>6, <2>1, <2>2, <2>3, <2>4, CarriedFrom
<1>7. ASSUME NEW n \in Name, NEW m \in Name, NEW s \in Session, Carries(n, s)', Carries(m, s)'
      PROVE  n = m
  <2>1. CASE Carries(n, s) /\ Carries(m, s)
    BY <1>2, <2>1 DEF OneNameInv
  <2>2. CASE WriteOver(p)
    <3>1. \A k \in Name : ~Carries(k, Mine(p))
      BY <1>3, <2>2 DEF Fresh
    <3>2. /\ Carries(n, s) \/ (n = name[p] /\ s = Mine(p))
          /\ Carries(m, s) \/ (m = name[p] /\ s = Mine(p))
      BY <1>3, <1>7, <2>2, CarriedFrom
    <3> QED BY <2>1, <3>1, <3>2
  <2>3. CASE Restore(p)
    <3>1. previous[p] # None /\ s = previous[p].token.session => \A k \in Name : Carries(k, s) => k = name[p]
      BY <1>4, <2>3 DEF Alone
    <3>2. /\ Carries(n, s) \/ (n = name[p] /\ previous[p] # None /\ s = previous[p].token.session)
          /\ Carries(m, s) \/ (m = name[p] /\ previous[p] # None /\ s = previous[p].token.session)
      BY <1>3, <1>7, <2>3, CarriedFrom
    <3> QED BY <2>1, <3>1, <3>2
  <2> QED BY <1>7, <2>1, <2>2, <2>3, CarriedFrom
<1>8. ASSUME NEW q \in Process, (pc[q] = "writeOver")'
      PROVE  Fresh(q)'
  <2>1. CASE q # p
    <3>1. pc[q] = "writeOver" /\ memory'[q] = memory[q]
      BY <1>8, <2>1, Others
    <3>2. Fresh(q) /\ memory[q] \in Refresh
      BY <1>1, <1>2, <3>1 DEF FreshInv, PlaceInv, Place, CommandTypes
    <3>3. PICK t \in Session : t = Mine(q) /\ t = Mine(q)'
      BY <3>1, <3>2 DEF Refresh, Mine
    <3>4. ~WriteOver(p) /\ ~Restore(p)
      BY <1>3, <1>4, <2>1, <3>1, OneLogin
    <3>5. \A n \in Name : ~Carries(n, t)'
      BY <3>2, <3>3, <3>4, CarriedFrom DEF Fresh
    <3>6. Known(t)'
      BY <3>2, <3>3, <3>4, StaysKnown DEF Fresh
    <3> QED BY <3>3, <3>5, <3>6 DEF Fresh
  <2>2. CASE q = p
    <3>1. Arrive(p)
      BY <1>8, <2>2, ComesBy
    <3>2. /\ memory' = [memory EXCEPT ![p] = [session |-> sessions + 1, rotation |-> 0]]
          /\ sessions' = sessions + 1 /\ abandoned' = abandoned /\ pc[p] = "redirected"
      BY <3>1 DEF Arrive, Set, ghosts
    <3>3. PICK t \in Session : t = sessions + 1
      BY <1>1, <3>1, BoundsAssumption DEF Arrive, SharedTypes, Session
    <3>4. t = Mine(p)'
      BY <1>1, <3>2, <3>3 DEF CommandTypes, Mine
    <3>5. sessions \in Nat /\ ~(t <= sessions) /\ t <= sessions'
      BY <1>1, <3>2, <3>3, SessionsStep
    <3>6. ~WriteOver(p) /\ ~Restore(p)
      BY <3>2 DEF WriteOver, Restore
    <3>7. \A n \in Name : ~Carries(n, t)'
      BY <1>2, <3>5, <3>6, CarriedFrom DEF CarriedInv, Known
    <3>8. Known(t)'
      BY <1>2, <3>2, <3>5 DEF StartedInv, Known
    <3> QED BY <2>2, <3>4, <3>7, <3>8 DEF Fresh
  <2> QED BY <2>1, <2>2
<1>9. ASSUME NEW q \in Process, InLogin(q)'
      PROVE  Alone(q)'
  <2>1. CASE q = p /\ WriteOver(p)
    <3>1. /\ previous' = [previous EXCEPT ![p] = cache[name[p]]] /\ name' = name /\ memory' = memory
          /\ ~Restore(p)
      BY <1>3, <2>1 DEF WriteOver, Set
    <3>2. PICK t \in Session : t = Mine(p) /\ t = Mine(p)'
      BY <1>3, <2>1, <3>1 DEF Mine
    <3>3. Known(t)' /\ \A n \in Name : ~Carries(n, t)
      BY <1>3, <2>1, <3>2, StaysKnown DEF Fresh
    <3>4. ASSUME NEW n \in Name, NEW s \in Session, Carries(n, s)'
          PROVE  s = t <=> n = name[p]
      <4>1. CASE n = name[p]
        BY <1>3, <2>1, <3>2, <3>4, <4>1, OverCarries
      <4>2. CASE n # name[p]
        BY <2>1, <3>1, <3>3, <3>4, <4>2, CarriedFrom
      <4> QED BY <4>1, <4>2
    <3>5. previous'[p] = cache[name[p]]
      BY <1>1, <3>1 DEF CommandTypes
    <3>6. ASSUME previous'[p] # None
          PROVE  /\ Known(previous[p].token.session)'
                 /\ previous'[p].token.session # t
                 /\ \A n \in Name : Carries(n, previous[p].token.session)' => n = name[p]
      <4>1. PICK u \in Session : u = previous'[p].token.session /\ Carries(name[p], u)
        BY <1>1, <1>3, <2>1, <3>5, <3>6 DEF SharedTypes, Cached, Refresh, Carries
      <4>2. Known(u)'
        BY <1>2, <1>3, <2>1, <4>1, StaysKnown DEF CarriedInv
      <4>3. u # t
        BY <1>3, <2>1, <3>3, <4>1
      <4>4. \A n \in Name : Carries(n, u)' => n = name[p]
        BY <1>2, <1>3, <2>1, <3>1, <4>1, CarriedFrom DEF OneNameInv
      <4> QED BY <4>1, <4>2, <4>3, <4>4
    <3> QED BY <2>1, <3>1, <3>2, <3>3, <3>4, <3>6 DEF Alone
  <2>2. CASE ~(q = p /\ WriteOver(p))
    <3>1. /\ InLogin(q) /\ name'[q] = name[q] /\ previous'[q] = previous[q] /\ memory[q] \in Refresh
          /\ Mine(q)' = Mine(q) /\ ~(q = p /\ Restore(p))
      <4>1. CASE q = p
        BY <1>2, <1>9, <2>2, <4>1, LoginGoesOn
      <4>2. CASE q # p
        <5>1. pc'[q] = pc[q] /\ kind'[q] = kind[q] /\ name'[q] = name[q] /\ previous'[q] = previous[q]
              /\ memory'[q] = memory[q]
          BY <4>2, Others
        <5>2. InLogin(q)
          BY <1>9, <5>1 DEF InLogin
        <5>3. memory[q] \in Refresh
          BY <1>1, <5>2 DEF PlaceInv, Place, CommandTypes
        <5> QED BY <4>2, <5>1, <5>2, <5>3 DEF Mine
      <4> QED BY <4>1, <4>2
    <3>2. ~WriteOver(p) /\ ~Restore(p)
      BY <1>3, <1>4, <2>2, <3>1, OneLogin
    <3>3. Alone(q)
      BY <1>2, <3>1 DEF AloneInv
    <3>4. PICK t \in Session : t = Mine(q) /\ t = Mine(q)'
      BY <3>1 DEF Refresh, Mine
    <3>5. \A n \in Name, s \in Session : Carries(n, s)' => Carries(n, s)
      BY <3>2, CarriedFrom
    <3>6. Known(t)' /\ \A n \in Name, s \in Session : Carries(n, s)' => (s = t <=> n = name[q])
      BY <3>2, <3>3, <3>4, <3>5, StaysKnown DEF Alone
    <3>7. ASSUME previous[q] # None
          PROVE  /\ Known(previous[q].token.session)'
                 /\ previous[q].token.session # t
                 /\ \A n \in Name : Carries(n, previous[q].token.session)' => n = name[q]
      <4>1. PICK u \in Session : u = previous[q].token.session /\ u = previous'[q].token.session
        BY <1>1, <3>1, <3>7 DEF CommandTypes, Cached, Refresh
      <4>2. Known(u) /\ u # t /\ \A n \in Name : Carries(n, u) => n = name[q]
        BY <3>3, <3>4, <3>7, <4>1 DEF Alone
      <4>3. Known(u)' /\ \A n \in Name : Carries(n, u)' => n = name[q]
        BY <3>2, <3>5, <4>1, <4>2, StaysKnown
      <4> QED BY <4>1, <4>2, <4>3
    <3> QED BY <3>1, <3>4, <3>6, <3>7 DEF Alone
  <2> QED BY <2>1, <2>2
<1>10. ASSUME NEW s \in Session, s \in abandoned'
       PROVE  s <= sessions'
  <2>1. s \in Nat
    BY DEF Session
  <2>2. s \in abandoned \/ (Restore(p) /\ s = Mine(p))
    BY <1>10, SessionsStep
  <2>3. s <= sessions
    BY <1>2, <1>4, <2>2 DEF StartedInv, Alone, Known
  <2> QED BY <2>1, <2>3, SessionsStep
<1>11. CarriedInv'
  BY <1>6 DEF CarriedInv
<1>12. OneNameInv'
  BY <1>7 DEF OneNameInv
<1>13. FreshInv'
  BY <1>8 DEF FreshInv
<1>14. AloneInv'
  BY <1>9 DEF AloneInv
<1>15. StartedInv'
  BY <1>10 DEF StartedInv
<1> QED BY <1>11, <1>12, <1>13, <1>14, <1>15 DEF SessionInv

(* No session has started at first. *)
LEMMA SessionsStart == Init => SessionInv
<1> SUFFICES ASSUME Init PROVE SessionInv
  OBVIOUS
<1>1. \A n \in Name, s \in Session : ~Carries(n, s)
  BY DEF Init, Carries
<1>2. \A p \in Process : pc[p] = "idle"
  BY DEF Init
<1>3. abandoned = {}
  BY DEF Init
<1> QED BY <1>1, <1>2, <1>3 DEF SessionInv, CarriedInv, OneNameInv, FreshInv, AloneInv, StartedInv, InLogin

(* Every step of the commands keeps what the sessions know. *)
LEMMA SessionsNext == PlaceInv /\ SessionInv /\ [Next]_vars => SessionInv'
<1> SUFFICES ASSUME PlaceInv, SessionInv, [Next]_vars PROVE SessionInv'
  OBVIOUS
<1>1. CASE UNCHANGED vars
  BY <1>1 DEF vars, command, files, idp, ghosts, SessionInv, CarriedInv, OneNameInv, FreshInv, AloneInv, StartedInv,
         Carries, Known, Fresh, Alone, Mine, InLogin
<1>2. CASE \E p \in Process : Acts(p)
  BY <1>2, SessionKeeps
<1> QED BY <1>1, <1>2 DEF Next, Acts

(* A login that fails leaves no token behind, whatever ran beside it: what used its token *)
(* meanwhile writes it to no other profile's cache, and to its own only under the lock    *)
(* that the restore waits for.                                                            *)
THEOREM FailedLoginIsGone == Spec => []FailedLoginLeavesNoToken
<1>1. PlaceInv /\ SessionInv => FailedLoginLeavesNoToken
  <2> SUFFICES ASSUME PlaceInv, SessionInv, NEW n \in Name, cache[n] # None
               PROVE  cache[n].token.session \notin abandoned
    BY DEF FailedLoginLeavesNoToken
  <2>1. cache[n].token.session \in Session
    BY DEF PlaceInv, TypeOK, Cached, Refresh
  <2>2. Carries(n, cache[n].token.session)
    BY DEF Carries
  <2> QED BY <2>1, <2>2 DEF SessionInv, CarriedInv, Known
<1> QED BY <1>1, PlaceStarts, PlaceNext, SessionsStart, SessionsNext, PTL DEF Spec

-----------------------------------------------------------------------------
(***************************************************************************)
(* Proofs that a stored login works, for any processes, profiles and       *)
(* access levels, and any number of commands.  A refresh token works as    *)
(* long as only one command at a time rotates it and writes the new one    *)
(* where the old one was: the invariants say who has a token of a session, *)
(* and that nobody rotates one that a file keeps.                          *)
(***************************************************************************)

(* Sending this refresh token does not end its session, unless what came after it was lost. *)
Current(t) == t.session \in lost \cup ended \/ t.rotation = rotations[t.session]

(* A profile with a stored login that nothing left half. *)
Good(n) == credentials[n] # None /\ n \notin spoiled

-----------------------------------------------------------------------------
(* What a step does to the files, the sessions and the commands.           *)

(* Who writes a cache file, and what is in it then. *)
LEMMA CacheStep ==
  ASSUME PlaceInv, NEW p \in Process, Acts(p), NEW n \in Name
  PROVE  \/ cache'[n] = cache[n] /\ ~(WriteOver(p) /\ n = name[p]) /\ ~(RemoveCache(p) /\ n = name[p])
         \/ WriteCache(p) /\ n = name[p] /\ matched[p] /\ cache'[n] = CacheOf(p) /\ lost' = lost
         \/ WriteOver(p) /\ n = name[p] /\ cache'[n] = CacheOf(p)
         \/ Restore(p) /\ n = name[p] /\ cache'[n] = previous[p] /\ spoiled' = spoiled
         \/ RemoveCache(p) /\ n = name[p] /\ cache'[n] = None
<1>1. CommandTypes /\ SharedTypes /\ Place(p) /\ cache \in [Name -> Cached \cup {None}]
  BY TypesSplit DEF PlaceInv, SharedTypes
<1>2. CASE WriteCache(p)
  <2>1. ~WriteOver(p) /\ ~RemoveCache(p)
    BY <1>2 DEF WriteCache, WriteOver, RemoveCache
  <2>2. CASE matched[p] /\ cache' = [cache EXCEPT ![name[p]] = CacheOf(p)] /\ lost' = lost
    <3>1. CASE n = name[p]
      BY <1>1, <1>2, <2>2, <3>1
    <3>2. CASE n # name[p]
      BY <1>1, <2>2, <3>2
    <3> QED BY <3>1, <3>2
  <2>3. CASE cache' = cache
    BY <2>1, <2>3
  <2> QED BY <1>2, <2>2, <2>3 DEF WriteCache, SetCache
<1>3. CASE WriteOver(p)
  <2>1. cache' = [cache EXCEPT ![name[p]] = CacheOf(p)] /\ ~RemoveCache(p)
    BY <1>3 DEF WriteOver, SetCache, RemoveCache
  <2> QED BY <1>1, <1>3, <2>1
<1>4. CASE Restore(p)
  <2>1. ~WriteOver(p) /\ ~RemoveCache(p)
    BY <1>4 DEF Restore, WriteOver, RemoveCache
  <2>2. CASE cache' = [cache EXCEPT ![name[p]] = previous[p]] /\ spoiled' = spoiled
    BY <1>1, <1>4, <2>1, <2>2
  <2>3. CASE cache' = cache
    BY <2>1, <2>3
  <2> QED BY <1>4, <2>2, <2>3 DEF Restore, SetCache
<1>5. CASE RemoveCache(p)
  <2>1. cache' = [cache EXCEPT ![name[p]] = None] /\ ~WriteOver(p)
    BY <1>5 DEF RemoveCache, SetCache, WriteOver
  <2> QED BY <1>1, <1>5, <2>1
<1>6. CASE ~WriteCache(p) /\ ~WriteOver(p) /\ ~Restore(p) /\ ~RemoveCache(p)
  <2>1. cache' = cache
    BY <1>6 DEF Acts, Start, LockProfiles, ReadCredentials, Load, End, Use, LockCache, RefreshToken, EndUse, LogIn, Choose,
           Arrive, FailLogin, Store, EndLogin, Edit, EndBrowserSession, MoveCredentials, RemoveCredentials, Crash, files
  <2> QED BY <1>6, <2>1
<1> QED BY <1>2, <1>3, <1>4, <1>5, <1>6

(* A profile's login is good from before, or because a login stored it whose cache was there. *)
LEMMA GoodStep ==
  ASSUME PlaceInv, NEW p \in Process, Acts(p), NEW n \in Name, Good(n)'
  PROVE  /\ \/ Good(n) /\ credentials'[n] = credentials[n] /\ ~(Store(p) /\ n = name[p])
            \/ Store(p) /\ n = name[p] /\ credentials'[n] = level[p] /\ stored'[p] /\ p \notin overlapped
            \/ Store(p) /\ n = name[p] /\ Good(n) /\ credentials'[n] = credentials[n] /\ pc'[p] = "restore"
         /\ ~(RemoveCache(p) /\ n = name[p])
         /\ ~(Crash(p) /\ LoggingIn(p, n))
         /\ Restore(p) /\ n = name[p] => cache'[n] = previous[p]
<1>1. CommandTypes /\ SharedTypes /\ Place(p) /\ credentials \in [Name -> Level \cup {None}]
  BY TypesSplit DEF PlaceInv, SharedTypes
<1> DEFINE Was == /\ \/ Good(n) /\ credentials'[n] = credentials[n] /\ ~(Store(p) /\ n = name[p])
                     \/ Store(p) /\ n = name[p] /\ credentials'[n] = level[p] /\ stored'[p] /\ p \notin overlapped
                     \/ Store(p) /\ n = name[p] /\ Good(n) /\ credentials'[n] = credentials[n] /\ pc'[p] = "restore"
                  /\ ~(RemoveCache(p) /\ n = name[p])
                  /\ ~(Crash(p) /\ LoggingIn(p, n))
                  /\ Restore(p) /\ n = name[p] => cache'[n] = previous[p]
<1>2. CASE Store(p)
  <2>1. pc[p] = "session" /\ ~RemoveCache(p) /\ ~Restore(p)
    BY <1>2 DEF Store, RemoveCache, Restore
  <2>2. ~Crash(p)
    <3>1. Crash(p) => pc'[p] = "idle"
      BY <1>1 DEF Crash, Forget, Goto, CommandTypes
    <3>2. pc'[p] \in {"session", "restore"}
      BY <1>1, <1>2 DEF Store, Goto, CommandTypes
    <3> QED BY <3>1, <3>2
  <2>3. CASE /\ credentials' = Set(credentials, name[p], level[p])
             /\ stored' = Set(stored, p, TRUE)
             /\ spoiled' = IF p \in overlapped THEN spoiled \cup {name[p]} ELSE spoiled \ {name[p]}
    <3>1. CASE n = name[p]
      <4>1. credentials'[n] = level[p]
        BY <1>1, <2>3, <3>1 DEF Set
      <4>2. stored'[p] = TRUE
        BY <1>1, <2>3 DEF Set, CommandTypes
      <4>3. p \notin overlapped
        BY <2>3, <3>1 DEF Good
      <4> QED BY <1>2, <2>1, <2>2, <3>1, <4>1, <4>2, <4>3
    <3>2. CASE n # name[p]
      <4>1. credentials'[n] = credentials[n] /\ n \notin spoiled
        BY <1>1, <2>3, <3>2 DEF Set, Good
      <4> QED BY <2>1, <2>2, <3>2, <4>1 DEF Good
    <3> QED BY <3>1, <3>2
  <2>4. CASE Goto(p, "restore") /\ UNCHANGED <<credentials, stored, spoiled>>
    <3>1. pc'[p] = "restore" /\ Good(n) /\ credentials'[n] = credentials[n]
      BY <1>1, <2>4 DEF Goto, CommandTypes, Good
    <3> QED BY <1>2, <2>1, <2>2, <3>1
  <2> QED BY <1>2, <2>3, <2>4 DEF Store
<1>3. CASE RemoveCache(p)
  <2>1. credentials' = credentials /\ spoiled' = IF credentials[name[p]] # None THEN spoiled \cup {name[p]} ELSE spoiled
    BY <1>3 DEF RemoveCache
  <2>2. n # name[p] /\ Good(n)
    BY <2>1 DEF Good
  <2>3. ~Crash(p) \/ ~LoggingIn(p, n)
    BY <1>3 DEF RemoveCache, LoggingIn
  <2>4. ~Store(p) /\ ~Restore(p)
    BY <1>3 DEF RemoveCache, Store, Restore
  <2> QED BY <2>1, <2>2, <2>3, <2>4
<1>4. CASE Crash(p)
  <2>1. credentials' = credentials /\ spoiled' = IF LoggingIn(p, name[p]) THEN spoiled \cup {name[p]} ELSE spoiled
    BY <1>4 DEF Crash, files
  <2>2. Good(n) /\ ~LoggingIn(p, n)
    BY <2>1 DEF Good, LoggingIn
  <2>3. pc'[p] = "idle"
    BY <1>1, <1>4 DEF Crash, Forget, Goto, CommandTypes
  <2>4. ~Store(p) /\ ~Restore(p) /\ ~RemoveCache(p)
    BY <1>1, <2>3 DEF Store, Restore, RemoveCache, Goto, CommandTypes
  <2> QED BY <2>1, <2>2, <2>4
<1>5. CASE Restore(p)
  <2>1. pc[p] = "restore" /\ credentials' = credentials /\ ~Store(p) /\ ~RemoveCache(p)
    BY <1>5 DEF Restore, Store, RemoveCache
  <2>2. pc'[p] = "end" /\ ~Crash(p)
    BY <1>1, <1>5 DEF Restore, Crash, Forget, Goto, CommandTypes
  <2>3. Good(n)
    BY <1>5, <2>1 DEF Restore, Good
  <2>4. n = name[p] => cache'[n] = previous[p]
    BY <1>1, <1>5 DEF Restore, SetCache, Good, SharedTypes
  <2> QED BY <2>1, <2>2, <2>3, <2>4
<1>6. CASE ~Store(p) /\ ~RemoveCache(p) /\ ~Crash(p) /\ ~Restore(p)
  <2>1. Good(n) /\ credentials'[n] = credentials[n]
    <3>1. CASE MoveCredentials(p)
      BY <1>1, <3>1 DEF MoveCredentials, Set, Good
    <3>2. CASE RemoveCredentials(p)
      BY <1>1, <3>2 DEF RemoveCredentials, Set, Good, ghosts
    <3>3. CASE ~MoveCredentials(p) /\ ~RemoveCredentials(p)
      <4>1. credentials' = credentials /\ spoiled' = spoiled
        BY <1>6, <3>3 DEF Acts, Start, LockProfiles, ReadCredentials, Load, End, Use, LockCache, RefreshToken, WriteCache, EndUse,
           LogIn, Choose, Arrive, WriteOver, FailLogin, EndLogin, Edit, EndBrowserSession, files, ghosts
      <4> QED BY <4>1 DEF Good
    <3> QED BY <3>1, <3>2, <3>3
  <2> QED BY <1>6, <2>1
<1> QED BY <1>2, <1>3, <1>4, <1>5, <1>6

(* A login is under way from where it writes its tokens over the cache, until it is stored, *)
(* put back or killed.                                                                      *)
LEMMA LoggingStep ==
  ASSUME PlaceInv, NEW p \in Process, Acts(p), NEW n \in Name
  PROVE  /\ LoggingIn(p, n) => InLogin(p) /\ lock = p
         /\ LoggingIn(p, n)' =>
              /\ WriteOver(p) \/ LoggingIn(p, n)
              /\ name'[p] = name[p] /\ name[p] = n /\ level'[p] = level[p] /\ (p \in overlapped => p \in overlapped')
              /\ ~Restore(p) /\ ~RemoveCache(p) /\ ~stored'[p]
         /\ WriteOver(p) /\ n = name[p] => LoggingIn(p, n)'
         /\ LoggingIn(p, n) /\ ~LoggingIn(p, n)' => Store(p) \/ Restore(p) \/ Crash(p)
<1>1. CommandTypes /\ SharedTypes /\ Place(p)
  BY TypesSplit DEF PlaceInv, SharedTypes
<1>2. LoggingIn(p, n) => InLogin(p) /\ lock = p
  BY <1>1 DEF LoggingIn, InLogin, Place
<1>3. ASSUME LoggingIn(p, n)'
      PROVE  /\ WriteOver(p) \/ LoggingIn(p, n)
             /\ name'[p] = name[p] /\ name[p] = n /\ level'[p] = level[p] /\ (p \in overlapped => p \in overlapped')
             /\ ~Restore(p) /\ ~RemoveCache(p) /\ ~stored'[p]
  <2>1. WriteOver(p) \/ LockCache(p) \/ RefreshToken(p) \/ WriteCache(p) \/ Store(p) \/ EndLogin(p)
    BY <1>3, ComesBy DEF LoggingIn
  <2>2. kind' = kind /\ name' = name /\ level' = level /\ overlapped' = overlapped
    BY <2>1 DEF WriteOver, LockCache, RefreshToken, WriteCache, Store, EndLogin, command, ghosts
  <2>3. ~Restore(p) /\ ~RemoveCache(p)
    BY <2>1 DEF WriteOver, LockCache, RefreshToken, WriteCache, Store, EndLogin, Restore, RemoveCache
  <2>4. kind[p] = "login" /\ name[p] = n /\ ~stored'[p]
    BY <1>3, <2>2 DEF LoggingIn
  <2>5. WriteOver(p) \/ (pc[p] \in {"session", "refresh", "write", "restore"} /\ ~stored[p])
    <3>1. CASE WriteOver(p)
      BY <3>1
    <3>2. CASE Store(p)
      BY <3>2 DEF Store
    <3>3. CASE LockCache(p) \/ RefreshToken(p) \/ WriteCache(p) \/ EndLogin(p)
      <4>1. stored' = stored /\ pc[p] \in {"session", "refresh", "write"}
        BY <3>3 DEF LockCache, RefreshToken, WriteCache, EndLogin, command
      <4> QED BY <2>4, <4>1
    <3> QED BY <2>1, <3>1, <3>2, <3>3
  <2> QED BY <2>2, <2>3, <2>4, <2>5 DEF LoggingIn
<1>4. WriteOver(p) /\ n = name[p] => LoggingIn(p, n)'
  <2>1. WriteOver(p) => pc'[p] = "session" /\ kind'[p] = kind[p] /\ name'[p] = name[p] /\ stored' = stored
    BY <1>1 DEF WriteOver, Goto, CommandTypes
  <2>2. WriteOver(p) => kind[p] = "login" /\ ~stored[p]
    BY <1>1 DEF WriteOver, Place
  <2> QED BY <2>1, <2>2 DEF LoggingIn
<1>5. ASSUME LoggingIn(p, n), ~Store(p), ~Restore(p), ~Crash(p) PROVE LoggingIn(p, n)'
  <2>1. kind[p] = "login" /\ name[p] = n /\ ~stored[p] /\ pc[p] \in {"session", "refresh", "write", "restore"}
    BY <1>5 DEF LoggingIn
  <2>2. LockCache(p) \/ RefreshToken(p) \/ WriteCache(p) \/ EndLogin(p)
    BY <1>5, <2>1 DEF Acts, Start, LockProfiles, ReadCredentials, Load, End, Use, EndUse,
           LogIn, Choose, Arrive, WriteOver, FailLogin, Edit, EndBrowserSession, MoveCredentials, RemoveCredentials, RemoveCache
  <2>3. kind' = kind /\ name' = name /\ stored' = stored
    BY <2>2 DEF LockCache, RefreshToken, WriteCache, EndLogin, command
  <2>4. pc'[p] \in {"session", "refresh", "write", "restore"}
    <3>1. EndLogin(p) => pc'[p] = "restore"
      BY <1>1, <2>1 DEF EndLogin, Goto, CommandTypes
    <3> QED BY <1>1, <2>2, <3>1 DEF LockCache, RefreshToken, WriteCache, Goto, CommandTypes
  <2> QED BY <2>1, <2>3, <2>4 DEF LoggingIn
<1> QED BY <1>2, <1>3, <1>4, <1>5

(* What a command is before it reads its credentials, and whose cache was removed. *)
Clean(p) ==
  /\ pc[p] \in {"idle", "lock", "read"} => memory[p] = None
  /\ pc[p] = "idle" => previous[p] = None
  /\ p \in overlapped => pc[p] \in {"session", "refresh", "write", "restore", "end"}

CleanInv == \A p \in Process : Clean(p)

(* Where a command has its refresh token from. *)
LEMMA MemoryStep ==
  ASSUME PlaceInv, NEW p \in Process, Clean(p), Acts(p), memory'[p] # None
  PROVE  /\ name'[p] = name[p] /\ level'[p] = level[p] /\ name[p] \in Name
         /\ \/ memory'[p] = memory[p] /\ ~(LockCache(p) /\ Matches(p))
            \/ /\ LockCache(p) \/ Load(p)
               /\ Matches(p) /\ cache[name[p]] # None /\ cache[name[p]].level = level[p]
               /\ memory'[p] = cache[name[p]].token
            \/ RefreshToken(p) /\ memory[p] \in Refresh /\ memory'[p].session = memory[p].session
            \/ Arrive(p) /\ memory'[p] = [session |-> sessions + 1, rotation |-> 0]
<1>1. CommandTypes /\ SharedTypes /\ Place(p) /\ pc[p] \in Steps
  BY TypesSplit DEF PlaceInv, CommandTypes
<1>2. ~End(p) /\ ~Crash(p)
  BY <1>1 DEF End, Crash, Forget, Set, CommandTypes
<1>3. \A l \in Level : ~Choose(p, l)
  BY <1>1 DEF Choose, Set, CommandTypes
<1>4. \A k \in Kinds, n, m \in Name : ~Start(p, k, n, m)
  BY DEF Start, Clean
<1>5. ~ReadCredentials(p)
  BY DEF ReadCredentials, Clean
<1>6. pc[p] # "idle"
  BY DEF Clean, Acts, Start, LockProfiles, ReadCredentials, Load, End, Use, LockCache, RefreshToken, WriteCache, EndUse,
         LogIn, Choose, Arrive, WriteOver, FailLogin, Store, EndLogin, Restore, Edit, EndBrowserSession,
         MoveCredentials, RemoveCredentials, RemoveCache, Crash
<1>7. name[p] \in Name
  BY <1>1, <1>6 DEF Place
<1>8. name' = name /\ level' = level
  BY <1>2, <1>3, <1>4, <1>5 DEF Acts, LockProfiles, Load, Use, LockCache, RefreshToken, WriteCache, EndUse,
         LogIn, Arrive, WriteOver, FailLogin, Store, EndLogin, Restore, Edit, EndBrowserSession,
         MoveCredentials, RemoveCredentials, RemoveCache, command
<1>9. CASE LockCache(p) \/ Load(p)
  <2>1. CASE Matches(p)
    <3>1. memory'[p] = cache[name[p]].token
      BY <1>1, <1>9, <2>1 DEF LockCache, Load, Set, CommandTypes
    <3> QED BY <1>7, <1>8, <1>9, <2>1, <3>1 DEF Matches
  <2>2. CASE ~Matches(p)
    <3>1. memory'[p] = memory[p]
      BY <1>1, <1>9, <2>2 DEF LockCache, Load, Set, CommandTypes
    <3> QED BY <1>7, <1>8, <2>2, <3>1
  <2> QED BY <2>1, <2>2
<1>10. CASE RefreshToken(p)
  <2>1. CASE memory' = memory
    <3>1. ~LockCache(p)
      BY <1>10 DEF RefreshToken, LockCache
    <3> QED BY <1>7, <1>8, <2>1, <3>1
  <2>2. CASE memory[p] # None /\ Rotate(p, memory[p])
    <3>1. memory[p] \in Refresh
      BY <1>1, <2>2 DEF CommandTypes
    <3> QED BY <1>1, <1>7, <1>8, <1>10, <2>2, <3>1, RotateKeeps
  <2> QED BY <1>10, <2>1, <2>2 DEF RefreshToken
<1>11. CASE Arrive(p)
  <2>1. memory'[p] = [session |-> sessions + 1, rotation |-> 0]
    BY <1>1, <1>11 DEF Arrive, Set, CommandTypes
  <2> QED BY <1>7, <1>8, <1>11, <2>1
<1>12. CASE ~LockCache(p) /\ ~Load(p) /\ ~RefreshToken(p) /\ ~Arrive(p)
  <2>1. memory' = memory
    BY <1>2, <1>3, <1>4, <1>5, <1>12 DEF Acts, LockProfiles, Use, WriteCache, EndUse,
         LogIn, WriteOver, FailLogin, Store, EndLogin, Restore, Edit, EndBrowserSession,
         MoveCredentials, RemoveCredentials, RemoveCache, command
  <2> QED BY <1>7, <1>8, <1>12, <2>1
<1> QED BY <1>9, <1>10, <1>11, <1>12

(* A login has replaced what was in the cache that it wrote over. *)
LEMMA PreviousStep ==
  ASSUME PlaceInv, NEW p \in Process, Clean(p), Acts(p), previous'[p] # None
  PROVE  /\ name'[p] = name[p]
         /\ \/ previous'[p] = previous[p] /\ ~WriteOver(p)
            \/ WriteOver(p) /\ previous'[p] = cache[name[p]] /\ name[p] \in Name
<1>1. CommandTypes /\ Place(p)
  BY TypesSplit DEF PlaceInv
<1>2. ~End(p) /\ ~Crash(p)
  BY <1>1 DEF End, Crash, Forget, Set, CommandTypes
<1>3. \A k \in Kinds, n, m \in Name : ~Start(p, k, n, m)
  BY DEF Start, Clean
<1>4. CASE WriteOver(p)
  BY <1>1, <1>4 DEF WriteOver, Set, CommandTypes, Place
<1>5. CASE ~WriteOver(p)
  BY <1>2, <1>3, <1>5 DEF Acts, LockProfiles, ReadCredentials, Load, Use, LockCache, RefreshToken, WriteCache, EndUse,
         LogIn, Choose, Arrive, FailLogin, Store, EndLogin, Restore, Edit, EndBrowserSession,
         MoveCredentials, RemoveCredentials, RemoveCache, command
<1> QED BY <1>4, <1>5

(* The login whose cache is removed before it stored is overlapped. *)
LEMMA OverlapStep ==
  ASSUME PlaceInv, NEW p \in Process, Acts(p), NEW q \in Process
  PROVE  /\ q \in overlapped' => q \in overlapped \/ (RemoveCache(p) /\ LoggingIn(q, name[p]))
         /\ RemoveCache(p) /\ LoggingIn(q, name[p]) => q \in overlapped'
<1>1. CASE RemoveCache(p)
  BY <1>1 DEF RemoveCache
<1>2. CASE ~RemoveCache(p)
  <2>1. overlapped' \subseteq overlapped
    BY <1>2 DEF Acts, Start, LockProfiles, ReadCredentials, Load, End, Use, LockCache, RefreshToken, WriteCache, EndUse,
         LogIn, Choose, Arrive, WriteOver, FailLogin, Store, EndLogin, Restore, Edit, EndBrowserSession,
         MoveCredentials, RemoveCredentials, Crash, Forget, ghosts
  <2> QED BY <1>2, <2>1
<1> QED BY <1>1, <1>2

(* Sessions that ended or lost a token stay so, and a rotation is one of the token that a *)
(* command sends.                                                                         *)
LEMMA RotationStep ==
  ASSUME PlaceInv, NEW p \in Process, Acts(p)
  PROVE  /\ ended \subseteq ended' /\ lost \subseteq lost'
         /\ \/ rotations' = rotations
            \/ /\ RefreshToken(p) /\ memory[p] \in Refresh /\ memory[p].session \notin ended
               /\ rotations' = [rotations EXCEPT ![memory[p].session] = rotations[memory[p].session] + 1]
<1>1. CommandTypes /\ SharedTypes /\ Place(p)
  BY TypesSplit DEF PlaceInv
<1>2. CASE RefreshToken(p)
  <2>1. CASE UNCHANGED <<memory, rotations, ended, lost>>
    BY <2>1
  <2>2. CASE memory[p] # None /\ Rotate(p, memory[p]) /\ UNCHANGED ended
    <3>1. memory[p] \in Refresh
      BY <1>1, <2>2 DEF CommandTypes
    <3>2. /\ rotations' = [rotations EXCEPT ![memory[p].session] = rotations[memory[p].session] + 1]
          /\ memory[p].session \notin ended /\ lost \subseteq lost'
      BY <1>1, <2>2, <3>1, RotateKeeps
    <3> QED BY <1>2, <2>2, <3>1, <3>2
  <2>3. CASE memory[p] # None /\ Replay(memory[p]) /\ UNCHANGED <<memory, rotations, lost>>
    BY <2>3 DEF Replay
  <2> QED BY <1>2, <2>1, <2>2, <2>3 DEF RefreshToken
<1>3. CASE ~RefreshToken(p)
  <2>1. rotations' = rotations
    BY <1>3 DEF Acts, Start, LockProfiles, ReadCredentials, Load, End, Use, LockCache, WriteCache, EndUse,
         LogIn, Choose, Arrive, WriteOver, FailLogin, Store, EndLogin, Restore, Edit, EndBrowserSession,
         MoveCredentials, RemoveCredentials, RemoveCache, Crash, idp
  <2>2. ended \subseteq ended'
    BY <1>3 DEF Acts, Start, LockProfiles, ReadCredentials, Load, End, Use, LockCache, WriteCache, EndUse,
         LogIn, Choose, Arrive, WriteOver, FailLogin, Store, EndLogin, Restore, Edit, EndBrowserSession,
         MoveCredentials, RemoveCredentials, RemoveCache, Crash, idp, Revoked
  <2>3. lost \subseteq lost'
    BY <1>3 DEF Acts, Start, LockProfiles, ReadCredentials, Load, End, Use, LockCache, WriteCache, EndUse,
         LogIn, Choose, Arrive, WriteOver, FailLogin, Store, EndLogin, Restore, Edit, EndBrowserSession,
         MoveCredentials, RemoveCredentials, RemoveCache, Crash, ghosts, LostWith
  <2> QED BY <2>1, <2>2, <2>3
<1> QED BY <1>2, <1>3

(* A token stays current as long as nobody rotates another one of its session. *)
LEMMA CurrentStays ==
  ASSUME PlaceInv, NEW p \in Process, Acts(p), NEW t \in Refresh, Current(t),
         RefreshToken(p) /\ memory[p] \in Refresh /\ memory[p].session = t.session => t.session \in ended
  PROVE  Current(t)'
<1>1. t.session \in Session /\ rotations \in [Session -> 0..MaxRotations]
  BY DEF Refresh, PlaceInv, TypeOK
<1>2. ended \subseteq ended' /\ lost \subseteq lost'
  BY RotationStep
<1>3. CASE t.session \in lost \cup ended
  BY <1>2, <1>3 DEF Current
<1>4. CASE t.session \notin lost \cup ended
  <2>1. t.rotation = rotations[t.session]
    BY <1>4 DEF Current
  <2>2. rotations'[t.session] = rotations[t.session]
    <3>1. CASE rotations' = rotations
      BY <3>1
    <3>2. CASE /\ RefreshToken(p) /\ memory[p] \in Refresh /\ memory[p].session \notin ended
               /\ rotations' = [rotations EXCEPT ![memory[p].session] = rotations[memory[p].session] + 1]
      <4>1. memory[p].session # t.session
        BY <1>4, <3>2
      <4> QED BY <1>1, <3>2, <4>1
    <3> QED BY <3>1, <3>2, RotationStep
  <2> QED BY <2>1, <2>2 DEF Current
<1> QED BY <1>3, <1>4

(* What a command sent stays current in its memory, or what came instead was lost. *)
LEMMA RefreshedStays ==
  ASSUME PlaceInv, NEW p \in Process, RefreshToken(p), memory[p] \in Refresh, Current(memory[p])
  PROVE  Current(memory[p])'
<1>1. CommandTypes /\ SharedTypes /\ Acts(p)
  BY TypesSplit DEF PlaceInv, Acts, Use
<1>2. PICK t \in Refresh : t = memory[p]
  OBVIOUS
<1>3. t.session \in Session /\ t.rotation \in 0..MaxRotations /\ MaxRotations \in Nat
  BY BoundsAssumption DEF Refresh
<1>4. ended \subseteq ended' /\ lost \subseteq lost'
  BY <1>1, RotationStep
<1>5. CASE UNCHANGED <<memory, rotations, ended, lost>>
  BY <1>5 DEF Current
<1>6. CASE Rotate(p, t)
  <2>1. /\ rotations' = [rotations EXCEPT ![t.session] = rotations[t.session] + 1] /\ t.rotation = rotations[t.session]
        /\ \/ memory' = [memory EXCEPT ![p] = [session |-> t.session, rotation |-> t.rotation + 1]] /\ lost' = lost
           \/ memory' = memory /\ lost' = lost \cup {t.session}
    BY <1>1, <1>2, <1>6, RotateKeeps
  <2>2. rotations'[t.session] = rotations[t.session] + 1
    BY <1>1, <1>3, <2>1 DEF SharedTypes
  <2>3. CASE memory' = [memory EXCEPT ![p] = [session |-> t.session, rotation |-> t.rotation + 1]]
    <3>1. memory'[p] = [session |-> t.session, rotation |-> t.rotation + 1]
      BY <1>1, <2>3 DEF CommandTypes
    <3>2. memory'[p].session = t.session /\ memory'[p].rotation = rotations[t.session] + 1
      BY <2>1, <3>1
    <3> QED BY <2>2, <3>2 DEF Current
  <2>4. CASE memory' = memory /\ lost' = lost \cup {t.session}
    BY <1>2, <2>4 DEF Current
  <2> QED BY <2>1, <2>3, <2>4
<1>7. CASE Replay(t) /\ UNCHANGED <<memory, rotations, lost>>
  <2>1. t.session \in ended'
    BY <1>7 DEF Replay
  <2> QED BY <1>2, <1>7, <2>1 DEF Current
<1> QED BY <1>2, <1>5, <1>6, <1>7 DEF RefreshToken

-----------------------------------------------------------------------------
(* A session is one profile's, and has one access level.                   *)

(* The cache of a profile, or a command on it, has a token of a session. *)
InCache(n, s, l) == cache[n] # None /\ cache[n].token.session = s /\ cache[n].level = l
InMemory(q, n, s, l) == name[q] = n /\ memory[q] # None /\ memory[q].session = s /\ level[q] = l
Replaced(q, n, s, l) == name[q] = n /\ previous[q] # None /\ previous[q].token.session = s /\ previous[q].level = l

Holds(n, s, l) ==
  InCache(n, s, l) \/ \E q \in Process : InMemory(q, n, s, l) \/ Replaced(q, n, s, l)

Identity == Level \cup {None}

HomeInv == \A n, m \in Name, s \in Session, l, k \in Identity : Holds(n, s, l) /\ Holds(m, s, k) => n = m /\ l = k

(* Nobody has a token of a session that has not started. *)
BornInv ==
  /\ \A n \in Name, s \in Session, l \in Identity : Holds(n, s, l) => s <= sessions
  /\ \A s \in Session : s > sessions => rotations[s] = 0

HoldInv == CleanInv /\ HomeInv /\ BornInv

(* A command on its way to its credentials has nothing yet. *)
LEMMA CleanKeeps ==
  ASSUME PlaceInv, CleanInv, NEW p \in Process, Acts(p)
  PROVE  CleanInv'
<1>1. CommandTypes /\ SharedTypes /\ Place(p) /\ Clean(p)
  BY TypesSplit DEF PlaceInv, CleanInv
<1>2. ASSUME NEW q \in Process, q # p PROVE Clean(q)'
  <2>1. pc'[q] = pc[q] /\ memory'[q] = memory[q] /\ previous'[q] = previous[q] /\ Clean(q)
    BY <1>2, Others DEF CleanInv
  <2>2. q \in overlapped' => pc[q] \in {"session", "refresh", "write", "restore", "end"}
    BY <2>1, OverlapStep DEF Clean, LoggingIn
  <2> QED BY <2>1, <2>2 DEF Clean
<1>3. pc'[p] \in {"idle", "lock", "read"} => memory'[p] = None
  <2>1. CASE End(p) \/ Crash(p)
    BY <1>1, <2>1 DEF End, Crash, Forget, Set, CommandTypes
  <2>2. ASSUME NEW k \in Kinds, NEW n \in Name, NEW m \in Name, Start(p, k, n, m) PROVE memory'[p] = None
    BY <1>1, <2>2 DEF Start, Clean
  <2>3. CASE LockProfiles(p)
    BY <1>1, <2>3 DEF LockProfiles, Clean, command
  <2> QED BY <2>1, <2>2, <2>3, ComesBy
<1>4. pc'[p] = "idle" => previous'[p] = None
  BY <1>1, ComesBy DEF End, Crash, Forget, Set, CommandTypes
<1>5. ASSUME p \in overlapped'
      PROVE  pc'[p] \in {"session", "refresh", "write", "restore", "end"}
  <2>1. p \in overlapped
    BY <1>5, OverlapStep DEF RemoveCache, LoggingIn
  <2>2. pc[p] \in {"session", "refresh", "write", "restore", "end"}
    BY <1>1, <2>1 DEF Clean
  <2>3. ~End(p) /\ ~Crash(p)
    BY <1>5 DEF End, Crash, Forget
  <2>4. LockCache(p) \/ RefreshToken(p) \/ WriteCache(p) \/ EndUse(p) \/ Store(p) \/ EndLogin(p) \/ Restore(p)
    BY <2>2, <2>3 DEF Acts, Start, LockProfiles, ReadCredentials, Load, Use, LogIn, Choose, Arrive, WriteOver, FailLogin,
         Edit, EndBrowserSession, MoveCredentials, RemoveCredentials, RemoveCache
  <2>5. CASE Store(p)
    BY <1>1, <2>5 DEF Store, Goto, CommandTypes
  <2>6. CASE EndLogin(p)
    BY <1>1, <2>6 DEF EndLogin, Goto, CommandTypes
  <2> QED BY <1>1, <2>4, <2>5, <2>6 DEF LockCache, RefreshToken, WriteCache, EndUse, Restore, Goto, CommandTypes
<1> QED BY <1>2, <1>3, <1>4, <1>5 DEF CleanInv, Clean

(* A session stays with its profile and its access level, and a new one is a login's. *)
LEMMA HoldsFrom ==
  ASSUME PlaceInv, CleanInv, NEW p \in Process, Acts(p),
         NEW n \in Name, NEW s \in Session, NEW l \in Identity, Holds(n, s, l)'
  PROVE  Holds(n, s, l) \/ (Arrive(p) /\ n = name[p] /\ s = sessions + 1 /\ l = level[p])
<1>1. CommandTypes /\ SharedTypes /\ Place(p) /\ Clean(p)
  BY TypesSplit DEF PlaceInv, CleanInv
<1>2. CASE InCache(n, s, l)'
  <2>1. CASE cache'[n] = cache[n]
    BY <1>2, <2>1 DEF InCache, Holds
  <2>2. CASE n = name[p] /\ cache'[n] = CacheOf(p) /\ (matched[p] \/ WriteOver(p))
    <3>1. memory[p] # None
      BY <1>1, <2>2 DEF Place, WriteOver
    <3>2. memory[p].session = s /\ level[p] = l
      BY <1>2, <2>2 DEF InCache, CacheOf
    <3> QED BY <2>2, <3>1, <3>2 DEF InMemory, Holds
  <2>3. CASE n = name[p] /\ cache'[n] = previous[p]
    BY <1>2, <2>3 DEF InCache, Replaced, Holds
  <2>4. cache'[n] # None
    BY <1>2 DEF InCache
  <2> QED BY <2>1, <2>2, <2>3, <2>4, CacheStep
<1>3. ASSUME NEW q \in Process, InMemory(q, n, s, l)'
      PROVE  Holds(n, s, l) \/ (Arrive(p) /\ n = name[p] /\ s = sessions + 1 /\ l = level[p])
  <2>1. CASE q # p
    <3>1. InMemory(q, n, s, l)
      BY <1>3, <2>1, Others DEF InMemory
    <3> QED BY <3>1 DEF Holds
  <2>2. CASE q = p
    <3>1. memory'[p] # None /\ name'[p] = n /\ memory'[p].session = s /\ level'[p] = l
      BY <1>3, <2>2 DEF InMemory
    <3>2. name[p] = n /\ level[p] = l
      BY <1>1, <3>1, MemoryStep
    <3>3. CASE memory'[p] = memory[p]
      BY <3>1, <3>2, <3>3 DEF InMemory, Holds
    <3>4. CASE cache[name[p]] # None /\ cache[name[p]].level = level[p] /\ memory'[p] = cache[name[p]].token
      BY <3>1, <3>2, <3>4 DEF InCache, Holds
    <3>5. CASE memory[p] \in Refresh /\ memory'[p].session = memory[p].session
      BY <3>1, <3>2, <3>5, NoneElse DEF InMemory, Holds
    <3>6. CASE Arrive(p) /\ memory'[p] = [session |-> sessions + 1, rotation |-> 0]
      BY <3>1, <3>2, <3>6
    <3> QED BY <1>1, <3>1, <3>3, <3>4, <3>5, <3>6, MemoryStep
  <2> QED BY <2>1, <2>2
<1>4. ASSUME NEW q \in Process, Replaced(q, n, s, l)'
      PROVE  Holds(n, s, l)
  <2>1. CASE q # p
    <3>1. Replaced(q, n, s, l)
      BY <1>4, <2>1, Others DEF Replaced
    <3> QED BY <3>1 DEF Holds
  <2>2. CASE q = p
    <3>1. previous'[p] # None /\ name'[p] = n /\ previous'[p].token.session = s /\ previous'[p].level = l
      BY <1>4, <2>2 DEF Replaced
    <3>2. name[p] = n
      BY <1>1, <3>1, PreviousStep
    <3>3. CASE previous'[p] = previous[p]
      BY <3>1, <3>2, <3>3 DEF Replaced, Holds
    <3>4. CASE previous'[p] = cache[name[p]]
      BY <3>1, <3>2, <3>4 DEF InCache, Holds
    <3> QED BY <1>1, <3>1, <3>3, <3>4, PreviousStep
  <2> QED BY <2>1, <2>2
<1> QED BY <1>2, <1>3, <1>4 DEF Holds

(* A session stays one profile's, and new ones are. *)
LEMMA HoldKeeps ==
  ASSUME PlaceInv, HoldInv, NEW p \in Process, Acts(p)
  PROVE  HoldInv'
<1>1. CommandTypes /\ SharedTypes /\ CleanInv /\ HomeInv /\ BornInv
  BY TypesSplit DEF PlaceInv, HoldInv
<1>2. sessions \in Nat /\ sessions' \in Nat /\ sessions <= sessions'
  BY SessionsStep
<1>3. Arrive(p) => sessions' = sessions + 1
  BY DEF Arrive
<1>4. \A n \in Name, l \in Identity, s \in Session : s = sessions + 1 => ~Holds(n, s, l)
  <2>1. ~(sessions + 1 <= sessions)
    BY <1>2
  <2> QED BY <1>1, <2>1 DEF BornInv
<1>5. HomeInv'
  <2> SUFFICES ASSUME NEW n \in Name, NEW m \in Name, NEW s \in Session, NEW l \in Identity, NEW k \in Identity,
                      Holds(n, s, l)', Holds(m, s, k)'
               PROVE  n = m /\ l = k
    BY DEF HomeInv
  <2>1. Holds(n, s, l) \/ (n = name[p] /\ s = sessions + 1 /\ l = level[p])
    BY <1>1, HoldsFrom
  <2>2. Holds(m, s, k) \/ (m = name[p] /\ s = sessions + 1 /\ k = level[p])
    BY <1>1, HoldsFrom
  <2> QED BY <1>1, <1>4, <2>1, <2>2 DEF HomeInv
<1>6. ASSUME NEW n \in Name, NEW s \in Session, NEW l \in Identity, Holds(n, s, l)'
      PROVE  s <= sessions'
  <2>1. s \in Nat
    BY DEF Session
  <2>2. CASE Holds(n, s, l)
    <3>1. s <= sessions
      BY <1>1, <2>2 DEF BornInv
    <3> QED BY <1>2, <2>1, <3>1
  <2>3. CASE Arrive(p) /\ s = sessions + 1
    BY <1>2, <1>3, <2>3
  <2> QED BY <1>1, <1>6, <2>2, <2>3, HoldsFrom
<1>7. ASSUME NEW s \in Session, s > sessions'
      PROVE  rotations'[s] = 0
  <2>1. s \in Nat
    BY DEF Session
  <2>2. s > sessions
    BY <1>2, <1>7, <2>1
  <2>3. rotations[s] = 0
    BY <1>1, <2>2 DEF BornInv
  <2>4. CASE RefreshToken(p) /\ memory[p] \in Refresh /\ rotations' = [rotations EXCEPT ![memory[p].session] = rotations[memory[p].session] + 1]
    <3>1. PICK u \in Session : u = memory[p].session
      BY <2>4 DEF Refresh
    <3>2. name[p] \in Name /\ level[p] \in Identity
      BY <1>1, <2>4 DEF RefreshToken, PlaceInv, Place, CommandTypes, Identity
    <3>3. Holds(name[p], u, level[p])
      BY <2>4, <3>1, NoneElse DEF Holds, InMemory
    <3>4. u <= sessions
      BY <1>1, <3>2, <3>3 DEF BornInv
    <3>5. u # s
      BY <1>2, <2>1, <2>2, <3>4
    <3> QED BY <1>1, <2>3, <2>4, <3>1, <3>5 DEF SharedTypes
  <2> QED BY <2>3, <2>4, RotationStep
<1>8. BornInv'
  BY <1>6, <1>7 DEF BornInv
<1>9. CleanInv'
  BY <1>1, CleanKeeps
<1> QED BY <1>5, <1>8, <1>9 DEF HoldInv

-----------------------------------------------------------------------------
(* What a stored login, or one that is under way, has.                     *)

(* A login that wrote its tokens over the cache goes on from the browser's token. *)
Brings(p) ==
  /\ Current(memory[p])
  /\ \A q \in Process \ {p} : memory[q] # None => memory[q].session # memory[p].session

BringInv == \A p \in Process : pc[p] = "writeOver" => Brings(p)

(* Who is modifying a cache and found its identity there has the tokens of that file, or *)
(* newer ones; who did not find it does not have its identity.                           *)
Modifies(q) ==
  /\ matched[q] /\ cache[name[q]] # None =>
       /\ cache[name[q]].level = level[q]
       /\ cache[name[q]].token.session = memory[q].session
       /\ pc[q] = "refresh" => cache[name[q]].token = memory[q]
  /\ pc[q] \in {"refresh", "write"} /\ ~matched[q] /\ cache[name[q]] # None => cache[name[q]].level # level[q]

ModifyInv == \A q \in Process : Modifies(q)

(* Stands: what the tokens of a profile are for, which is its stored login, or the login  *)
(* that is under way where nobody removed its cache.                                      *)
Stands(n, l) ==
  \/ Good(n) /\ (\A p \in Process : ~LoggingIn(p, n)) /\ l = credentials[n]
  \/ \E p \in Process : LoggingIn(p, n) /\ p \notin overlapped /\ l = level[p]

Unmodified(n) == \A q \in Process : ~(matched[q] /\ name[q] = n)

StandInv == \A n \in Name, l \in Level : Stands(n, l) =>
  /\ cache[n] # None /\ cache[n].level = l
  /\ Unmodified(n) => Current(cache[n].token)
  /\ \A q \in Process : matched[q] /\ name[q] = n => Current(memory[q])

(* What a login puts back works as well as what it found, as long as the credentials of *)
(* before are there; where it chose another identity, that session was ended.           *)
Back(p) ==
  /\ p \notin overlapped
  /\ previous[p] # None /\ previous[p].level = credentials[name[p]]
  /\ Current(previous[p].token)
  /\ previous[p].level = level[p] \/ previous[p].token.session \in ended

BackInv == \A p \in Process : LoggingIn(p, name[p]) /\ Good(name[p]) => Back(p)

(* A login finds the stored login, and ends its session where it chooses another identity. *)
Finds(p) ==
  /\ pc[p] = "load" => level[p] = credentials[name[p]]
  /\ pc[p] = "choose" => /\ level[p] = credentials[name[p]]
                         /\ memory[p] # None /\ cache[name[p]] # None
                         /\ cache[name[p]].token.session = memory[p].session
  /\ pc[p] \in {"redirected", "writeOver"} =>
       cache[name[p]] # None /\ (cache[name[p]].level = level[p] \/ cache[name[p]].token.session \in ended)

FindInv == \A p \in Process : kind[p] = "login" /\ pc[p] # "idle" /\ Good(name[p]) => Finds(p)

WorkInv == BringInv /\ ModifyInv /\ StandInv /\ BackInv /\ FindInv

(* Only one command at a time modifies a cache. *)
LEMMA OneModifier ==
  ASSUME PlaceInv, NEW q \in Process, matched[q] \/ pc[q] \in {"refresh", "write"}
  PROVE  /\ name[q] \in Name /\ cacheLock[name[q]] = q /\ level[q] \in Level
         /\ matched[q] => memory[q] \in Refresh
         /\ \A r \in Process : matched[r] /\ name[r] = name[q] => r = q
         /\ \A r \in Process : CacheFree(r) => name[r] # name[q]
<1>1. CommandTypes /\ Place(q)
  BY TypesSplit DEF PlaceInv
<1>2. name[q] \in Name /\ cacheLock[name[q]] = q /\ level[q] \in Level /\ (matched[q] => memory[q] \in Refresh)
  BY <1>1 DEF Place, CommandTypes
<1>3. \A r \in Process : matched[r] => cacheLock[name[r]] = r
  BY DEF PlaceInv, Place
<1>4. \A r \in Process : CacheFree(r) => name[r] # name[q]
  BY <1>2, NoneElse DEF CacheFree
<1> QED BY <1>2, <1>3, <1>4

(* The cache that a command modifies is removed at most by the others. *)
LEMMA OthersCache ==
  ASSUME PlaceInv, NEW p \in Process, Acts(p), NEW q \in Process, q # p, matched[q] \/ pc[q] \in {"refresh", "write"}
  PROVE  cache'[name[q]] = cache[name[q]] \/ cache'[name[q]] = None
<1>1. name[q] \in Name
  BY OneModifier
<1>2. ~(matched[p] /\ name[q] = name[p])
  BY OneModifier
<1>3. WriteOver(p) \/ Restore(p) => name[q] # name[p]
  BY OneModifier DEF WriteOver, Restore
<1> QED BY <1>1, <1>2, <1>3, CacheStep

(* What two have tokens of the same session is of the same profile and identity. *)
LEMMA SameHome ==
  ASSUME PlaceInv, HoldInv
  PROVE  /\ \A n \in Name, q \in Process :
              cache[n] # None /\ memory[q] # None /\ cache[n].token.session = memory[q].session =>
                n = name[q] /\ cache[n].level = level[q]
         /\ \A q, r \in Process :
              memory[q] # None /\ memory[r] # None /\ memory[q].session = memory[r].session =>
                name[q] = name[r] /\ level[q] = level[r]
         /\ \A q, r \in Process :
              previous[q] # None /\ memory[r] # None /\ previous[q].token.session = memory[r].session =>
                name[q] = name[r] /\ previous[q].level = level[r]
         /\ \A q \in Process : memory[q] # None => name[q] \in Name /\ memory[q].session <= sessions
<1>1. CommandTypes /\ SharedTypes /\ HomeInv /\ CleanInv /\ BornInv
  BY TypesSplit DEF PlaceInv, HoldInv
<1>2. ASSUME NEW q \in Process, memory[q] # None
      PROVE  name[q] \in Name /\ level[q] \in Identity /\ memory[q].session \in Session /\ memory[q] \in Refresh
             /\ Holds(name[q], memory[q].session, level[q])
  <2>1. name[q] \in Name /\ level[q] \in Identity /\ memory[q] \in Refresh
    BY <1>1, <1>2 DEF CleanInv, Clean, PlaceInv, Place, CommandTypes, Identity
  <2> QED BY <1>2, <2>1 DEF Refresh, Holds, InMemory
<1>3. ASSUME NEW q \in Process, previous[q] # None
      PROVE  name[q] \in Name /\ previous[q].level \in Identity /\ previous[q].token.session \in Session
             /\ Holds(name[q], previous[q].token.session, previous[q].level)
  <2>1. name[q] \in Name /\ previous[q] \in Cached
    BY <1>1, <1>3 DEF CleanInv, Clean, PlaceInv, Place, CommandTypes
  <2> QED BY <1>3, <2>1 DEF Cached, Refresh, Identity, Holds, Replaced
<1>4. ASSUME NEW n \in Name, cache[n] # None
      PROVE  cache[n].level \in Identity /\ cache[n].token.session \in Session
             /\ Holds(n, cache[n].token.session, cache[n].level)
  <2>1. cache[n] \in Cached
    BY <1>1, <1>4 DEF SharedTypes
  <2> QED BY <1>4, <2>1 DEF Cached, Refresh, Identity, Holds, InCache
<1>5. \A n \in Name, q \in Process :
        cache[n] # None /\ memory[q] # None /\ cache[n].token.session = memory[q].session =>
          n = name[q] /\ cache[n].level = level[q]
  BY <1>1, <1>2, <1>4 DEF HomeInv
<1>6. \A q, r \in Process :
        memory[q] # None /\ memory[r] # None /\ memory[q].session = memory[r].session =>
          name[q] = name[r] /\ level[q] = level[r]
  BY <1>1, <1>2 DEF HomeInv
<1>7. \A q, r \in Process :
        previous[q] # None /\ memory[r] # None /\ previous[q].token.session = memory[r].session =>
          name[q] = name[r] /\ previous[q].level = level[r]
  BY <1>1, <1>2, <1>3 DEF HomeInv
<1>8. \A q \in Process : memory[q] # None => name[q] \in Name /\ memory[q].session <= sessions
  BY <1>1, <1>2 DEF BornInv
<1> QED BY <1>5, <1>6, <1>7, <1>8

(* A login has the browser's token to itself. *)
LEMMA BringKeeps ==
  ASSUME PlaceInv, SessionInv, HoldInv, BringInv, NEW p \in Process, Acts(p)
  PROVE  BringInv'
<1> SUFFICES ASSUME NEW q \in Process, (pc[q] = "writeOver")' PROVE Brings(q)'
  BY DEF BringInv
<1>1. CommandTypes /\ SharedTypes /\ Place(p) /\ Place(q) /\ Clean(p)
  BY TypesSplit DEF PlaceInv, HoldInv, CleanInv
<1>2. CASE q = p
  <2>1. Arrive(p)
    BY <1>2, ComesBy
  <2>2. PICK t \in Session : t = sessions + 1
    BY <1>1, <2>1, BoundsAssumption DEF Arrive, SharedTypes, Session
  <2>3. memory'[p] = [session |-> t, rotation |-> 0] /\ rotations' = rotations
    BY <1>1, <2>1, <2>2 DEF Arrive, Set, CommandTypes
  <2>4. sessions \in Nat /\ t > sessions /\ ~(t <= sessions)
    BY <1>1, <2>2, BoundsAssumption DEF SharedTypes
  <2>5. rotations[t] = 0
    BY <2>4 DEF HoldInv, BornInv
  <2>6. Current(memory[p])'
    BY <2>3, <2>5 DEF Current
  <2>7. ASSUME NEW r \in Process \ {p}, memory'[r] # None PROVE memory'[r].session # memory'[p].session
    <3>1. memory'[r] = memory[r]
      BY Others
    <3>2. memory[r].session <= sessions
      BY <2>7, <3>1, SameHome
    <3> QED BY <2>3, <2>4, <3>1, <3>2
  <2> QED BY <1>2, <2>6, <2>7 DEF Brings
<1>3. CASE q # p
  <2>1. pc[q] = "writeOver" /\ memory'[q] = memory[q]
    BY <1>3, Others
  <2>2. Brings(q) /\ Fresh(q) /\ lock = q /\ memory[q] \in Refresh
    BY <1>1, <2>1 DEF BringInv, SessionInv, FreshInv, Place, CommandTypes
  <2>3. PICK t \in Refresh : t = memory[q] /\ t = memory'[q]
    BY <2>1, <2>2
  <2>4. memory[p] # None => memory[p].session # t.session
    BY <1>3, <2>2, <2>3 DEF Brings
  <2>5. Current(t)'
    BY <2>2, <2>3, <2>4, CurrentStays, NoneElse DEF Brings
  <2>6. ~Arrive(p)
    BY <1>1, <1>3, <2>2 DEF Arrive, Place
  <2>7. ASSUME NEW r \in Process \ {q}, memory'[r] # None PROVE memory'[r].session # t.session
    <3>1. CASE r # p
      BY <2>2, <2>3, <2>7, <3>1, Others DEF Brings
    <3>2. CASE r = p
      <4>1. CASE memory'[p] = memory[p]
        BY <2>4, <2>7, <3>2, <4>1
      <4>2. CASE cache[name[p]] # None /\ memory'[p] = cache[name[p]].token /\ name[p] \in Name
        <5>1. ~Carries(name[p], t.session)
          BY <2>2, <2>3, <4>2 DEF Fresh, Mine
        <5> QED BY <3>2, <4>2, <5>1 DEF Carries
      <4>3. CASE memory[p] \in Refresh /\ memory'[p].session = memory[p].session
        BY <2>4, <3>2, <4>3, NoneElse
      <4> QED BY <1>1, <2>6, <2>7, <3>2, <4>1, <4>2, <4>3, MemoryStep
    <3> QED BY <3>1, <3>2
  <2> QED BY <2>3, <2>5, <2>7 DEF Brings
<1> QED BY <1>2, <1>3

(* Who modifies a cache has the tokens of its file, or newer ones. *)
LEMMA ModifyKeeps ==
  ASSUME PlaceInv, ModifyInv, NEW p \in Process, Acts(p)
  PROVE  ModifyInv'
<1> SUFFICES ASSUME NEW q \in Process PROVE Modifies(q)'
  BY DEF ModifyInv
<1>1. CommandTypes /\ SharedTypes /\ PlaceInv'
  BY TypesSplit, PlaceKeeps DEF PlaceInv
<1>2. CASE q # p
  <2>1. /\ pc'[q] = pc[q] /\ name'[q] = name[q] /\ level'[q] = level[q] /\ memory'[q] = memory[q]
        /\ matched'[q] = matched[q] /\ Modifies(q)
    BY <1>2, Others DEF ModifyInv
  <2>2. CASE matched[q] \/ pc[q] \in {"refresh", "write"}
    <3>1. cache'[name[q]] = cache[name[q]] \/ cache'[name[q]] = None
      BY <1>2, <2>2, OthersCache
    <3>2. (cache[name[q]])' = cache'[name[q]]
      BY <2>1
    <3>3. CASE cache'[name[q]] = None
      BY <2>1, <3>3 DEF Modifies
    <3>4. CASE cache'[name[q]] = cache[name[q]]
      BY <2>1, <3>4 DEF Modifies
    <3> QED BY <3>1, <3>3, <3>4
  <2>3. CASE ~matched[q] /\ pc[q] \notin {"refresh", "write"}
    BY <2>1, <2>3 DEF Modifies
  <2> QED BY <2>2, <2>3
<1>3. CASE q = p
  <2>1. matched'[p] => pc'[p] \in {"refresh", "write"}
    BY <1>1 DEF PlaceInv, Place
  <2>2. CASE LockCache(p)
    <3>1. cache' = cache /\ name' = name /\ level' = level /\ matched'[p] = Matches(p)
      BY <1>1, <2>2 DEF LockCache, Set, files, CommandTypes
    <3>2. Matches(p) => memory'[p] = cache[name[p]].token /\ cache[name[p]].level = level[p]
      BY <1>1, <2>2 DEF LockCache, Set, Matches, CommandTypes
    <3>3. ~Matches(p) => cache[name[p]] = None \/ cache[name[p]].level # level[p]
      BY DEF Matches
    <3>4. CASE Matches(p)
      BY <1>3, <3>1, <3>2, <3>4 DEF Modifies
    <3>5. CASE ~Matches(p)
      BY <1>3, <3>1, <3>3, <3>5 DEF Modifies
    <3> QED BY <3>4, <3>5
  <2>3. CASE RefreshToken(p)
    <3>1. cache' = cache /\ name' = name /\ level' = level /\ matched' = matched /\ pc[p] = "refresh" /\ pc'[p] = "write"
      BY <1>1, <2>3 DEF RefreshToken, Goto, files, CommandTypes
    <3>2. Modifies(p)
      BY DEF ModifyInv
    <3>3. matched[p] => memory'[p].session = memory[p].session
      <4>1. CASE memory' = memory
        BY <4>1
      <4>2. CASE memory[p] # None /\ Rotate(p, memory[p])
        <5>1. memory[p] \in Refresh
          BY <1>1, <4>2 DEF CommandTypes
        <5> QED BY <1>1, <4>2, <5>1, RotateKeeps
      <4> QED BY <2>3, <4>1, <4>2 DEF RefreshToken
    <3> QED BY <1>3, <3>1, <3>2, <3>3 DEF Modifies
  <2>4. CASE ~LockCache(p) /\ ~RefreshToken(p)
    <3>1. pc'[p] \notin {"refresh", "write"}
      BY <2>4, ComesBy
    <3> QED BY <1>3, <2>1, <3>1 DEF Modifies
  <2> QED BY <2>2, <2>3, <2>4
<1> QED BY <1>2, <1>3

(* The tokens of a profile are for what they were for before, for a login that wrote them *)
(* over, or for the stored login again where that login puts back what it replaced.       *)
LEMMA StandsFrom ==
  ASSUME PlaceInv, CleanInv, NEW p \in Process, Acts(p), NEW n \in Name, NEW l \in Level, Stands(n, l)'
  PROVE  \/ /\ Stands(n, l)
            /\ n = name[p] => ~WriteOver(p) /\ ~RemoveCache(p) /\ ~Restore(p)
         \/ WriteOver(p) /\ n = name[p] /\ l = level[p]
         \/ /\ Restore(p) /\ n = name[p] /\ LoggingIn(p, n) /\ Good(n) /\ l = credentials[n]
            /\ cache'[n] = previous[p]
<1> DEFINE Was == \/ /\ Stands(n, l)
                     /\ n = name[p] => ~WriteOver(p) /\ ~RemoveCache(p) /\ ~Restore(p)
                  \/ WriteOver(p) /\ n = name[p] /\ l = level[p]
                  \/ /\ Restore(p) /\ n = name[p] /\ LoggingIn(p, n) /\ Good(n) /\ l = credentials[n]
                     /\ cache'[n] = previous[p]
<1>1. CommandTypes /\ SharedTypes /\ Place(p)
  BY TypesSplit DEF PlaceInv
<1>2. \A q \in Process : LoggingIn(q, n) => lock = q /\ name[q] = n
  BY DEF LoggingIn, PlaceInv, Place
<1>3. \A q \in Process \ {p} : LoggingIn(q, n)' <=> LoggingIn(q, n)
  BY Others DEF LoggingIn
<1>4. WriteOver(p) \/ Restore(p) => lock = p
  BY <1>1 DEF WriteOver, Restore, Place
<1>5. Restore(p) /\ n = name[p] => LoggingIn(p, n)
  BY <1>1 DEF Restore, LoggingIn, Place
<1>6. CASE Good(n)' /\ (\A q \in Process : ~LoggingIn(q, n)') /\ l = credentials'[n]
  <2>1. ~(RemoveCache(p) /\ n = name[p]) /\ ~(WriteOver(p) /\ n = name[p])
    BY <1>6, GoodStep, LoggingStep
  <2>2. CASE LoggingIn(p, n)
    <3>1. Store(p) \/ Restore(p)
      BY <1>6, <2>2, GoodStep, LoggingStep
    <3>2. n = name[p]
      BY <1>2, <2>2
    <3>3. CASE Store(p)
      <4>1. pc'[p] # "restore"
        <5>1. kind'[p] = kind[p] /\ name'[p] = name[p]
          BY <3>3 DEF Store
        <5>2. pc'[p] = "restore" => stored'[p] = stored[p]
          BY <1>1, <3>3 DEF Store, Goto, CommandTypes
        <5> QED BY <1>6, <2>2, <5>1, <5>2 DEF LoggingIn
      <4>2. credentials'[n] = level[p] /\ p \notin overlapped
        BY <1>6, <3>2, <3>3, <4>1, GoodStep
      <4>3. Stands(n, l)
        BY <1>6, <2>2, <4>2 DEF Stands
      <4>4. ~Restore(p)
        BY <3>3 DEF Store, Restore
      <4> QED BY <2>1, <4>3, <4>4
    <3>4. CASE Restore(p)
      <4>1. ~Store(p)
        BY <3>4 DEF Store, Restore
      <4>2. Good(n) /\ credentials'[n] = credentials[n] /\ cache'[n] = previous[p]
        BY <1>6, <3>2, <3>4, <4>1, GoodStep
      <4> QED BY <1>6, <2>2, <3>2, <3>4, <4>2
    <3> QED BY <3>1, <3>3, <3>4
  <2>3. CASE ~LoggingIn(p, n)
    <3>1. \A q \in Process : ~LoggingIn(q, n)
      BY <1>3, <1>6, <2>3
    <3>2. ~(Restore(p) /\ n = name[p])
      BY <1>5, <2>3
    <3>3. ~(Store(p) /\ n = name[p])
      <4>1. Store(p) /\ n = name[p] => LoggingIn(p, n)
        BY DEF Store, LoggingIn
      <4> QED BY <2>3, <4>1
    <3>4. Good(n) /\ credentials'[n] = credentials[n]
      BY <1>6, <3>3, GoodStep
    <3>5. Stands(n, l)
      BY <1>6, <3>1, <3>4 DEF Stands
    <3> QED BY <2>1, <3>2, <3>5
  <2> QED BY <2>2, <2>3
<1>7. ASSUME NEW q \in Process, LoggingIn(q, n)', q \notin overlapped', l = level'[q]
      PROVE  Was
  <2>1. CASE q # p
    <3>1. LoggingIn(q, n) /\ q \notin overlapped /\ l = level[q]
      BY <1>3, <1>7, <2>1, Others
    <3>2. Stands(n, l)
      BY <3>1 DEF Stands
    <3>3. ~WriteOver(p) /\ ~Restore(p)
      BY <1>2, <1>4, <2>1, <3>1
    <3>4. ~(RemoveCache(p) /\ n = name[p])
      BY <1>7, <3>1, OverlapStep
    <3> QED BY <3>2, <3>3, <3>4
  <2>2. CASE q = p
    <3>1. /\ WriteOver(p) \/ LoggingIn(p, n)
          /\ name[p] = n /\ level'[p] = level[p] /\ (p \in overlapped => p \in overlapped')
          /\ ~Restore(p) /\ ~RemoveCache(p)
      BY <1>7, <2>2, LoggingStep
    <3>2. CASE WriteOver(p)
      BY <1>7, <2>2, <3>1, <3>2
    <3>3. CASE ~WriteOver(p)
      <4>1. Stands(n, l)
        BY <1>7, <2>2, <3>1, <3>3 DEF Stands
      <4> QED BY <3>1, <3>3, <4>1
    <3> QED BY <3>2, <3>3
  <2> QED BY <2>1, <2>2
<1>8. \/ Good(n)' /\ (\A q \in Process : ~LoggingIn(q, n)') /\ l = credentials'[n]
      \/ \E q \in Process : LoggingIn(q, n)' /\ q \notin overlapped' /\ l = level'[q]
  BY DEF Stands
<1> QED BY <1>6, <1>7, <1>8

(* A rotation is not one of a session that a profile's cache has, but by who modifies it. *)
LEMMA NoOtherRotates ==
  ASSUME PlaceInv, HoldInv, ModifyInv, NEW p \in Process, RefreshToken(p), memory[p] \in Refresh,
         NEW n \in Name, ~(matched[p] /\ name[p] = n)
  PROVE  /\ cache[n] # None => memory[p].session # cache[n].token.session
         /\ \A q \in Process : matched[q] /\ name[q] = n => memory[p].session # memory[q].session
<1>1. pc[p] = "refresh" /\ memory[p] # None
  BY NoneElse DEF RefreshToken
<1>2. ASSUME cache[n] # None, memory[p].session = cache[n].token.session PROVE FALSE
  <2>1. n = name[p] /\ cache[n].level = level[p]
    BY <1>1, <1>2, SameHome
  <2>2. ~matched[p]
    BY <2>1
  <2> QED BY <1>1, <1>2, <2>1, <2>2 DEF ModifyInv, Modifies
<1>3. ASSUME NEW q \in Process, matched[q], name[q] = n, memory[p].session = memory[q].session PROVE FALSE
  <2>1. memory[q] # None
    BY <1>3, OneModifier, NoneElse
  <2>2. name[p] = n
    BY <1>1, <1>3, <2>1, SameHome
  <2>3. q = p
    BY <1>1, <1>3, <2>2, OneModifier
  <2> QED BY <1>3, <2>2, <2>3
<1> QED BY <1>2, <1>3

(* What a login puts back was not rotated meanwhile, or its session was ended before. *)
LEMMA BackStays ==
  ASSUME PlaceInv, SessionInv, HoldInv, ModifyInv, StandInv, NEW p \in Process, Acts(p),
         NEW q \in Process, LoggingIn(q, name[q]), Back(q)
  PROVE  Current(previous[q].token)'  \/ previous'[q] # previous[q]
<1>1. CommandTypes /\ SharedTypes /\ Place(q)
  BY TypesSplit DEF PlaceInv
<1>2. PICK t \in Refresh : t = previous[q].token /\ Current(t)
  BY <1>1 DEF Back, CommandTypes, Cached
<1>3. InLogin(q) /\ Alone(q) /\ name[q] \in Name /\ level[q] \in Level
  BY <1>1 DEF LoggingIn, InLogin, SessionInv, AloneInv, Place, CommandTypes
<1>4. ASSUME RefreshToken(p), memory[p] \in Refresh, memory[p].session = t.session
      PROVE  t.session \in ended
  <2>1. name[q] = name[p] /\ previous[q].level = level[p] /\ memory[p] # None
    BY <1>2, <1>4, SameHome, NoneElse DEF Back
  <2>2. t.session # Mine(q) /\ t.session \in Session
    BY <1>2, <1>3 DEF Alone, Back, Refresh
  <2>3. ~matched[p]
    <3>1. matched[p] => Carries(name[q], t.session)
      BY <1>4, <2>1 DEF Carries
    <3> QED BY <1>3, <2>2, <3>1 DEF Alone
  <2>4. cache[name[q]] # None /\ cache[name[q]].level = level[q]
    BY <1>3 DEF StandInv, Stands, Back
  <2>5. level[p] # level[q]
    BY <1>4, <2>1, <2>3, <2>4 DEF ModifyInv, Modifies, RefreshToken
  <2> QED BY <1>2, <2>1, <2>5 DEF Back
<1>5. Current(t)'
  BY <1>2, <1>4, CurrentStays
<1> QED BY <1>2, <1>5

(* What the tokens of a profile are for, they are for it and work. *)
LEMMA StandKeeps ==
  ASSUME PlaceInv, SessionInv, HoldInv, WorkInv, NEW p \in Process, Acts(p)
  PROVE  StandInv'
<1> SUFFICES ASSUME NEW n \in Name, NEW l \in Level, Stands(n, l)'
             PROVE  /\ cache'[n] # None /\ cache'[n].level = l
                    /\ Unmodified(n)' => Current(cache[n].token)'
                    /\ \A q \in Process : matched'[q] /\ name'[q] = n => Current(memory[q])'
  BY DEF StandInv
<1>1. CommandTypes /\ SharedTypes /\ Place(p) /\ PlaceInv'
  BY TypesSplit, PlaceKeeps DEF PlaceInv
<1>2. BringInv /\ ModifyInv /\ StandInv /\ BackInv /\ CleanInv
  BY DEF WorkInv, HoldInv
<1>3. ASSUME CacheFree(p), n = name[p], WriteOver(p) \/ Restore(p)
      PROVE  \A q \in Process : ~(matched'[q] /\ name'[q] = n)
  <2>1. ~matched'[p]
    BY <1>1, <1>3 DEF WriteOver, Restore, Goto, PlaceInv, Place, CommandTypes
  <2>2. ASSUME NEW q \in Process \ {p}, matched'[q], name'[q] = n PROVE FALSE
    <3>1. matched[q] /\ name[q] = n
      BY <2>2, Others
    <3> QED BY <1>3, <3>1, OneModifier
  <2> QED BY <2>1, <2>2
<1>4. CASE WriteOver(p) /\ n = name[p] /\ l = level[p]
  <2>1. cache'[n] = CacheOf(p) /\ memory' = memory
    BY <1>1, <1>4 DEF WriteOver, SetCache, SharedTypes
  <2>2. memory[p] \in Refresh /\ CacheOf(p) \in Cached /\ CacheOf(p).level = level[p] /\ CacheOf(p).token = memory[p]
    BY <1>1, <1>4, CacheOfTypes DEF WriteOver, Place, CommandTypes
  <2>3. PICK t \in Refresh : t = memory[p] /\ t = cache'[n].token
    BY <2>1, <2>2
  <2>4. Current(t)
    BY <1>2, <1>4, <2>3 DEF WriteOver, BringInv, Brings
  <2>5. Current(t)'
    BY <1>4, <2>4, CurrentStays DEF WriteOver, RefreshToken
  <2> QED BY <1>3, <1>4, <2>1, <2>2, <2>3, <2>5, NoneElse DEF WriteOver
<1>5. CASE /\ Restore(p) /\ n = name[p] /\ LoggingIn(p, n) /\ Good(n) /\ l = credentials[n]
           /\ cache'[n] = previous[p]
  <2>1. Back(p)
    BY <1>2, <1>5 DEF BackInv
  <2>2. PICK t \in Refresh : t = previous[p].token /\ t = cache'[n].token
    BY <1>1, <1>5, <2>1 DEF Back, CommandTypes, Cached
  <2>3. Current(t)'
    BY <1>5, <2>1, <2>2, CurrentStays DEF Back, Restore, RefreshToken
  <2> QED BY <1>3, <1>5, <2>1, <2>2, <2>3 DEF Back, Restore
<1>6. CASE Stands(n, l) /\ (n = name[p] => ~WriteOver(p) /\ ~RemoveCache(p) /\ ~Restore(p))
  <2>1. /\ cache[n] # None /\ cache[n].level = l /\ cache[n] \in Cached /\ cache[n].token \in Refresh
        /\ Unmodified(n) => Current(cache[n].token)
        /\ \A q \in Process : matched[q] /\ name[q] = n => Current(memory[q])
    BY <1>1, <1>2, <1>6 DEF StandInv, SharedTypes, Cached
  <2>2. \/ cache'[n] = cache[n]
        \/ WriteCache(p) /\ n = name[p] /\ matched[p] /\ cache'[n] = CacheOf(p) /\ lost' = lost
    BY <1>6, CacheStep
  <2>3. ASSUME n = name[p], matched[p]
        PROVE  /\ memory[p] \in Refresh /\ Current(memory[p]) /\ CacheOf(p).level = l /\ CacheOf(p).token = memory[p]
               /\ CacheOf(p) # None /\ cache[n].token.session = memory[p].session
               /\ pc[p] \in {"refresh", "write"}
               /\ pc[p] = "refresh" => cache[n].token = memory[p]
    <3>1. memory[p] \in Refresh /\ level[p] \in Level
      BY <2>3, OneModifier
    <3>2. CacheOf(p) \in Cached /\ CacheOf(p).level = level[p] /\ CacheOf(p).token = memory[p]
      BY <1>1, <3>1, CacheOfTypes, NoneElse
    <3>3. /\ cache[n].level = level[p] /\ cache[n].token.session = memory[p].session
          /\ pc[p] = "refresh" => cache[n].token = memory[p]
      BY <1>2, <2>1, <2>3 DEF ModifyInv, Modifies
    <3>4. pc[p] \in {"refresh", "write"}
      BY <1>1, <2>3 DEF Place
    <3> QED BY <2>1, <2>3, <3>1, <3>2, <3>3, <3>4, NoneElse
  <2>4. cache'[n] # None /\ cache'[n].level = l
    BY <2>1, <2>2, <2>3
  <2>5. ASSUME Unmodified(n)'
        PROVE  Current(cache[n].token)'
    <3>1. CASE cache'[n] = CacheOf(p) /\ WriteCache(p) /\ n = name[p] /\ matched[p]
      <4>1. PICK t \in Refresh : t = memory[p] /\ t = cache'[n].token /\ Current(t)
        BY <2>3, <3>1
      <4>2. Current(t)'
        BY <3>1, <4>1, CurrentStays DEF WriteCache, RefreshToken
      <4> QED BY <4>1, <4>2
    <3>2. CASE cache'[n] = cache[n]
      <4>1. PICK t \in Refresh : t = cache[n].token /\ t = cache'[n].token
        BY <2>1, <3>2
      <4>2. CASE Unmodified(n)
        <5>1. ~(matched[p] /\ name[p] = n) /\ Current(t)
          BY <2>1, <4>1, <4>2 DEF Unmodified
        <5>2. RefreshToken(p) /\ memory[p] \in Refresh => memory[p].session # t.session
          BY <1>2, <2>1, <4>1, <5>1, NoOtherRotates
        <5>3. Current(t)'
          BY <5>1, <5>2, CurrentStays
        <5> QED BY <4>1, <5>3
      <4>3. CASE ~Unmodified(n)
        <5>1. PICK q \in Process : matched[q] /\ name[q] = n
          BY <4>3 DEF Unmodified
        <5>2. q = p
          BY <2>5, <5>1, Others DEF Unmodified
        <5>3. matched[p] /\ name[p] = n /\ ~(matched'[p] /\ name'[p] = n)
          BY <2>5, <5>1, <5>2 DEF Unmodified
        <5>4. PICK m \in Refresh : m = memory[p] /\ Current(m)
          BY <2>3, <5>3
        <5>5. WriteCache(p) \/ Crash(p)
          <6>1. pc[p] \in {"refresh", "write"}
            BY <2>3, <5>3
          <6>2. RefreshToken(p) \/ WriteCache(p) \/ Crash(p)
            BY <6>1 DEF Acts, Start, LockProfiles, ReadCredentials, Load, End, Use, LockCache, EndUse, LogIn, Choose,
                 Arrive, WriteOver, FailLogin, Store, EndLogin, Restore, Edit, EndBrowserSession, MoveCredentials,
                 RemoveCredentials, RemoveCache
          <6>3. ~RefreshToken(p)
            BY <5>3 DEF RefreshToken
          <6> QED BY <6>2, <6>3
        <5>6. ~RefreshToken(p)
          <6>1. RefreshToken(p) => matched' = matched /\ name' = name
            BY DEF RefreshToken
          <6> QED BY <5>3, <6>1
        <5>7. Current(m)'
          BY <5>4, <5>6, CurrentStays
        <5>8. CASE t = m
          BY <4>1, <5>7, <5>8
        <5>9. CASE t # m
          <6>1. pc[p] = "write" /\ m.session = t.session
            BY <2>3, <4>1, <5>3, <5>4, <5>9
          <6>2. Unwritten(p)
            BY <2>3, <4>1, <5>3, <5>4, <5>9 DEF Unwritten
          <6>3. lost' = LostWith(p)
            <7>1. CASE WriteCache(p)
              <8>1. cache' # [cache EXCEPT ![name[p]] = CacheOf(p)]
                <9>1. cache'[n].token = t /\ CacheOf(p).token = m
                  BY <2>3, <4>1, <5>3, <5>4
                <9> QED BY <1>1, <5>3, <5>9, <9>1 DEF SharedTypes
              <8> QED BY <5>3, <7>1, <8>1 DEF WriteCache, SetCache
            <7>2. CASE Crash(p)
              BY <6>1, <7>2 DEF Crash
            <7> QED BY <5>5, <7>1, <7>2
          <6>4. m.session \in lost'
            BY <5>4, <6>2, <6>3 DEF LostWith
          <6> QED BY <4>1, <6>1, <6>4 DEF Current
        <5> QED BY <5>8, <5>9
      <4> QED BY <4>2, <4>3
    <3> QED BY <2>2, <3>1, <3>2
  <2>6. ASSUME NEW q \in Process, matched'[q], name'[q] = n
        PROVE  Current(memory[q])'
    <3>1. CASE q # p
      <4>1. matched[q] /\ name[q] = n /\ memory'[q] = memory[q]
        BY <2>6, <3>1, Others
      <4>2. PICK t \in Refresh : t = memory[q] /\ t = memory'[q] /\ Current(t)
        BY <2>1, <4>1, OneModifier
      <4>3. ~(matched[p] /\ name[p] = n)
        BY <3>1, <4>1, OneModifier
      <4>4. RefreshToken(p) /\ memory[p] \in Refresh => memory[p].session # t.session
        BY <1>2, <4>1, <4>2, <4>3, NoOtherRotates
      <4>5. Current(t)'
        BY <4>2, <4>4, CurrentStays
      <4> QED BY <4>2, <4>5
    <3>2. CASE q = p
      <4>1. LockCache(p) \/ RefreshToken(p)
        BY <2>6, <3>2, MatchedFrom
      <4>2. CASE LockCache(p)
        <5>1. CacheFree(p) /\ name[p] = n /\ memory'[p] = cache[n].token
          BY <1>1, <2>6, <3>2, <4>2 DEF LockCache, Set, CommandTypes
        <5>2. Unmodified(n)
          <6>1. \A r \in Process : matched[r] => name[r] # name[p]
            BY <5>1, OneModifier
          <6> QED BY <5>1, <6>1 DEF Unmodified
        <5>3. PICK t \in Refresh : t = cache[n].token /\ Current(t)
          BY <2>1, <5>2
        <5>4. Current(t)'
          BY <4>2, <5>3, CurrentStays DEF LockCache, RefreshToken
        <5> QED BY <3>2, <5>1, <5>3, <5>4
      <4>3. CASE RefreshToken(p)
        <5>1. matched[p] /\ name[p] = n
          BY <2>6, <3>2, <4>3 DEF RefreshToken
        <5> QED BY <2>3, <3>2, <4>3, <5>1, RefreshedStays
      <4> QED BY <4>1, <4>2, <4>3
    <3> QED BY <3>1, <3>2
  <2> QED BY <2>4, <2>5, <2>6
<1> QED BY <1>2, <1>4, <1>5, <1>6, StandsFrom

(* What a login has for putting back works, as long as the credentials of before are there. *)
LEMMA BackKeeps ==
  ASSUME PlaceInv, SessionInv, HoldInv, WorkInv, NEW p \in Process, Acts(p)
  PROVE  BackInv'
<1> SUFFICES ASSUME NEW q \in Process, LoggingIn(q, name[q])', Good(name[q])'
             PROVE  Back(q)'
  BY DEF BackInv
<1>1. CommandTypes /\ SharedTypes /\ Place(p) /\ Place(q) /\ PlaceInv'
  BY TypesSplit, PlaceKeeps DEF PlaceInv
<1>2. ModifyInv /\ StandInv /\ BackInv /\ FindInv /\ CleanInv
  BY DEF WorkInv, HoldInv
<1>3. PICK n \in Name : n = name'[q]
  BY <1>1 DEF LoggingIn, PlaceInv, Place
<1>4. LoggingIn(q, n)' /\ Good(n)'
  BY <1>3 DEF LoggingIn
<1>5. CASE q = p /\ WriteOver(p)
  <2>1. /\ name[p] = n /\ level'[p] = level[p] /\ previous'[p] = cache[n] /\ overlapped' = overlapped /\ ended' = ended
        /\ credentials' = credentials /\ CacheFree(p) /\ pc[p] = "writeOver" /\ kind[p] = "login" /\ lock = p
    BY <1>1, <1>3, <1>5 DEF WriteOver, Set, CommandTypes, ghosts, idp, Place
  <2>2. Good(n)
    BY <1>4, <1>5, <2>1, GoodStep DEF Store
  <2>3. \A r \in Process : ~LoggingIn(r, n)
    <3>1. \A r \in Process : LoggingIn(r, n) => lock = r /\ pc[r] # "writeOver"
      BY DEF LoggingIn, PlaceInv, Place
    <3> QED BY <2>1, <3>1
  <2>4. credentials[n] \in Level
    BY <1>1, <2>2 DEF Good, SharedTypes
  <2>5. Stands(n, credentials[n])
    BY <2>2, <2>3 DEF Stands
  <2>6. Unmodified(n)
    <3>1. \A r \in Process : matched[r] => name[r] # name[p]
      BY <2>1, OneModifier
    <3> QED BY <2>1, <3>1 DEF Unmodified
  <2>7. cache[n] # None /\ cache[n].level = credentials[n] /\ Current(cache[n].token)
    BY <1>2, <2>4, <2>5, <2>6 DEF StandInv
  <2>8. PICK t \in Refresh : t = cache[n].token /\ Current(t)
    BY <1>1, <2>7 DEF SharedTypes, Cached
  <2>9. Current(t)'
    BY <2>1, <2>8, CurrentStays DEF RefreshToken
  <2>10. p \notin overlapped
    BY <1>2, <2>1 DEF CleanInv, Clean
  <2>11. cache[n].level = level[p] \/ cache[n].token.session \in ended
    BY <1>2, <2>1, <2>2 DEF FindInv, Finds
  <2> QED BY <1>3, <1>5, <2>1, <2>7, <2>8, <2>9, <2>10, <2>11 DEF Back
<1>6. CASE ~(q = p /\ WriteOver(p))
  <2>1. /\ LoggingIn(q, n) /\ name[q] = n /\ level'[q] = level[q]
        /\ ~(q = p /\ Store(p) /\ stored'[p])
    <3>1. CASE q = p
      BY <1>4, <1>6, <3>1, LoggingStep
    <3>2. CASE q # p
      BY <1>3, <1>4, <3>2, Others DEF LoggingIn
    <3> QED BY <3>1, <3>2
  <2>2. lock = q
    BY <1>1, <2>1 DEF LoggingIn, Place
  <2>3. Store(p) => p = q
    BY <1>1, <2>2 DEF Store, Place
  <2>4. Good(n) /\ credentials'[n] = credentials[n]
    BY <1>4, <2>1, <2>3, GoodStep
  <2>5. Back(q)
    BY <1>2, <2>1, <2>4 DEF BackInv
  <2>6. q \notin overlapped'
    <3>1. ~(RemoveCache(p) /\ n = name[p])
      BY <1>4, GoodStep
    <3> QED BY <2>1, <2>5, <3>1, OverlapStep DEF Back, LoggingIn
  <2>7. previous'[q] = previous[q]
    <3>1. CASE q # p
      BY <3>1, Others
    <3>2. CASE q = p
      <4>1. LockCache(p) \/ RefreshToken(p) \/ WriteCache(p) \/ Store(p) \/ EndLogin(p)
        BY <1>4, <1>6, <3>2, ComesBy DEF LoggingIn
      <4> QED BY <3>2, <4>1 DEF LockCache, RefreshToken, WriteCache, Store, EndLogin, command
    <3> QED BY <3>1, <3>2
  <2>8. Current(previous[q].token)'
    BY <1>2, <2>1, <2>5, <2>7, BackStays
  <2>9. ended \subseteq ended'
    BY RotationStep
  <2> QED BY <1>3, <2>1, <2>4, <2>5, <2>6, <2>7, <2>8, <2>9 DEF Back
<1> QED BY <1>5, <1>6

(* A stored login of a profile that no login is working on has its tokens. *)
LEMMA StoredStands ==
  ASSUME PlaceInv, StandInv, NEW p \in Process, lock = p, ~InLogin(p), NEW n \in Name, Good(n)
  PROVE  cache[n] # None /\ cache[n].level = credentials[n]
<1>1. \A q \in Process : ~LoggingIn(q, n)
  BY DEF LoggingIn, InLogin, PlaceInv, Place
<1>2. credentials[n] \in Level
  BY DEF PlaceInv, TypeOK, Good
<1>3. Stands(n, credentials[n])
  BY <1>1 DEF Stands
<1> QED BY <1>2, <1>3 DEF StandInv

(* What a login found stays there, as a session of the same identity. *)
LEMMA FoundStays ==
  ASSUME PlaceInv, ModifyInv, StandInv, NEW q \in Process, lock = q, kind[q] = "login",
         pc[q] \in {"choose", "redirected", "writeOver"}, NEW p \in Process, Acts(p), ~(WriteOver(p) /\ p = q),
         Good(name[q]), ~(RemoveCache(p) /\ name[p] = name[q])
  PROVE  /\ cache[name[q]] # None /\ cache'[name[q]] # None
         /\ cache'[name[q]].level = cache[name[q]].level
         /\ cache'[name[q]].token.session = cache[name[q]].token.session
<1>1. name[q] \in Name /\ ~InLogin(q)
  BY DEF PlaceInv, Place, InLogin
<1>2. cache[name[q]] # None
  BY <1>1, StoredStands
<1>3. ~(Restore(p) /\ name[p] = name[q]) /\ ~(WriteOver(p) /\ name[p] = name[q])
  BY DEF Restore, WriteOver, PlaceInv, Place
<1>4. CASE cache'[name[q]] = cache[name[q]]
  BY <1>2, <1>4
<1>5. CASE WriteCache(p) /\ name[q] = name[p] /\ matched[p] /\ cache'[name[q]] = CacheOf(p)
  <2>1. cache[name[q]].level = level[p] /\ cache[name[q]].token.session = memory[p].session
    BY <1>2, <1>5 DEF ModifyInv, Modifies
  <2>2. memory[p] \in Refresh /\ level[p] \in Level
    BY <1>5, OneModifier
  <2>3. CacheOf(p) \in Cached /\ CacheOf(p).level = level[p] /\ CacheOf(p).token = memory[p]
    BY <2>2, CacheOfTypes, NoneElse, TypesSplit DEF PlaceInv
  <2> QED BY <1>2, <1>5, <2>1, <2>3, NoneElse
<1> QED BY <1>1, <1>3, <1>4, <1>5, CacheStep

(* A login goes on with what it found of the stored login. *)
LEMMA FindKeeps ==
  ASSUME PlaceInv, SessionInv, HoldInv, WorkInv, NEW p \in Process, Acts(p)
  PROVE  FindInv'
<1> SUFFICES ASSUME NEW q \in Process, (kind[q] = "login" /\ pc[q] # "idle" /\ Good(name[q]))',
                    pc'[q] \in {"load", "choose", "redirected", "writeOver"}
             PROVE  Finds(q)'
  BY DEF FindInv, Finds
<1>1. CommandTypes /\ SharedTypes /\ PlaceInv'
  BY TypesSplit, PlaceKeeps DEF PlaceInv
<1>2. ModifyInv /\ StandInv /\ FindInv
  BY DEF WorkInv
<1>3. PICK n \in Name : n = name'[q]
  BY <1>1 DEF PlaceInv, Place
<1>4. Good(n)'
  BY <1>3
<1>5. CASE q # p
  <2>1. /\ pc'[q] = pc[q] /\ kind'[q] = kind[q] /\ name'[q] = name[q] /\ level'[q] = level[q] /\ memory'[q] = memory[q]
        /\ lock = q
    BY <1>5, Others DEF PlaceInv, Place
  <2>2. ~Store(p)
    BY <1>5, <2>1 DEF Store, PlaceInv, Place
  <2>3. Good(n) /\ credentials'[n] = credentials[n] /\ ~(RemoveCache(p) /\ n = name[p])
    BY <1>4, <2>2, GoodStep
  <2>4. Finds(q) /\ ended \subseteq ended'
    BY <1>2, <1>3, <2>1, <2>3, RotationStep DEF FindInv
  <2>5. CASE pc[q] = "load"
    BY <1>3, <2>1, <2>3, <2>4, <2>5 DEF Finds
  <2>6. CASE pc[q] \in {"choose", "redirected", "writeOver"}
    <3>1. /\ cache[n] # None /\ cache'[n] # None /\ cache'[n].level = cache[n].level
          /\ cache'[n].token.session = cache[n].token.session
      BY <1>2, <1>3, <1>5, <2>1, <2>3, <2>6, FoundStays
    <3> QED BY <1>3, <2>1, <2>3, <2>4, <3>1 DEF Finds
  <2> QED BY <2>1, <2>5, <2>6
<1>6. CASE q = p
  <2>1. CASE pc'[p] = "load"
    <3>1. ReadCredentials(p)
      BY <2>1, ComesBy
    <3>2. level'[p] = credentials[n] /\ credentials' = credentials
      BY <1>1, <1>3, <1>6, <3>1 DEF ReadCredentials, Set, files, CommandTypes
    <3> QED BY <1>3, <1>6, <2>1, <3>2 DEF Finds
  <2>2. CASE pc'[p] = "choose"
    <3>1. Load(p)
      <4>1. ReadCredentials(p) => credentials' = credentials /\ name' = name
        BY DEF ReadCredentials, files
      <4>2. credentials'[n] # None
        BY <1>4 DEF Good
      <4> QED BY <1>3, <1>6, <2>2, <4>1, <4>2, ComesBy
    <3>2. /\ pc[p] = "load" /\ kind[p] = "login" /\ name[p] = n /\ level' = level /\ UNCHANGED <<files, ghosts>>
          /\ memory' = [memory EXCEPT ![p] = IF Matches(p) THEN cache[n].token ELSE None]
      BY <1>3, <1>6, <3>1 DEF Load, Set
    <3>3. lock = p /\ ~InLogin(p) /\ Good(n)
      BY <1>4, <3>2 DEF PlaceInv, Place, InLogin, Good, files, ghosts
    <3>4. level[p] = credentials[n] /\ cache[n] # None /\ cache[n].level = credentials[n]
      BY <1>2, <3>2, <3>3, StoredStands DEF FindInv, Finds
    <3>5. memory'[p] = cache[n].token /\ cache[n].token \in Refresh
      BY <1>1, <3>2, <3>4 DEF Matches, CommandTypes, SharedTypes, Cached
    <3> QED BY <1>3, <1>6, <2>2, <3>2, <3>4, <3>5, NoneElse DEF Finds, files
  <2>3. CASE pc'[p] = "redirected"
    <3>1. PICK l \in Level : Choose(p, l)
      BY <2>3, ComesBy
    <3>2. /\ pc[p] = "choose" /\ kind[p] = "login" /\ name[p] = n /\ level'[p] = l /\ UNCHANGED <<files, ghosts>>
          /\ (Replaces(p, l) => ended' = ended \cup {memory[p].session})
      <4>1. Replaces(p, l) => ended' = ended \cup {memory[p].session}
        <5>1. ~Goto(p, "end")
          BY <1>1, <2>3 DEF Goto, CommandTypes
        <5> QED BY <3>1, <5>1 DEF Choose, Revoked
      <4> QED BY <1>1, <1>3, <1>6, <3>1, <4>1 DEF Choose, Set, CommandTypes
    <3>3. lock = p /\ ~InLogin(p) /\ Good(n)
      BY <1>4, <3>2 DEF PlaceInv, Place, InLogin, Good, files, ghosts
    <3>4. /\ level[p] = credentials[n] /\ memory[p] # None /\ cache[n].token.session = memory[p].session
          /\ cache[n] # None /\ cache[n].level = credentials[n]
      BY <1>2, <3>2, <3>3, StoredStands DEF FindInv, Finds
    <3>5. cache[n].level = l \/ cache[n].token.session \in ended'
      BY <3>2, <3>4 DEF Replaces
    <3> QED BY <1>3, <1>6, <2>3, <3>2, <3>4, <3>5 DEF Finds, files
  <2>4. CASE pc'[p] = "writeOver"
    <3>1. Arrive(p)
      BY <2>4, ComesBy
    <3>2. pc[p] = "redirected" /\ kind[p] = "login" /\ name[p] = n /\ level' = level /\ UNCHANGED <<files, ghosts, ended>>
      BY <1>3, <1>6, <3>1 DEF Arrive
    <3>3. Good(n)
      BY <1>4, <3>2 DEF Good, files, ghosts
    <3>4. cache[n] # None /\ (cache[n].level = level[p] \/ cache[n].token.session \in ended)
      BY <1>2, <3>2, <3>3 DEF FindInv, Finds
    <3> QED BY <1>3, <1>6, <2>4, <3>2, <3>4 DEF Finds, files
  <2> QED BY <1>6, <2>1, <2>2, <2>3, <2>4
<1> QED BY <1>5, <1>6

-----------------------------------------------------------------------------
(* The invariants hold at first and in every step, and say that logins work. *)

StoredInv == PlaceInv /\ SessionInv /\ HoldInv /\ WorkInv

(* No profile has a login at first. *)
LEMMA StoredStarts == Init => StoredInv
<1> SUFFICES ASSUME Init PROVE StoredInv
  OBVIOUS
<1>1. PlaceInv /\ SessionInv
  BY PlaceStarts, SessionsStart
<1>2. /\ \A p \in Process : pc[p] = "idle" /\ kind[p] = None /\ memory[p] = None /\ previous[p] = None /\ ~matched[p]
      /\ \A n \in Name : cache[n] = None /\ credentials[n] = None
      /\ overlapped = {} /\ \A s \in Session : rotations[s] = 0
  BY DEF Init, Nobody
<1>3. CleanInv
  BY <1>2 DEF CleanInv, Clean
<1>4. \A n \in Name, s \in Session, l \in Identity : ~Holds(n, s, l)
  BY <1>2 DEF Holds, InCache, InMemory, Replaced
<1>5. HomeInv /\ BornInv
  BY <1>2, <1>4 DEF HomeInv, BornInv
<1>6. \A n \in Name : ~Good(n) /\ \A p \in Process : ~LoggingIn(p, n)
  BY <1>2 DEF Good, LoggingIn
<1>7. BringInv /\ ModifyInv /\ FindInv
  BY <1>2 DEF BringInv, ModifyInv, Modifies, FindInv
<1>8. StandInv
  BY <1>6 DEF StandInv, Stands
<1>9. BackInv
  BY <1>2 DEF BackInv, LoggingIn
<1> QED BY <1>1, <1>3, <1>5, <1>7, <1>8, <1>9 DEF StoredInv, HoldInv, WorkInv

(* Every step of the commands keeps all of them. *)
LEMMA StoredNext == StoredInv /\ [Next]_vars => StoredInv'
<1> SUFFICES ASSUME StoredInv, [Next]_vars PROVE StoredInv'
  OBVIOUS
<1>1. PlaceInv /\ SessionInv /\ HoldInv /\ WorkInv
  BY DEF StoredInv
<1>2. PlaceInv' /\ SessionInv'
  BY <1>1, PlaceNext, SessionsNext
<1>3. CASE \E p \in Process : Acts(p)
  <2>1. PICK p \in Process : Acts(p)
    BY <1>3
  <2>2. HoldInv'
    BY <1>1, <2>1, HoldKeeps
  <2>3. BringInv' /\ ModifyInv' /\ StandInv' /\ BackInv' /\ FindInv'
    BY <1>1, <2>1, BringKeeps, ModifyKeeps, StandKeeps, BackKeeps, FindKeeps DEF WorkInv
  <2> QED BY <1>2, <2>2, <2>3 DEF StoredInv, WorkInv
<1>4. CASE UNCHANGED vars
  <2>1. UNCHANGED <<pc, kind, name, target, level, memory, matched, previous, stored, lock, cacheLock,
                    profiles, credentials, cache, sessions, rotations, ended, lost, abandoned, overlapped, spoiled>>
    BY <1>4 DEF vars, command, files, idp, ghosts
  <2>2. CleanInv'
    BY <1>1, <2>1 DEF HoldInv, CleanInv, Clean
  <2>3. \A n \in Name, s \in Session, l \in Identity : Holds(n, s, l)' <=> Holds(n, s, l)
    BY <2>1 DEF Holds, InCache, InMemory, Replaced
  <2>4. HomeInv' /\ BornInv'
    BY <1>1, <2>1, <2>3 DEF HoldInv, HomeInv, BornInv
  <2>5. HoldInv'
    BY <2>2, <2>4 DEF HoldInv
  <2>6. BringInv'
    BY <1>1, <2>1 DEF WorkInv, BringInv, Brings, Current
  <2>7. ModifyInv'
    BY <1>1, <2>1 DEF WorkInv, ModifyInv, Modifies
  <2>8. \A n \in Name, l \in Level : Stands(n, l)' <=> Stands(n, l)
    BY <2>1 DEF Stands, Good, LoggingIn
  <2>9. StandInv'
    BY <1>1, <2>1, <2>8 DEF WorkInv, StandInv, Unmodified, Current
  <2>10. BackInv'
    BY <1>1, <2>1 DEF WorkInv, BackInv, Back, Good, LoggingIn, Current
  <2>11. FindInv'
    BY <1>1, <2>1 DEF WorkInv, FindInv, Finds, Good
  <2> QED BY <1>2, <2>5, <2>6, <2>7, <2>9, <2>10, <2>11 DEF StoredInv, WorkInv
<1> QED BY <1>3, <1>4 DEF Next, Acts

(* A stored login has its tokens, and never those of another identity or a refresh token *)
(* that was rotated away, whichever logins succeeded and failed beside it.               *)
THEOREM StoredLoginKeepsWorking == Spec => []StoredLoginWorks
<1>1. StoredInv => StoredLoginWorks
  <2> SUFFICES ASSUME StoredInv, NEW n \in Name \ spoiled, Settled(n), credentials[n] # None
               PROVE  /\ cache[n] # None
                      /\ cache[n].level = credentials[n]
                      /\ \/ cache[n].token.session \in lost \cup ended
                         \/ cache[n].token.rotation = rotations[cache[n].token.session]
    BY DEF StoredLoginWorks
  <2>1. PlaceInv /\ StandInv
    BY DEF StoredInv, WorkInv
  <2>2. credentials[n] \in Level /\ Good(n)
    BY <2>1 DEF PlaceInv, TypeOK, Good
  <2>3. Stands(n, credentials[n])
    BY <2>2 DEF Settled, Stands
  <2>4. Unmodified(n)
    <3>1. \A q \in Process : matched[q] => cacheLock[name[q]] = q
      BY <2>1, OneModifier
    <3> QED BY <3>1, NoneElse DEF Settled, Unmodified
  <2>5. cache[n] # None /\ cache[n].level = credentials[n] /\ Current(cache[n].token)
    BY <2>1, <2>2, <2>3, <2>4 DEF StandInv
  <2> QED BY <2>5 DEF Current
<1> QED BY <1>1, StoredStarts, StoredNext, PTL DEF Spec
=============================================================================

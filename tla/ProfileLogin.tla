---------------------------- MODULE ProfileLogin ----------------------------
(***************************************************************************)
(* internal/auth, internal/profile and their commands: the life of a       *)
(* browser login in a profile.  meshstack login, logout, profile edit and  *)
(* profile delete run beside commands that use the login, each in its own  *)
(* process.                                                                *)
(*                                                                         *)
(* A profile's login is in two files: credentials.json names its identity, *)
(* which is its access level here, and the cache file has its tokens.  Only*)
(* the refresh token is modelled, as the login session it belongs to and   *)
(* the number of its rotations; TokenCache has the access tokens and the   *)
(* locking of the cache in detail.  Here the cache's lock is one holder,   *)
(* and what only reads under it is one step.  An edit is one that changes  *)
(* the endpoint or, as a "rename", the name.                               *)
(***************************************************************************)
EXTENDS Naturals, FiniteSets

CONSTANTS Process,       \* the processes that run commands
          Name,          \* the names of profiles
          Level,         \* the access levels of a login
          Kinds,         \* the commands that are run
          None,          \* no token, credential, command or holder
          MaxCommands,   \* the bound on the commands run
          MaxLogins,     \* the bound on the sessions that browser logins start
          MaxRotations   \* the bound on the rotations of each session's refresh token

Editing == {"edit", "rename", "delete"}
Commands == Editing \cup {"login", "logout", "use"}

ASSUME KindsAssumption == Kinds \subseteq Commands
ASSUME BoundsAssumption == {MaxCommands, MaxLogins, MaxRotations} \subseteq Nat

Session == 1..MaxLogins
Refresh == [session : Session, rotation : 0..MaxRotations]
Cached == [level : Level, token : Refresh]

ASSUME NoneAssumption == None \notin Process \cup Name \cup Level \cup Commands \cup Refresh \cup Cached

VARIABLES
  pc,          \* where each process is
  kind,        \* the command it runs
  name,        \* the profile of the command
  target,      \* the new name of a profile that is renamed
  level,       \* the identity of the credential it works with
  memory,      \* the refresh token it has in memory
  matched,     \* the cache file it is modifying is the one of its identity
  previous,    \* the cache file a login replaced
  stored,      \* a login has stored its credential
  lock,        \* who holds the profiles
  cacheLock,   \* who modifies the cache of each profile
  profiles,    \* the profiles that are stored
  credentials, \* the identity in each profile's credentials file
  cache,       \* each profile's cache file
  sessions,    \* how many sessions browser logins have started
  rotations,   \* how often each session's refresh token was rotated
  ended,       \* the sessions that have ended
  lost,        \* the sessions whose latest refresh token no file has got
  abandoned,   \* the sessions of logins that failed
  overlapped,  \* the logins whose cache was removed before they stored
  spoiled,     \* the profiles that a crash, a logout or a rename left half a login
  commands     \* how many commands were run

files == <<profiles, credentials, cache>>
idp == <<sessions, rotations, ended>>
ghosts == <<lost, abandoned, overlapped, spoiled>>
command == <<kind, name, target, level, memory, matched, previous, stored>>
vars == <<pc, command, lock, cacheLock, files, idp, ghosts, commands>>

Steps == {"idle", "lock", "read", "load", "session", "refresh", "write",
          "choose", "redirected", "writeOver", "restore", "end",
          "revoke", "move", "removeCredentials", "removeCache"}

TypeOK ==
  /\ pc \in [Process -> Steps]
  /\ kind \in [Process -> Commands \cup {None}]
  /\ name \in [Process -> Name \cup {None}]
  /\ target \in [Process -> Name \cup {None}]
  /\ level \in [Process -> Level \cup {None}]
  /\ memory \in [Process -> Refresh \cup {None}]
  /\ matched \in [Process -> BOOLEAN]
  /\ previous \in [Process -> Cached \cup {None}]
  /\ stored \in [Process -> BOOLEAN]
  /\ lock \in Process \cup {None}
  /\ cacheLock \in [Name -> Process \cup {None}]
  /\ profiles \in SUBSET Name
  /\ credentials \in [Name -> Level \cup {None}]
  /\ cache \in [Name -> Cached \cup {None}]
  /\ sessions \in 0..MaxLogins
  /\ rotations \in [Session -> 0..MaxRotations]
  /\ {ended, lost, abandoned} \subseteq SUBSET Session
  /\ overlapped \in SUBSET Process
  /\ spoiled \in SUBSET Name
  /\ commands \in 0..MaxCommands

Nobody == [p \in Process |-> None]

Init ==
  /\ pc = [p \in Process |-> "idle"]
  /\ kind = Nobody /\ name = Nobody /\ target = Nobody
  /\ level = Nobody /\ memory = Nobody /\ previous = Nobody
  /\ matched = [p \in Process |-> FALSE]
  /\ stored = [p \in Process |-> FALSE]
  /\ lock = None
  /\ cacheLock = [n \in Name |-> None]
  /\ profiles = {}
  /\ credentials = [n \in Name |-> None]
  /\ cache = [n \in Name |-> None]
  /\ sessions = 0
  /\ rotations = [s \in Session |-> 0]
  /\ ended = {} /\ lost = {} /\ abandoned = {} /\ overlapped = {} /\ spoiled = {}
  /\ commands = 0

-----------------------------------------------------------------------------
Goto(p, step) == pc' = [pc EXCEPT ![p] = step]
Set(f, p, v) == [f EXCEPT ![p] = v]

(* Whoever reads the cache file takes its lock for reading, whoever writes it *)
(* for writing.                                                               *)
CacheFree(p) == cacheLock[name[p]] = None

(* Credential.read takes a cache for its own that has the credential's identity. *)
Matches(p) == cache[name[p]] # None /\ cache[name[p]].level = level[p]

SetCache(p, c) == cache' = [cache EXCEPT ![name[p]] = c]

(* A mutation of CacheOf: the file does not say whose tokens it has. *)
CacheOfAnyone(p) == [level |-> None, token |-> memory[p]]

(* Credential.write *)
CacheOf(p) == [level |-> level[p], token |-> memory[p]]

-----------------------------------------------------------------------------
(* A command starts with the profile that the flags or an answer name. *)
Start(p, k, n, m) ==
  /\ pc[p] = "idle"
  /\ commands < MaxCommands
  /\ k = "rename" <=> n # m
  /\ k = "logout" => n \in profiles
  /\ commands' = commands + 1
  /\ kind' = Set(kind, p, k)
  /\ name' = Set(name, p, n)
  /\ target' = Set(target, p, m)
  /\ Goto(p, IF k \in Editing \cup {"login"} THEN "lock" ELSE "read")
  /\ UNCHANGED <<level, memory, matched, previous, stored, lock, cacheLock, files, idp, ghosts>>

(* Whoever stores profiles holds them, and gives up after a second where       *)
(* another process does.  A command edits a stored profile, and CheckNameFree  *)
(* keeps a rename from the name of another one.                                *)
AfterLock(p) ==
  IF \/ kind[p] \in Editing /\ name[p] \notin profiles
     \/ kind[p] = "rename" /\ target[p] \in profiles
  THEN "end"
  ELSE IF kind[p] = "edit" THEN "removeCredentials" ELSE "read"

LockProfiles(p) ==
  /\ pc[p] = "lock"
  /\ \/ lock = None /\ lock' = p /\ Goto(p, AfterLock(p))
     \/ lock # None /\ UNCHANGED lock /\ Goto(p, "end")
  /\ UNCHANGED <<command, cacheLock, files, idp, ghosts, commands>>

(* Profile.Credentials: what the command does next with a login, and without one. *)
WithLogin == [use |-> "load", login |-> "load", logout |-> "load", delete |-> "load",
              rename |-> "move"]
WithoutLogin == [use |-> "end", login |-> "choose", logout |-> "removeCredentials",
                 delete |-> "removeCredentials", rename |-> "removeCredentials"]

ReadCredentials(p) ==
  /\ pc[p] = "read"
  /\ level' = Set(level, p, credentials[name[p]])
  /\ Goto(p, IF credentials[name[p]] = None THEN WithoutLogin[kind[p]] ELSE WithLogin[kind[p]])
  /\ UNCHANGED <<kind, name, target, memory, matched, previous, stored, lock, cacheLock, files,
                 idp, ghosts, commands>>

(* Credential.Load, of the stored credential or of the one a login replaces. *)
AfterLoad == [use |-> "session", login |-> "choose", logout |-> "revoke", delete |-> "revoke"]

Load(p) ==
  /\ pc[p] = "load"
  /\ CacheFree(p)
  /\ memory' = Set(memory, p, IF Matches(p) THEN cache[name[p]].token ELSE None)
  /\ Goto(p, AfterLoad[kind[p]])
  /\ UNCHANGED <<kind, name, target, level, matched, previous, stored, lock, cacheLock, files,
                 idp, ghosts, commands>>

(* The command is over, and with it what it held and what it had in memory. *)
Forget(p) ==
  /\ Goto(p, "idle")
  /\ kind' = Set(kind, p, None) /\ name' = Set(name, p, None) /\ target' = Set(target, p, None)
  /\ level' = Set(level, p, None) /\ memory' = Set(memory, p, None)
  /\ previous' = Set(previous, p, None)
  /\ matched' = Set(matched, p, FALSE) /\ stored' = Set(stored, p, FALSE)
  /\ overlapped' = overlapped \ {p}
  /\ lock' = IF lock = p THEN None ELSE lock

End(p) ==
  /\ pc[p] = "end"
  /\ Forget(p)
  /\ UNCHANGED <<cacheLock, files, idp, lost, abandoned, spoiled, commands>>

-----------------------------------------------------------------------------
(* Modify reads the cache again, refreshes, and writes what matched back. *)
LockCache(p) ==
  /\ pc[p] = "session"
  /\ CacheFree(p)
  /\ cacheLock' = Set(cacheLock, name[p], p)
  /\ matched' = Set(matched, p, Matches(p))
  /\ memory' = Set(memory, p, IF Matches(p) THEN cache[name[p]].token ELSE memory[p])
  /\ Goto(p, "refresh")
  /\ UNCHANGED <<kind, name, target, level, previous, stored, lock, files, idp, ghosts, commands>>

(* The identity provider rotates a refresh token, and its answer may be lost. *)
Rotate(p, t) ==
  /\ t.session \notin ended
  /\ t.rotation = rotations[t.session]
  /\ t.rotation < MaxRotations
  /\ rotations' = [rotations EXCEPT ![t.session] = @ + 1]
  /\ \/ memory' = [memory EXCEPT ![p].rotation = @ + 1] /\ UNCHANGED lost
     \/ lost' = lost \cup {t.session} /\ UNCHANGED memory

(* A refresh token that was rotated away ends its session. *)
Replay(t) ==
  /\ t.rotation # rotations[t.session]
  /\ ended' = ended \cup {t.session}

(* A refresh is not needed or fails, rotates the token or replays it. *)
RefreshToken(p) ==
  /\ pc[p] = "refresh"
  /\ \/ UNCHANGED <<memory, rotations, ended, lost>>
     \/ memory[p] # None /\ Rotate(p, memory[p]) /\ UNCHANGED ended
     \/ memory[p] # None /\ Replay(memory[p]) /\ UNCHANGED <<memory, rotations, lost>>
  /\ Goto(p, "write")
  /\ UNCHANGED <<kind, name, target, level, matched, previous, stored, lock, cacheLock, files,
                 sessions, abandoned, overlapped, spoiled, commands>>

(* The process has a refresh token that its cache file lacks. *)
Unwritten(p) == matched[p] /\ cache[name[p]] # CacheOf(p)

LostWith(p) == IF Unwritten(p) THEN lost \cup {memory[p].session} ELSE lost

WriteCache(p) ==
  /\ pc[p] = "write"
  /\ \/ matched[p] /\ SetCache(p, CacheOf(p)) /\ UNCHANGED lost
     \/ ~matched[p] /\ UNCHANGED <<cache, lost>>
     \/ matched[p] /\ UNCHANGED cache /\ lost' = LostWith(p)
  /\ cacheLock' = Set(cacheLock, name[p], None)
  /\ matched' = Set(matched, p, FALSE)
  /\ Goto(p, "session")
  /\ UNCHANGED <<kind, name, target, level, memory, previous, stored, lock, profiles, credentials,
                 idp, abandoned, overlapped, spoiled, commands>>

EndUse(p) ==
  /\ pc[p] = "session"
  /\ kind[p] = "use"
  /\ Goto(p, "end")
  /\ UNCHANGED <<command, lock, cacheLock, files, idp, ghosts, commands>>

-----------------------------------------------------------------------------
(* The identity provider ends the session of a refresh token it revokes; it   *)
(* may do so and yet not answer.                                              *)
Revoked(t) == ended' = ended \cup {t.session}

(* Previous.endIfReplaced: the login that the profile has ends before the     *)
(* browser goes on, where the new one has another level.                      *)
Replaces(p, l) == memory[p] # None /\ level[p] # l

(* A mutation of Choose: the previous login goes on beside the new one. *)
ChooseBeside(p, l) ==
  /\ pc[p] = "choose"
  /\ Goto(p, "redirected")
  /\ level' = Set(level, p, l)
  /\ memory' = Set(memory, p, None)
  /\ UNCHANGED <<kind, name, target, matched, previous, stored, lock, cacheLock, files,
                 idp, ghosts, commands>>

Choose(p, l) ==
  /\ pc[p] = "choose"
  /\ \/ ~Replaces(p, l) /\ UNCHANGED ended /\ Goto(p, "redirected")
     \/ Replaces(p, l) /\ Revoked(memory[p]) /\ Goto(p, "redirected")
     \/ Replaces(p, l) /\ (Revoked(memory[p]) \/ UNCHANGED ended) /\ Goto(p, "end")
  /\ level' = Set(level, p, l)
  /\ memory' = Set(memory, p, None)
  /\ UNCHANGED <<kind, name, target, matched, previous, stored, lock, cacheLock, files,
                 sessions, rotations, ghosts, commands>>

(* The browser returns with the code of a new session. *)
Arrive(p) ==
  /\ pc[p] = "redirected"
  /\ sessions < MaxLogins
  /\ sessions' = sessions + 1
  /\ memory' = Set(memory, p, [session |-> sessions + 1, rotation |-> 0])
  /\ Goto(p, "writeOver")
  /\ UNCHANGED <<kind, name, target, level, matched, previous, stored, lock, cacheLock, files,
                 rotations, ended, ghosts, commands>>

(* Credential.WriteOver *)
WriteOver(p) ==
  /\ pc[p] = "writeOver"
  /\ CacheFree(p)
  /\ previous' = Set(previous, p, cache[name[p]])
  /\ SetCache(p, CacheOf(p))
  /\ Goto(p, "session")
  /\ UNCHANGED <<kind, name, target, level, memory, matched, stored, lock, cacheLock, profiles,
                 credentials, idp, ghosts, commands>>

(* A login that fails before it wrote its tokens has nothing to take back. *)
FailLogin(p) ==
  /\ pc[p] \in {"choose", "redirected", "writeOver"}
  /\ Goto(p, "end")
  /\ UNCHANGED <<command, lock, cacheLock, files, idp, ghosts, commands>>

(* storeSession: the credential and then the profiles, also where the credential could not *)
(* be stored.                                                                              *)
Store(p) ==
  /\ pc[p] = "session"
  /\ kind[p] = "login" /\ ~stored[p]
  /\ profiles' \in {profiles, profiles \cup {name[p]}}
  /\ \/ /\ credentials' = Set(credentials, name[p], level[p])
        /\ stored' = Set(stored, p, TRUE)
        /\ spoiled' = IF p \in overlapped THEN spoiled \cup {name[p]} ELSE spoiled \ {name[p]}
        /\ UNCHANGED pc
     \/ /\ Goto(p, "restore")
        /\ UNCHANGED <<credentials, stored, spoiled>>
  /\ UNCHANGED <<kind, name, target, level, memory, matched, previous, lock, cacheLock, cache,
                 idp, lost, abandoned, overlapped, commands>>

(* unlockAndRestore, of a login that stored its credential or failed before. *)
EndLogin(p) ==
  /\ pc[p] = "session"
  /\ kind[p] = "login"
  /\ Goto(p, IF stored[p] THEN "end" ELSE "restore")
  /\ UNCHANGED <<command, lock, cacheLock, files, idp, ghosts, commands>>

(* A mutation of Restore: it does not wait for who modifies the cache. *)
RestoreUnlocked(p) ==
  /\ pc[p] = "restore"
  /\ SetCache(p, previous[p])
  /\ abandoned' = abandoned \cup {memory[p].session}
  /\ Goto(p, "end")
  /\ UNCHANGED <<command, lock, cacheLock, profiles, credentials, idp, lost, overlapped, spoiled,
                 commands>>

(* The restore of Credential.WriteOver, which may fail. *)
Restore(p) ==
  /\ pc[p] = "restore"
  /\ CacheFree(p)
  /\ \/ /\ SetCache(p, previous[p])
        /\ abandoned' = abandoned \cup {memory[p].session}
        /\ UNCHANGED spoiled
     \/ /\ spoiled' = spoiled \cup {name[p]}
        /\ UNCHANGED <<cache, abandoned>>
  /\ Goto(p, "end")
  /\ UNCHANGED <<command, lock, cacheLock, profiles, credentials, idp, lost, overlapped, commands>>

-----------------------------------------------------------------------------
(* EndBrowserSession only warns of a session that it cannot end. *)
EndBrowserSession(p) ==
  /\ pc[p] = "revoke"
  /\ \/ UNCHANGED ended
     \/ memory[p] # None /\ Revoked(memory[p])
  /\ Goto(p, "removeCredentials")
  /\ UNCHANGED <<command, lock, cacheLock, files, sessions, rotations, ghosts, commands>>

(* moveCredentialsTo stores the credential that it read under the new name. *)
MoveCredentials(p) ==
  /\ pc[p] = "move"
  /\ credentials' = Set(credentials, target[p], level[p])
  /\ spoiled' = spoiled \cup {target[p]}
  /\ Goto(p, "removeCredentials")
  /\ UNCHANGED <<command, lock, cacheLock, profiles, cache, idp, lost, abandoned, overlapped, commands>>

(* RemoveCredentials removes the credentials, then the cache files without     *)
(* their lock.                                                                 *)
RemoveCredentials(p) ==
  /\ pc[p] = "removeCredentials"
  /\ credentials' = Set(credentials, name[p], None)
  /\ Goto(p, "removeCache")
  /\ UNCHANGED <<command, lock, cacheLock, profiles, cache, idp, ghosts, commands>>

LoggingIn(p, n) ==
  /\ kind[p] = "login" /\ name[p] = n /\ ~stored[p]
  /\ pc[p] \in {"session", "refresh", "write", "restore"}

(* The profiles that Profiles.Put and Profiles.Remove store in the end. *)
ProfilesAfter(p) ==
  CASE kind[p] = "delete" -> profiles \ {name[p]}
    [] kind[p] = "rename" -> (profiles \ {name[p]}) \cup {target[p]}
    [] OTHER -> profiles

RemoveCache(p) ==
  /\ pc[p] = "removeCache"
  /\ SetCache(p, None)
  /\ profiles' = ProfilesAfter(p)
  /\ overlapped' = overlapped \cup {q \in Process : LoggingIn(q, name[p])}
  /\ spoiled' = IF credentials[name[p]] # None THEN spoiled \cup {name[p]} ELSE spoiled
  /\ Goto(p, "end")
  /\ UNCHANGED <<command, lock, cacheLock, credentials, idp, lost, abandoned, commands>>

-----------------------------------------------------------------------------
(* A killed process leaves the files as they are; its locks end with it. *)
Crash(p) ==
  /\ pc[p] # "idle"
  /\ cacheLock' = [n \in Name |-> IF cacheLock[n] = p THEN None ELSE cacheLock[n]]
  /\ lost' = IF pc[p] = "write" THEN LostWith(p) ELSE lost
  /\ spoiled' = IF LoggingIn(p, name[p]) THEN spoiled \cup {name[p]} ELSE spoiled
  /\ Forget(p)
  /\ UNCHANGED <<files, idp, abandoned, commands>>

Use(p) == LockCache(p) \/ RefreshToken(p) \/ WriteCache(p) \/ EndUse(p)
LogIn(p) ==
  \/ \E l \in Level : Choose(p, l)
  \/ Arrive(p) \/ WriteOver(p) \/ FailLogin(p) \/ Store(p) \/ EndLogin(p) \/ Restore(p)
Edit(p) ==
  EndBrowserSession(p) \/ MoveCredentials(p) \/ RemoveCredentials(p) \/ RemoveCache(p)

Next == \E p \in Process :
  \/ \E k \in Kinds, n, m \in Name : Start(p, k, n, m)
  \/ LockProfiles(p) \/ ReadCredentials(p) \/ Load(p) \/ End(p)
  \/ Use(p) \/ LogIn(p) \/ Edit(p) \/ Crash(p)

Spec == Init /\ [][Next]_vars

-----------------------------------------------------------------------------
(* A login that fails leaves no token behind (login.go, WriteOver): whatever   *)
(* commands ran beside it, and used or removed its tokens, no cache file has a *)
(* refresh token of a login whose cache was put back.                          *)
FailedLoginLeavesNoToken ==
  \A n \in Name : cache[n] # None => cache[n].token.session \notin abandoned

(* No process is between the two writes of a login, or of a refresh. *)
Settled(n) == cacheLock[n] = None /\ \A p \in Process : ~LoggingIn(p, n)

(* A stored login has its tokens, and never those of another identity or a     *)
(* refresh token that was rotated away: whichever logins succeeded and failed  *)
(* beside it, the cache file is the one of the stored credential, and sending  *)
(* its refresh token does not end the session.  Excepted are the profiles that *)
(* a crashed login, a logout that ran into one, or a rename left half a login, *)
(* until the next login, and sessions whose new token was lost with a crash, a *)
(* failed write or an answer that did not arrive.                              *)
StoredLoginWorks ==
  \A n \in Name \ spoiled : (Settled(n) /\ credentials[n] # None) =>
    /\ cache[n] # None
    /\ cache[n].level = credentials[n]
    /\ \/ cache[n].token.session \in lost \cup ended
       \/ cache[n].token.rotation = rotations[cache[n].token.session]

(* What moveCredentialsTo says of a renamed profile, that new tokens are       *)
(* minted on next use: a login that had a refresh token has one under its new  *)
(* name.                                                                       *)
MovedLoginRenews ==
  [][\A p \in Process :
       (kind[p] = "rename" /\ pc[p] = "removeCache" /\ pc'[p] = "end" /\ Matches(p)) =>
         cache'[target[p]] # None]_vars

=============================================================================

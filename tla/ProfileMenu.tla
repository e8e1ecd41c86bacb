------------------------------ MODULE ProfileMenu ------------------------------
(***************************************************************************)
(* The terminal UI of meshstack profile: a list of the profiles, with a    *)
(* form, a dialog and a login, which run as messages to one loop.  The     *)
(* command holds the profiles, but for the logins that it starts; other    *)
(* commands change them as soon as nobody holds them.  ProfileLogin has    *)
(* what becomes of the credentials.                                        *)
(***************************************************************************)
EXTENDS Naturals, FiniteSets, Sequences

CONSTANTS
  Profile,       \* names of profiles
  Endpoint,      \* their endpoints
  FirstProfile,  \* the one that is stored at the start
  FirstEndpoint, \* and its endpoint
  MaxForms,      \* a bound on the forms, and on the changes of other commands
  MaxLoginKeys   \* a bound on the logins

NoProfile == "none"
Current == "current"

ASSUME MenuAssumption ==
  /\ {NoProfile, Current} \cap (Profile \cup Endpoint) = {}
  /\ FirstProfile \in Profile /\ FirstEndpoint \in Endpoint
  /\ MaxForms \in Nat \ {0} /\ MaxLoginKeys \in Nat

VARIABLES
  \* the configuration directory:
  file,          \* profiles.json: the endpoint of each profile, and the current one
  holder,        \* who holds the profiles
  \* the command:
  memory,        \* the profiles that it has loaded
  mode,          \* what it shows
  quitAfterForm, \* it is profile add or edit
  original,      \* the profile that is edited, deleted or none
  typed,         \* the endpoint in the form, none where it is not one
  form,          \* the number of the form, 0 for none
  forms,         \* how many there were
  workspacesFor, \* the endpoint whose workspaces the form suggests
  pending,       \* the lookups and ticks under way
  logins,        \* the logins that were started and not begun
  login,         \* the login that runs or has ended
  loginKeys,     \* how many there were
  \* other commands:
  changes,       \* how often they have changed the profiles
  \* ghosts:
  writer,        \* who has stored the profiles last
  touched,       \* what the person has changed since the profiles were loaded
  unguarded      \* a key was taken while the command did not hold the profiles

formVars == <<original, typed, form, forms, workspacesFor, pending>>
execVars == <<logins, login, loginKeys>>
fileVars == <<file, holder, writer, changes>>
menuVars == <<fileVars, memory, mode, quitAfterForm, formVars, execVars, touched, unguarded>>

Entry == Profile \cup {Current}
Profiles == {p \in [Entry -> Endpoint \cup Profile \cup {NoProfile}] :
               /\ \A n \in Profile : p[n] \in Endpoint \cup {NoProfile}
               /\ p[Current] \in Profile \cup {NoProfile}}
NoLogin == [of |-> NoProfile, step |-> "none"]
Tick(f) == [form |-> f, kind |-> "tick"]
Message == [form : 1..MaxForms, kind : {"tick"}]
             \cup [form : 1..MaxForms, kind : {"lookup"}, endpoint : Endpoint \cup {NoProfile}, known : BOOLEAN]

(* An open form has one lookup or tick under way, whichever forms closed while theirs ran. *)
MenuTypeOK ==
  /\ file \in Profiles /\ memory \in Profiles
  /\ holder \in {"menu", "login", "other", "nobody"}
  /\ writer \in {"menu", "login", "other"}
  /\ mode \in {"list", "form", "deletion", "quit"} /\ quitAfterForm \in BOOLEAN
  /\ original \in Profile \cup {NoProfile} /\ typed \in Endpoint \cup {NoProfile}
  /\ forms \in 0..MaxForms /\ form \in 0..forms
  /\ workspacesFor \in Endpoint \cup {NoProfile}
  /\ pending \subseteq Message
  /\ logins \in Seq(Profile) /\ loginKeys \in 0..MaxLoginKeys
  /\ login \in [of : Profile \cup {NoProfile},
                step : {"none", "started", "locked", "ended", "failed"}]
  /\ changes \in 0..MaxForms
  /\ touched \subseteq Entry /\ unguarded \in BOOLEAN
  /\ mode = "form" => Cardinality({m \in pending : m.form = form}) = 1

Stored(p) == {n \in Profile : p[n] # NoProfile}

-----------------------------------------------------------------------------
(* What stores the profiles, and what they are then.                       *)

PutAside(p, n) == [p EXCEPT ![n] = NoProfile]

(* Profiles.Put: edited in place of the original, or added.                *)
Put(p, o, n, e) ==
  LET without == IF o = NoProfile THEN p ELSE PutAside(p, o)
  IN [without EXCEPT ![n] = e,
                     ![Current] = IF @ \in {o, NoProfile} THEN n ELSE @]

(* Profiles.Remove: nobody picks the current one of several that are left. *)
RemoveProfile(p, n) ==
  LET left == Stored(p) \ {n}
  IN [PutAside(p, n) EXCEPT
        ![Current] = IF @ # n THEN @
                     ELSE IF Cardinality(left) = 1 THEN CHOOSE m \in left : TRUE
                     ELSE NoProfile]

Differs(p, q) == {n \in Entry : p[n] # q[n]}

(* The change stays in memory when it is not stored.                       *)
Store(p) ==
  /\ memory' = p
  /\ touched' = touched \cup Differs(memory, p)
  /\ \/ file' = p /\ writer' = "menu"
     \/ UNCHANGED <<file, writer>>

-----------------------------------------------------------------------------
(* The keys.  The loop takes them whenever it is not in the login.         *)

Looping == mode # "quit" /\ login.step \in {"none", "ended", "failed"}

Key ==
  /\ Looping
  /\ unguarded' = (unguarded \/ holder # "menu")

StaysIn(m) == mode' = m /\ UNCHANGED <<quitAfterForm, execVars>>

(* The lookup of a form: the profiles to ask are copied before it runs.    *)
LookUp(f, e, suggested) ==
  IF e = suggested THEN Tick(f)
  ELSE [form |-> f, kind |-> "lookup", endpoint |-> e,
        known |-> \E n \in Profile : memory[n] = e]

Highlighted(n) == n \in Stored(memory)

OpenForm(o, e) ==
  /\ forms + changes < MaxForms
  /\ original' = o /\ typed' = e /\ workspacesFor' = NoProfile
  /\ forms' = forms + 1 /\ form' = forms + 1
  /\ pending' = pending \cup {LookUp(forms + 1, e, NoProfile)}

PressAdd ==
  /\ Key /\ mode = "list"
  /\ OpenForm(NoProfile, NoProfile)
  /\ StaysIn("form")
  /\ UNCHANGED <<fileVars, memory, touched>>

PressEdit(n) ==
  /\ Key /\ mode = "list" /\ Highlighted(n)
  /\ OpenForm(n, memory[n])
  /\ StaysIn("form")
  /\ UNCHANGED <<fileVars, memory, touched>>

PressDelete(n) ==
  /\ Key /\ mode = "list" /\ Highlighted(n)
  /\ original' = n
  /\ StaysIn("deletion")
  /\ UNCHANGED <<fileVars, memory, touched, typed, form, forms, workspacesFor, pending>>

PressUse(n) ==
  /\ Key /\ mode = "list" /\ Highlighted(n)
  /\ Store([memory EXCEPT ![Current] = n])
  /\ StaysIn("list")
  /\ UNCHANGED <<holder, changes, formVars>>

Unlocked == IF holder = "menu" THEN "nobody" ELSE holder

(* The lock is released before the loop gets to the login.                 *)
PressLogin(n) ==
  /\ Key /\ mode = "list" /\ Highlighted(n)
  /\ loginKeys < MaxLoginKeys /\ loginKeys' = loginKeys + 1
  /\ holder' = Unlocked
  /\ logins' = Append(logins, n)
  /\ UNCHANGED <<file, writer, changes, memory, mode, quitAfterForm, formVars, login, touched>>

CloseForm == form' = 0 /\ original' = NoProfile /\ typed' = NoProfile /\ workspacesFor' = NoProfile

(* finish: a form of its own command ends the program.                     *)
FinishTo(m) == IF quitAfterForm THEN "quit" ELSE m
Finish ==
  /\ CloseForm
  /\ mode' = FinishTo("list")
  /\ holder' = IF mode' = "quit" THEN Unlocked ELSE holder
  /\ pending' = IF mode' = "quit" THEN {} ELSE pending
  /\ UNCHANGED <<quitAfterForm, execVars, forms, changes>>

Quit ==
  /\ Key
  /\ mode' = "quit" /\ holder' = Unlocked
  /\ CloseForm /\ pending' = {}
  /\ UNCHANGED <<file, writer, changes, memory, quitAfterForm, forms, execVars, touched>>

-----------------------------------------------------------------------------
(* The form and the dialog.                                                *)

Type(e) ==
  /\ Key /\ mode = "form" /\ typed # e
  /\ typed' = e
  /\ StaysIn("form")
  /\ UNCHANGED <<fileVars, memory, touched, original, form, forms, workspacesFor, pending>>

NameFree(n) == memory[n] = NoProfile \/ n = original

(* A name that is taken, or credentials that cannot be moved, change nothing.            *)
Submitted(n) ==
  /\ Key /\ mode = "form" /\ typed # NoProfile
  /\ \/ NameFree(n) /\ Store(Put(memory, original, n, typed))
     \/ UNCHANGED <<file, writer, memory, touched>>
  /\ Finish

Cancelled ==
  /\ Key /\ mode \in {"form", "deletion"}
  /\ Finish
  /\ UNCHANGED <<file, writer, memory, touched>>

(* The profile may have gone with the profiles that a login has loaded anew.             *)
Confirmed ==
  /\ Key /\ mode = "deletion"
  /\ \/ Highlighted(original) /\ Store(RemoveProfile(memory, original))
     \/ UNCHANGED <<file, writer, memory, touched>>
  /\ Finish

(* Only the lookup of the form that is open goes on.                       *)
Answered(m, answer) ==
  pending' = (pending \ {m}) \cup {a \in {answer} : m.form = form}

(* Whether the credentials of the profiles of that endpoint reach a workspace in time.    *)
KnownWorkspaces(m) == IF m.known THEN BOOLEAN ELSE {FALSE}

WorkspacesLookedUp(m) ==
  /\ Looping /\ m.kind = "lookup"
  /\ \E found \in KnownWorkspaces(m) :
       workspacesFor' = IF m.form = form /\ m.endpoint = typed /\ found THEN m.endpoint
                                                                           ELSE workspacesFor
  /\ Answered(m, Tick(form))
  /\ UNCHANGED <<fileVars, memory, mode, quitAfterForm, original, typed, form, forms, execVars,
                 touched, unguarded>>

WorkspaceLookupDue(m) ==
  /\ Looping /\ m.kind = "tick"
  /\ Answered(m, LookUp(form, typed, workspacesFor))
  /\ UNCHANGED <<fileVars, memory, mode, quitAfterForm, original, typed, form, forms,
                 workspacesFor, execVars, touched, unguarded>>

-----------------------------------------------------------------------------
(* The login, in the terminal that the program gives up for it.            *)

Exec ==
  /\ Looping /\ login.step = "none" /\ logins # <<>>
  /\ login' = [of |-> Head(logins), step |-> "started"] /\ logins' = Tail(logins)
  /\ UNCHANGED <<fileVars, memory, mode, quitAfterForm, formVars, loginKeys, touched, unguarded>>

LoginStep(from, to) ==
  /\ login.step = from
  /\ login' = [login EXCEPT !.step = to]
  /\ UNCHANGED <<memory, mode, quitAfterForm, formVars, logins, loginKeys, touched, unguarded>>

LoginLocks ==
  /\ LoginStep("started", "locked")
  /\ holder = "nobody" /\ holder' = "login"
  /\ UNCHANGED <<file, writer, changes>>

(* The profile of the login is the current one; one that is not there any more is made.  *)
LoginStores ==
  /\ LoginStep("locked", "ended")
  /\ \E e \in Endpoint :
       file' = [file EXCEPT ![Current] = login.of, ![login.of] = IF @ = NoProfile THEN e ELSE @]
  /\ writer' = "login" /\ holder' = "nobody"
  /\ UNCHANGED changes

(* Others may hold the profiles, and the person may give up.               *)
LoginFails ==
  /\ \/ LoginStep("started", "failed") /\ UNCHANGED holder
     \/ LoginStep("locked", "failed") /\ holder' = "nobody"
  /\ UNCHANGED <<file, writer, changes>>

(* Mutation: what the login and others have stored meanwhile is not loaded.              *)
LoggedInStale ==
  /\ Looping /\ login.step = "ended" /\ login' = NoLogin
  /\ holder = "nobody" /\ holder' = "menu"
  /\ CloseForm
  /\ mode' = IF mode = "deletion" THEN mode ELSE FinishTo("list")
  /\ UNCHANGED <<file, writer, changes, quitAfterForm, forms, pending, logins, loginKeys,
                 memory, touched, unguarded>>

(* The profiles are locked and loaded anew; a dialog stays.                *)
LoggedIn ==
  /\ Looping /\ login.step = "ended" /\ login' = NoLogin
  /\ holder = "nobody" /\ holder' = "menu"
  /\ memory' = file /\ touched' = {}
  /\ form' = 0 /\ typed' = NoProfile /\ workspacesFor' = NoProfile
  /\ original' = IF mode = "deletion" THEN original ELSE NoProfile
  /\ mode' = IF mode = "deletion" THEN mode ELSE "list"
  /\ UNCHANGED <<file, writer, changes, quitAfterForm, forms, pending, logins, loginKeys, unguarded>>

(* Else the program ends.                                                  *)
LoginEnds ==
  /\ Looping /\ login' = NoLogin
  /\ login.step = "failed" \/ (login.step = "ended" /\ holder # "nobody")
  /\ mode' = "quit" /\ holder' = Unlocked
  /\ CloseForm /\ pending' = {}
  /\ UNCHANGED <<file, writer, changes, memory, quitAfterForm, forms, logins, loginKeys,
                 touched, unguarded>>

-----------------------------------------------------------------------------
(* Other commands, as long as this one runs.                               *)

OtherLocks ==
  /\ mode # "quit" /\ holder = "nobody" /\ forms + changes < MaxForms
  /\ holder' = "other" /\ changes' = changes + 1
  /\ UNCHANGED <<file, writer, memory, mode, quitAfterForm, formVars, execVars, touched, unguarded>>

OtherStores(n, e) ==
  /\ holder = "other"
  /\ \/ file' = Put(file, IF file[n] = NoProfile THEN NoProfile ELSE n, n, e)
     \/ n \in Stored(file) /\ file' \in {RemoveProfile(file, n), [file EXCEPT ![Current] = n]}
  /\ writer' = "other" /\ holder' = "nobody"
  /\ UNCHANGED <<changes, memory, mode, quitAfterForm, formVars, execVars, touched, unguarded>>

Pressed(n) ==
  PressEdit(n) \/ PressDelete(n) \/ PressUse(n) \/ PressLogin(n) \/ Submitted(n)

MenuStep ==
  \/ PressAdd \/ Quit \/ Cancelled \/ Confirmed
  \/ \E n \in Profile : Pressed(n)
  \/ \E e \in Endpoint \cup {NoProfile} : Type(e)
  \/ \E m \in pending : WorkspacesLookedUp(m) \/ WorkspaceLookupDue(m)
  \/ Exec \/ LoginLocks \/ LoginStores \/ LoginFails \/ LoggedIn \/ LoginEnds
  \/ OtherLocks \/ \E n \in Profile, e \in Endpoint : OtherStores(n, e)

MenuInit ==
  /\ file = [n \in Entry |-> IF n = FirstProfile THEN FirstEndpoint
                             ELSE IF n = Current THEN FirstProfile ELSE NoProfile]
  /\ memory = file /\ holder = "menu" /\ writer = "menu"
  /\ quitAfterForm \in BOOLEAN
  /\ mode = IF quitAfterForm THEN "form" ELSE "list"
  /\ original \in {NoProfile} \cup IF quitAfterForm THEN Stored(memory) ELSE {}
  /\ typed = IF original = NoProfile THEN NoProfile ELSE memory[original]
  /\ workspacesFor = NoProfile
  /\ form = (IF quitAfterForm THEN 1 ELSE 0) /\ forms = form
  /\ pending = IF quitAfterForm THEN {LookUp(1, typed, NoProfile)} ELSE {}
  /\ logins = <<>> /\ login = NoLogin /\ loginKeys = 0 /\ changes = 0
  /\ touched = {} /\ unguarded = FALSE

-----------------------------------------------------------------------------
(* What another command, or the login, has stored while the list did not hold the        *)
(* profiles is not stored over: the list changes what the person changes.  Excepted are   *)
(* keys that are taken before the login begins, or before its end is known (unguarded).   *)
OnlyItsChange ==
  [][writer' = "menu" => Differs(file, file') \subseteq touched' \/ unguarded']_menuVars

(* "no other such command stores over what this one changes" (LoadProfilesOptions): with  *)
(* every key that the list takes.                                                         *)
NothingStoredOver ==
  [][writer' = "menu" => Differs(file, file') \subseteq touched']_menuVars
=============================================================================

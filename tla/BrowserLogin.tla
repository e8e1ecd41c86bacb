----------------------------- MODULE BrowserLogin -----------------------------
(***************************************************************************)
(* The wait for a person in the browser: the pages that the loopback server*)
(* shows, the identity provider they lead to, and the code that comes back.*)
(* A person may have several tabs of one login open, and the handlers of   *)
(* the server run beside each other and beside the login.                  *)
(***************************************************************************)
EXTENDS Naturals

CONSTANTS
  Tab,            \* tabs of the browser
  AccessLevels,   \* the access levels that the page offers
  AccessFull      \* the one that limits nothing

NoLevel == "none"
NoTab == "none"

ASSUME LevelAssumption == AccessFull \in AccessLevels /\ NoLevel \notin AccessLevels
ASSUME TabAssumption == NoTab \notin Tab

Levels == AccessLevels \cup {NoLevel}

VARIABLES
  \* the command:
  loginPc,        \* where the login is
  replaced,       \* the login that the new one replaces
  chosen,         \* the access level that was chosen last
  arrived,        \* the tab whose callback came first
  granted,        \* the access level that the login returns
  \* the browser:
  tab,            \* what each tab shows or waits for
  picked,         \* the access level that was submitted in it
  code,           \* whether its code is one that the identity provider takes
  \* the identity provider:
  supportsLevels, \* meshStack has the scopes of the access levels
  offline,        \* the access level of the offline session's first login
  previousLives   \* it is the session of the login that is replaced

loginVars == <<loginPc, replaced, chosen, arrived, granted>>
tabVars == <<tab, picked, code>>
idpVars == <<supportsLevels, offline, previousLives>>
browserVars == <<loginVars, tabVars, idpVars>>

BrowserTypeOK ==
  /\ loginPc \in {"waiting", "exchange", "done", "failed"}
  /\ replaced \in [level : Levels, refreshToken : BOOLEAN]
  /\ chosen \in Levels /\ granted \in Levels
  /\ arrived \in Tab \cup {NoTab, "error"}
  /\ tab \in [Tab -> {"closed", "form", "revoking", "revoked", "authorize", "redirect"}]
  /\ picked \in [Tab -> Levels] /\ code \in [Tab -> BOOLEAN]
  /\ supportsLevels \in BOOLEAN
  /\ offline \in Levels /\ previousLives \in BOOLEAN

(* cmp.Or(p.Level, meshstack.AccessFull)                                   *)
LevelOf(l) == IF l = NoLevel THEN AccessFull ELSE l

BrowserInit ==
  /\ loginPc = "waiting" /\ chosen = NoLevel /\ granted = NoLevel /\ arrived = NoTab
  /\ replaced \in [level : Levels, refreshToken : BOOLEAN]
  /\ replaced.level # NoLevel => replaced.refreshToken
  /\ tab = [t \in Tab |-> "closed"] /\ picked = [t \in Tab |-> NoLevel]
  /\ code = [t \in Tab |-> FALSE]
  /\ supportsLevels \in BOOLEAN
  /\ offline = IF replaced.refreshToken THEN LevelOf(replaced.level) ELSE NoLevel
  /\ previousLives = replaced.refreshToken

Shows(t, what) == tab' = [tab EXCEPT ![t] = what]

(* The first result stays.                                                 *)
Arrives(result) == arrived' = IF arrived = NoTab THEN result ELSE arrived

-----------------------------------------------------------------------------
(* The pages.                                                              *)

(* The server takes requests as long as the login waits.                   *)
AskForAccessLevel(t) ==
  /\ loginPc = "waiting" /\ tab[t] = "closed"
  /\ Shows(t, "form")
  /\ UNCHANGED <<loginVars, picked, code, idpVars>>

(* Mutation: the session of the previous login stays.                      *)
EndsPreviousNever(l) == FALSE
EndsPrevious(l) == replaced.refreshToken /\ LevelOf(replaced.level) # l

(* A form of another login, or a level that the page does not offer, goes no further.      *)
Submit(t, l) ==
  /\ loginPc = "waiting" /\ tab[t] = "form"
  /\ Shows(t, IF EndsPrevious(l) THEN "revoking" ELSE "revoked")
  /\ picked' = [picked EXCEPT ![t] = l]
  /\ UNCHANGED <<loginVars, code, idpVars>>

(* A revocation ends the offline session, and with it every code of that session.        *)
EndSession ==
  IF previousLives
  THEN offline' = NoLevel /\ previousLives' = FALSE /\ code' = [t \in Tab |-> FALSE]
  ELSE UNCHANGED <<offline, previousLives, code>>

Revoke(t) ==
  /\ tab[t] = "revoking"
  /\ EndSession
  /\ Shows(t, "revoked")
  /\ UNCHANGED <<loginVars, picked, supportsLevels>>

(* One that fails may have ended the session.                              *)
RevokeFails(t) ==
  /\ tab[t] = "revoking"
  /\ EndSession \/ UNCHANGED <<offline, previousLives, code>>
  /\ Shows(t, "closed") /\ Arrives("error")
  /\ UNCHANGED <<loginPc, replaced, chosen, granted, picked, supportsLevels>>

RedirectToIdentityProvider(t) ==
  /\ tab[t] = "revoked"
  /\ chosen' = picked[t]
  /\ Shows(t, "authorize")
  /\ UNCHANGED <<loginPc, replaced, arrived, granted, picked, code, idpVars>>

(* The identity provider sends the browser back with a code, or refuses; nobody waits for *)
(* it once the login has ended.                                                           *)
Authorize(t) ==
  /\ tab[t] = "authorize" /\ loginPc = "waiting"
  /\ Shows(t, "redirect")
  /\ code' \in {[code EXCEPT ![t] = TRUE], code}
  /\ UNCHANGED <<loginVars, picked, idpVars>>

(* A refusal, a callback of another login and one without a code are errors; a code that *)
(* was revoked meanwhile is as good as any here.                                          *)
ReceiveRedirect(t) ==
  /\ loginPc = "waiting" /\ tab[t] = "redirect"
  /\ Shows(t, "closed")
  /\ Arrives(t) \/ (~code[t] /\ Arrives("error"))
  /\ UNCHANGED <<loginPc, replaced, chosen, granted, picked, code, idpVars>>

-----------------------------------------------------------------------------
(* The login.                                                              *)

Await ==
  /\ loginPc = "waiting" /\ arrived # NoTab
  /\ loginPc' = IF arrived = "error" THEN "failed" ELSE "exchange"
  /\ UNCHANGED <<replaced, chosen, arrived, granted, tabVars, idpVars>>

(* Five minutes have passed, or Ctrl-C.                                    *)
GiveUpLogin ==
  /\ loginPc \in {"waiting", "exchange"}
  /\ loginPc' = "failed"
  /\ UNCHANGED <<replaced, chosen, arrived, granted, tabVars, idpVars>>

(* The scopes that the identity provider grants to a code.                 *)
HasScope(t, l) == supportsLevels /\ picked[t] = l

ChosenLevel ==
  /\ loginPc' = IF HasScope(arrived, chosen) \/ chosen = AccessFull THEN "done" ELSE "failed"
  /\ granted' = IF HasScope(arrived, chosen) THEN chosen ELSE NoLevel

(* The tokens belong to the offline session that there is.                 *)
Exchange ==
  /\ loginPc = "exchange" /\ code[arrived]
  /\ code' = [code EXCEPT ![arrived] = FALSE]
  /\ offline' = IF offline = NoLevel THEN picked[arrived] ELSE offline
  /\ ChosenLevel
  /\ UNCHANGED <<replaced, chosen, arrived, tab, picked, supportsLevels, previousLives>>

ExchangeFails ==
  /\ loginPc = "exchange"
  /\ loginPc' = "failed"
  /\ UNCHANGED <<replaced, chosen, arrived, granted, tabVars, idpVars>>

PageSteps(t) ==
  \/ AskForAccessLevel(t) \/ \E l \in AccessLevels : Submit(t, l)
  \/ Revoke(t) \/ RevokeFails(t) \/ RedirectToIdentityProvider(t)
  \/ Authorize(t) \/ ReceiveRedirect(t)

BrowserStep ==
  \/ loginPc # "failed" /\ \E t \in Tab : PageSteps(t)
  \/ Await \/ GiveUpLogin \/ Exchange \/ ExchangeFails

-----------------------------------------------------------------------------
(* The access level that a login returns is the one of its tokens and the one that their *)
(* refreshes keep, whichever tabs submitted which level in between: neither the level of *)
(* another tab, nor that of the login it replaces.                                        *)
LevelIsKept ==
  loginPc = "done" /\ granted # NoLevel =>
    /\ picked[arrived] = granted
    /\ offline \in {granted, NoLevel}
=============================================================================

-------------------------------- MODULE Commands --------------------------------
(***************************************************************************)
(* What a command does beside the state that it shares with others: a call *)
(* of the HTTP client, a listing, the download of the API docs; the login  *)
(* in the browser, the profile list, the log behind it, the questions; the *)
(* way from the settings to a credential, its status, the choices of a     *)
(* login, the use of the API docs and their description; tfstate exec      *)
(* around its command.                                                     *)
(* These parts share no state: of a call, a listing and a download only see*)
(* whether it succeeds, and so does the list of a login.  One of them      *)
(* happens.                                                                *)
(***************************************************************************)
EXTENDS HttpCall, Listing, Download, BrowserLogin, ProfileMenu, HeldLogs, Prompts, Resolving,
        AuthStatus, LoginChoice, ApiDescription, TofuExec

CONSTANT Parts

VARIABLE part     \* the part that happens

requestVars == <<callVars, listVars, downloadVars>>
personVars == <<browserVars, menuVars, holdVars, promptVars>>
settingsVars == <<resolveVars, statusVars, choiceVars>>
docsVars == <<openApiVars, describeVars>>
vars == <<requestVars, personVars, settingsVars, docsVars, tofuVars, part>>

(* The parts that do not happen begin in one way, and stay there.          *)
Is(p) == part = p

(* Every variable keeps its type: a wait stays within the limits for one, nothing is read *)
(* that was not stored, no step runs twice.                                               *)
PartsTypeOK ==
  /\ part \in Parts
  /\ Is("call") => CallTypeOK
  /\ Is("list") => ListTypeOK
  /\ Is("docs") => DownloadTypeOK
  /\ Is("browser") => BrowserTypeOK
  /\ Is("menu") => MenuTypeOK
  /\ Is("logs") => HoldTypeOK
  /\ Is("questions") => PromptTypeOK
  /\ Is("settings") => ResolveTypeOK
  /\ Is("status") => StatusTypeOK
  /\ Is("login") => LoginTypeOK
  /\ Is("describe") => DescribeTypeOK
  /\ Is("exec") => ExecTypeOK

RequestsInit ==
  /\ Is("call") \/ call = "get"
  /\ Is("list") \/ (time = 0 /\ limit = 0 /\ merged = TRUE /\ takesUntil = TRUE)
  /\ Is("docs") \/ always = TRUE
  /\ CallInit /\ ListInit /\ DownloadInit

PersonInit ==
  /\ Is("browser") \/ (replaced = [level |-> NoLevel, refreshToken |-> FALSE]
                       /\ supportsLevels = FALSE)
  /\ Is("menu") \/ quitAfterForm = FALSE
  /\ Is("logs") \/ handler = [w \in Logger |-> "held"]
  /\ Is("questions") \/ terminal = FALSE
  /\ BrowserInit /\ MenuInit /\ HoldInit /\ PromptInit

SettingsInit ==
  /\ \/ Is("settings")
     \/ /\ stored = [n \in ProfileName |-> [endpoint |-> NoUrl, selects |-> FALSE]]
        /\ named = NotGiven /\ explicit = NoUrl /\ target = NoUrl /\ supplied = 0
  /\ \/ Is("status")
     \/ /\ keeps = [n \in CredentialName |-> NoIdentity] /\ provided = {} /\ worksIn = "none"
        /\ tokenFile = [n \in CredentialName |-> NoCache]
  /\ \/ Is("login")
     \/ /\ with = "browser" /\ secretOnStdin = FALSE /\ givenName = Nobody /\ givenPlace = NoPlace
        /\ givenEndpoint = FALSE
        /\ kept = [names |-> {}, current |-> Nobody, place |-> [n \in StorableName |-> NoPlace],
                   loggedIn |-> {}]
  /\ ResolveInit /\ StatusInit /\ LoginInit

DocsInit ==
  /\ \/ Is("openapi")
     \/ /\ requestPc = "printing" /\ spec = {}
        /\ refersTo = [c \in Component |-> {}] /\ printedRefs = {}
  /\ \/ Is("describe")
     \/ /\ describePc = "reading" /\ root = Scalar
        /\ components = [c \in Component |-> Scalar]
  /\ OpenApiInit /\ DescribeInit

TofuInit ==
  /\ \/ Is("exec")
     \/ /\ access = "read" /\ overrides = FALSE /\ stdinTerminal = TRUE /\ foreground = TRUE
        /\ found = "none"
  /\ ExecInit

Init ==
  /\ part \in Parts
  /\ RequestsInit /\ PersonInit /\ SettingsInit /\ DocsInit /\ TofuInit

othersVars == <<settingsVars, docsVars, tofuVars>>

Call == Is("call") /\ CallStep /\ UNCHANGED <<listVars, downloadVars, personVars, othersVars>>
List == Is("list") /\ ListStep /\ UNCHANGED <<callVars, downloadVars, personVars, othersVars>>
Docs == Is("docs") /\ DownloadStep /\ UNCHANGED <<callVars, listVars, personVars, othersVars>>

Browser ==
  /\ Is("browser") /\ BrowserStep
  /\ UNCHANGED <<requestVars, menuVars, holdVars, promptVars, othersVars>>
Menu ==
  /\ Is("menu") /\ MenuStep
  /\ UNCHANGED <<requestVars, browserVars, holdVars, promptVars, othersVars>>
Logs ==
  /\ Is("logs") /\ HoldStep
  /\ UNCHANGED <<requestVars, browserVars, menuVars, promptVars, othersVars>>
Questions ==
  /\ Is("questions") /\ PromptStep
  /\ UNCHANGED <<requestVars, browserVars, menuVars, holdVars, othersVars>>

Settings ==
  /\ Is("settings") /\ ResolveStep
  /\ UNCHANGED <<requestVars, personVars, statusVars, choiceVars, docsVars, tofuVars>>
Status ==
  /\ Is("status") /\ StatusStep
  /\ UNCHANGED <<requestVars, personVars, resolveVars, choiceVars, docsVars, tofuVars>>
Login ==
  /\ Is("login") /\ LoginSteps
  /\ UNCHANGED <<requestVars, personVars, resolveVars, statusVars, docsVars, tofuVars>>
ApiDocs ==
  /\ Is("openapi") /\ OpenApiStep
  /\ UNCHANGED <<requestVars, personVars, settingsVars, describeVars, tofuVars>>
Describe ==
  /\ Is("describe") /\ DescribeStep
  /\ UNCHANGED <<requestVars, personVars, settingsVars, openApiVars, tofuVars>>
TofuStateExec == Is("exec") /\ ExecStep /\ UNCHANGED <<requestVars, personVars, settingsVars, docsVars>>

Next ==
  /\ \/ Call \/ List \/ Docs
     \/ Browser \/ Menu \/ Logs \/ Questions
     \/ Settings \/ Status \/ Login \/ ApiDocs \/ Describe \/ TofuStateExec
  /\ UNCHANGED part

(* Some command that reads the API docs goes on, and the next one begins.  *)
DownloadFairness ==
  WF_downloadVars(Is("docs") /\ \E r \in Reader : Downloading(r) \/ Works(r))

Spec == Init /\ [][Next]_vars /\ DownloadFairness
=============================================================================

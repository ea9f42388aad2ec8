---------------------------- MODULE WebControls ----------------------------
(***************************************************************************)
(* The helpers of Butler/webapp/advanced/ravenna/widget/Common.js that the *)
(* pages of the web application are built from: buttons and multi-select   *)
(* checks with their DOM listeners and timers, requests to the server,     *)
(* cookies, and the detection of the browser.                              *)
(*                                                                         *)
(* The page is external: it calls the helpers in any order, and its        *)
(* OnClickFunc may throw.  The DOM is external too: a mousedown runs every *)
(* listener of the element.  The helpers share no state, so each behaviour *)
(* uses one part of them (the variable part).                              *)
(***************************************************************************)
EXTENDS Integers, Sequences, FiniteSets, FiniteSetsExt, SequencesExt

CONSTANTS
  Checks,         \* number of checks of a multi-select
  MaxListeners,   \* bound: listeners of one element
  MaxTimers,      \* bound: pending time-outs of the button
  MaxRequests,    \* bound: requests of one page
  CookieNames,    \* sequences of characters
  CookieValues,
  MaxDays,        \* bound: lifetime of a cookie, and days that pass
  Navigators      \* what navigator and window say: see Fits

ASSUME BoundsAssumption ==
  {Checks, MaxListeners, MaxTimers, MaxRequests, MaxDays} \subseteq Nat \ {0}

VARIABLES
  part,           \* the helpers this page uses
  listeners,      \* number of closures that listen for mousedown on the button
  fnMouseDown,    \* eButton.fnMouseDown is one of them, not null
  color,          \* of the button
  timers,         \* pending calls of OnButtonUp
  threw,          \* history: every OnClickFunc of the last mousedown threw
  check,          \* check[i]: [_Enable, _Selected, color]
  checkListeners, \* closures that listen on each check
  attached,       \* history: whether the page thinks the checks are attached
  painted,        \* history: the checks were painted since they were attached
  requests,       \* sequence of [sync, handler, state, handled], in the order of sending
  arrived,        \* requests as the server got them
  cookie,         \* the browser's cookies: cookie[name] is NONE or [value, expires]
  written,        \* history: written[name] is NONE or [value, days, since]
  today,
  browser         \* BrowserDetect

buttonVars == <<listeners, fnMouseDown, color, timers, threw>>
checkVars == <<check, checkListeners, attached, painted>>
ajaxVars == <<requests, arrived>>
cookieVars == <<cookie, written, today>>
vars == <<part, buttonVars, checkVars, ajaxVars, cookieVars, browser>>

NONE == <<>>
Session == -1       \* expires with the session

\* The bounds, and that no handler hears of its request more than twice: when it is sent
\* and when it ends.
TypeOK ==
  /\ part \in {"button", "check", "ajax", "cookie"}
  /\ listeners \in 0..MaxListeners /\ {fnMouseDown, threw} \subseteq BOOLEAN
  /\ color \in {"up", "down", "checked"} /\ timers \in 0..MaxTimers
  /\ check \in [1..Checks -> [_Enable : BOOLEAN, _Selected : BOOLEAN,
                              color : {"selected", "plain", "disabled"}]]
  /\ checkListeners \in 0..MaxListeners /\ {attached, painted} \subseteq BOOLEAN
  /\ requests \in Seq([sync : BOOLEAN, handler : BOOLEAN,
                      state : {"sent", "answered", "failed"}, handled : 0..2])
  /\ arrived \in Seq(1..MaxRequests)
  /\ cookie \in [CookieNames -> {NONE} \cup [value : CookieValues,
                                               expires : (0..(2 * MaxDays)) \cup {Session}]]
  /\ today \in 0..MaxDays

-----------------------------------------------------------------------------
(***************************************************************************)
(* BrowserDetect: tables searched from the top                             *)
(***************************************************************************)
Row(from, subString, identity, versionSearch) ==
  [from |-> from, subString |-> subString, identity |-> identity, versionSearch |-> versionSearch]

dataBrowser ==
  << Row("userAgent", "Chrome", "Chrome", "Chrome"),
     Row("userAgent", "OmniWeb", "OmniWeb", "OmniWeb/"),
     Row("vendor", "Apple", "Safari", "Version"),
     Row("opera", "opera", "Opera", "Version"),
     Row("vendor", "iCab", "iCab", "iCab"),
     Row("vendor", "KDE", "Konqueror", "Konqueror"),
     Row("userAgent", "Firefox", "Firefox", "Firefox"),
     Row("vendor", "Camino", "Camino", "Camino"),
     Row("userAgent", "Netscape", "Netscape", "Netscape"),
     Row("userAgent", "MSIE", "Explorer", "MSIE"),
     Row("userAgent", "Gecko", "Mozilla", "rv"),
     Row("userAgent", "Mozilla", "Netscape", "Mozilla") >>

dataOS ==
  << Row("platform", "Win", "Windows", "Windows"),
     Row("platform", "Mac", "Mac", "Mac"),
     Row("userAgent", "iPhone", "iPhone/iPod", "iPhone/iPod"),
     Row("platform", "Linux", "Linux", "Linux") >>

\* A navigator is a function from the properties to the substrings they contain; opera
\* and ActiveXObject are those of window.
Fits(navigator, row) == row.subString \in navigator[row.from]

\* The first row that fits, or the length of the table plus one.
FirstRow(data, navigator) ==
  Min({i \in DOMAIN data : Fits(navigator, data[i])} \cup {Len(data) + 1})

\* searchString gives the identity and leaves in versionSearchString the search string
\* of the last row it looked at.
searchString(data, navigator) ==
  LET i == FirstRow(data, navigator)
  IN IF i \in DOMAIN data
     THEN [identity |-> data[i].identity, versionSearchString |-> data[i].versionSearch]
     ELSE [identity |-> "unknown", versionSearchString |-> Last(data).versionSearch]

searchVersion(versionSearchString, navigator) ==
  IF versionSearchString \in navigator["userAgent"] \cup navigator["appVersion"]
  THEN versionSearchString ELSE "unknown"

\* Mutant: the operating system is searched before the version.
BrowserInit_OSFirst(navigator) ==
  LET b  == searchString(dataBrowser, navigator)
      os == searchString(dataOS, navigator)
  IN [browser |-> b.identity, OS |-> os.identity,
      version |-> searchVersion(os.versionSearchString, navigator)]

\* BrowserDetect.init; the version stands for the number after the string found.
BrowserInit(navigator) ==
  LET b  == searchString(dataBrowser, navigator)
      os == searchString(dataOS, navigator)
  IN [browser |-> b.identity, OS |-> os.identity,
      version |-> searchVersion(b.versionSearchString, navigator)]

ActiveX(navigator) == navigator["ActiveXObject"] # {}

-----------------------------------------------------------------------------
Init ==
  /\ part \in {"button", "check", "ajax", "cookie"}
  /\ listeners = 0 /\ fnMouseDown = FALSE /\ color = "up" /\ timers = 0 /\ threw = FALSE
  /\ check = [i \in 1..Checks |-> [_Enable |-> FALSE, _Selected |-> FALSE, color |-> "plain"]]
  /\ checkListeners = 0 /\ attached = FALSE /\ painted = FALSE
  /\ requests = <<>> /\ arrived = <<>>
  /\ cookie = [name \in CookieNames |-> NONE] /\ written = cookie /\ today = 0
  /\ \E n \in Navigators : browser = [detected |-> BrowserInit(n), navigator |-> n]

-----------------------------------------------------------------------------
(***************************************************************************)
(* Buttons                                                                 *)
(***************************************************************************)
\* AddEvent adds one to the listeners of an element, and DetachEvent takes away the one it
\* is given, if that listens: the DOM wants the very same closure.
AddEvent(n) == n + 1
DetachEvent(n, listens) == IF listens THEN n - 1 ELSE n

\* The new closure is kept in the element, in the place of a former one, which goes on
\* listening: nobody can name it any more.
AttachButton ==
  /\ part = "button" /\ listeners < MaxListeners
  /\ listeners' = AddEvent(listeners) /\ fnMouseDown' = TRUE
  /\ UNCHANGED <<part, color, timers, threw, checkVars, ajaxVars, cookieVars, browser>>

\* The closure in the element, or null, which is no listener.
DetachButton ==
  /\ part = "button"
  /\ listeners' = DetachEvent(listeners, fnMouseDown) /\ fnMouseDown' = FALSE
  /\ UNCHANGED <<part, color, timers, threw, checkVars, ajaxVars, cookieVars, browser>>

\* Mutant: no time-out brings the button up.
ButtonDown_Stays(thrown) ==
  /\ part = "button" /\ thrown \in 0..listeners
  /\ listeners > 0 /\ timers + listeners - thrown <= MaxTimers
  /\ color' = "down" /\ UNCHANGED timers /\ threw' = (thrown = listeners)
  /\ UNCHANGED <<part, listeners, fnMouseDown, checkVars, ajaxVars, cookieVars, browser>>

\* A mousedown: every listener calls OnButtonDown, the page's OnClickFunc, and, unless that
\* throws, sets a time-out for OnButtonUp.
ButtonDown(thrown) ==
  /\ part = "button" /\ thrown \in 0..listeners
  /\ listeners > 0 /\ timers + listeners - thrown <= MaxTimers
  /\ color' = "down" /\ timers' = timers + listeners - thrown
  /\ threw' = (thrown = listeners)
  /\ UNCHANGED <<part, listeners, fnMouseDown, checkVars, ajaxVars, cookieVars, browser>>

\* 200 ms later.
OnButtonUp ==
  /\ timers > 0
  /\ color' = "up" /\ timers' = timers - 1
  /\ UNCHANGED <<part, listeners, fnMouseDown, threw, checkVars, ajaxVars, cookieVars, browser>>

\* By the page at any time; a time-out that is pending will paint over it.
UpdateCheckButtonColor(bChecked) ==
  /\ part = "button"
  /\ color' = IF bChecked THEN "checked" ELSE "up"
  /\ UNCHANGED <<part, listeners, fnMouseDown, timers, threw, checkVars, ajaxVars, cookieVars,
                 browser>>

-----------------------------------------------------------------------------
(***************************************************************************)
(* Multi-select checks                                                     *)
(***************************************************************************)
\* _UpdateMultiSelectCheckButton
Paint(c) ==
  [c EXCEPT !.color = IF c._Enable THEN IF c._Selected THEN "selected" ELSE "plain"
                      ELSE "disabled"]

\* Enables and deselects, and leaves the colours as they are.
AttachMultiSelectCheck ==
  /\ part = "check" /\ ~attached /\ checkListeners < MaxListeners
  /\ check' = [i \in 1..Checks |-> [check[i] EXCEPT !._Enable = TRUE, !._Selected = FALSE]]
  /\ checkListeners' = AddEvent(checkListeners) /\ attached' = TRUE /\ painted' = FALSE
  /\ UNCHANGED <<part, buttonVars, ajaxVars, cookieVars, browser>>

\* Asks the DOM to remove closures made for the purpose, none of which listens.
DettachMultiSelectCheck ==
  /\ part = "check" /\ attached
  /\ checkListeners' = DetachEvent(checkListeners, FALSE) /\ attached' = FALSE
  /\ UNCHANGED <<part, check, painted, buttonVars, ajaxVars, cookieVars, browser>>

\* Mutant: only the check that is selected is painted.
UpdateMultiSelectCheck_One(k) ==
  /\ part = "check" /\ checkListeners > 0
  /\ check' = [i \in 1..Checks |->
                 LET c == [check[i] EXCEPT !._Selected = (i = k)]
                 IN IF i = k THEN Paint(c) ELSE c]
  /\ painted' = TRUE
  /\ UNCHANGED <<part, checkListeners, attached, buttonVars, ajaxVars, cookieVars, browser>>

\* k is 0 when no check is selected.
UpdateMultiSelectCheck(k) ==
  /\ part = "check" /\ checkListeners > 0
  /\ check' = [i \in 1..Checks |-> Paint([check[i] EXCEPT !._Selected = (i = k)])]
  /\ painted' = TRUE
  /\ UNCHANGED <<part, checkListeners, attached, buttonVars, ajaxVars, cookieVars, browser>>

EnableMultiSelectCheck(b) ==
  /\ part = "check" /\ checkListeners > 0
  /\ check' = [i \in 1..Checks |-> Paint([check[i] EXCEPT !._Enable = b])]
  /\ painted' = TRUE
  /\ UNCHANGED <<part, checkListeners, attached, buttonVars, ajaxVars, cookieVars, browser>>

\* All checks of a group are enabled or disabled together, so the first one answers.
IsMultiSelectCheckEnabled == check[1]._Enable

-----------------------------------------------------------------------------
(***************************************************************************)
(* Requests                                                                *)
(***************************************************************************)
\* Mutant: the last argument of open is true, and the page goes on.
Blocked_Never == FALSE

\* A synchronous request stops the page until it is answered or fails.
Blocked == \E k \in DOMAIN requests : requests[k].sync /\ requests[k].state = "sent"

\* Mutant: onload is set as well with ActiveXObject.
Calls_Both(handler, state) ==
  IF handler
  THEN (IF ActiveX(browser.navigator) THEN 1 ELSE 0) + (IF state = "answered" THEN 1 ELSE 0)
  ELSE 0

\* Whether the handler of a request hears that it is sent, answered or failed: with
\* ActiveXObject SendRequest sets onreadystatechange, otherwise onload.
Calls(handler, state) ==
  IF handler /\ (ActiveX(browser.navigator) \/ state = "answered") THEN 1 ELSE 0

Open(sync, handler) ==
  /\ part = "ajax" /\ ~Blocked /\ Len(requests) < MaxRequests
  /\ requests' = Append(requests, [sync |-> sync, handler |-> handler, state |-> "sent",
                                   handled |-> Calls(handler, "sent")])
  /\ UNCHANGED <<part, arrived, buttonVars, checkVars, cookieVars, browser>>

\* SendAction and PostActionData want no answer.
SendAction == Open(FALSE, FALSE)
PostActionData == Open(FALSE, FALSE)
SendRequest == Open(FALSE, TRUE)

SyncSendAction == Open(TRUE, FALSE)

\* The server gets a request, in any order, even one that has failed at the page.
Arrive(k) ==
  /\ k \in DOMAIN requests /\ k \notin Range(arrived)
  /\ arrived' = Append(arrived, k)
  /\ UNCHANGED <<part, requests, buttonVars, checkVars, cookieVars, browser>>

Finish(k, state) ==
  /\ k \in DOMAIN requests /\ requests[k].state = "sent"
  /\ state = "answered" => k \in Range(arrived)
  /\ requests' = [requests EXCEPT ![k].state = state,
                                  ![k].handled = @ + Calls(requests[k].handler, state)]
  /\ UNCHANGED <<part, arrived, buttonVars, checkVars, cookieVars, browser>>

-----------------------------------------------------------------------------
(***************************************************************************)
(* Cookies                                                                 *)
(***************************************************************************)
\* What the browser keeps of an assignment to document.cookie: nothing if it expired.
Keep(value, days) ==
  CASE days = 0 -> [value |-> value, expires |-> Session]
    [] days < 0 -> NONE
    [] OTHER    -> [value |-> value, expires |-> today + days]

CreateCookie(name, value, days) ==
  /\ part = "cookie"
  /\ cookie' = [cookie EXCEPT ![name] = Keep(value, days)]
  /\ written' = [written EXCEPT ![name] = [value |-> value, days |-> days, since |-> today]]
  /\ UNCHANGED <<part, today, buttonVars, checkVars, ajaxVars, browser>>

\* CreateCookie with the empty value, for -1 days.
EraseCookie(name) ==
  /\ part = "cookie"
  /\ cookie' = [cookie EXCEPT ![name] = Keep("", -1)]
  /\ written' = [written EXCEPT ![name] = NONE]
  /\ UNCHANGED <<part, today, buttonVars, checkVars, ajaxVars, browser>>

\* The names under which the browser has a cookie.
Given == {name \in CookieNames : cookie[name] # NONE}

\* The pieces of document.cookie between its semicolons, without leading spaces. Values
\* are encoded, so that none of them is cut in two.
Pieces == {name \o <<"=", cookie[name].value>> : name \in Given}

\* Mutant: a piece fits that begins with the name.
ReadCookie_NoEQ(name) ==
  {SubSeq(c, Len(name) + 2, Len(c)) : c \in {piece \in Pieces : IsPrefix(name, piece)}}

\* The loop returns the value of the first piece that fits; the browser lists its cookies
\* in any order. These are the values it may return, none for null.
ReadCookie(name) ==
  LET nameEQ == name \o <<"=">>
  IN {SubSeq(c, Len(nameEQ) + 1, Len(c)) : c \in {piece \in Pieces : IsPrefix(nameEQ, piece)}}

\* The cookies that are left when those of some names go.
Without(gone) == [name \in CookieNames |-> IF name \in gone THEN NONE ELSE cookie[name]]

DayPasses ==
  /\ part = "cookie" /\ today < MaxDays
  /\ today' = today + 1
  /\ cookie' = Without({name \in Given : cookie[name].expires # Session /\ cookie[name].expires <= today'})
  /\ UNCHANGED <<part, written, buttonVars, checkVars, ajaxVars, browser>>

CloseBrowser ==
  /\ part = "cookie"
  /\ cookie' = Without({name \in Given : cookie[name].expires = Session})
  /\ written' = [name \in CookieNames |->
                   IF written[name] # NONE /\ written[name].days = 0 THEN NONE ELSE written[name]]
  /\ UNCHANGED <<part, today, buttonVars, checkVars, ajaxVars, browser>>

-----------------------------------------------------------------------------
Next ==
  \/ AttachButton \/ DetachButton \/ OnButtonUp
  \/ \E thrown \in 0..MaxListeners : ButtonDown(thrown)
  \/ \E b \in BOOLEAN : UpdateCheckButtonColor(b)
  \/ AttachMultiSelectCheck \/ DettachMultiSelectCheck
  \/ \E k \in 0..Checks : UpdateMultiSelectCheck(k)
  \/ \E b \in BOOLEAN : EnableMultiSelectCheck(b)
  \/ SendAction \/ PostActionData \/ SendRequest \/ SyncSendAction
  \/ \E k \in 1..MaxRequests : Arrive(k) \/ \E s \in {"answered", "failed"} : Finish(k, s)
  \/ \E name \in CookieNames :
       EraseCookie(name) \/ \E v \in CookieValues, days \in 0..MaxDays : CreateCookie(name, v, days)
  \/ DayPasses \/ CloseBrowser

Spec == Init /\ [][Next]_vars

\* A time-out fires.
FairSpec == Spec /\ WF_vars(OnButtonUp)

-----------------------------------------------------------------------------
(***************************************************************************)
(* Properties                                                              *)
(***************************************************************************)
\* A pressed button comes up again, even when it is detached or attached once more
\* meanwhile, unless every OnClickFunc of the mousedown threw: then it stays down until
\* somebody presses or paints it again.
PressedComesUp == (color = "down" /\ ~threw) ~> color = "up"

\* Once the page has called UpdateMultiSelectCheck or EnableMultiSelectCheck, the colours
\* show which check is selected and whether the group is enabled, at most one check is
\* selected, and the group is enabled or disabled as a whole.
ChecksPainted ==
  painted =>
    /\ \A i \in 1..Checks : check[i] = Paint(check[i])
    /\ Cardinality({i \in 1..Checks : check[i]._Selected}) <= 1
    /\ \A i \in 1..Checks : check[i]._Enable = IsMultiSelectCheckEnabled

\* What SyncSendAction sent and had answered reached the server before anything the page
\* sent later, which requests sent by SendAction do not; and where SendRequest uses
\* onload, its handler is called once, for the answer.
RequestsInOrder ==
  /\ \A p \in DOMAIN arrived : \A q \in DOMAIN arrived :
       /\ requests[arrived[p]].sync /\ requests[arrived[p]].state = "answered"
       /\ arrived[q] > arrived[p]
       => q > p
  /\ ~ActiveX(browser.navigator) =>
       \A k \in DOMAIN requests :
         requests[k].handled = IF requests[k].handler /\ requests[k].state = "answered"
                               THEN 1 ELSE 0

\* ReadCookie gives the value that CreateCookie wrote last under the name, for its days
\* (or, for no days, until the browser is closed), and null otherwise: whatever is written
\* and erased under other names, and whatever the order the browser lists them in.
CookieRead ==
  \A name \in CookieNames :
    LET w == written[name]
    IN ReadCookie(name) =
         IF w # NONE /\ (w.days = 0 \/ today < w.since + w.days) THEN {<<w.value>>} ELSE {}

\* The version is looked up with the search string of the row that named the browser.
VersionOfBrowser ==
  LET d == browser.detected
  IN d.version # "unknown" =>
       \E i \in DOMAIN dataBrowser :
         dataBrowser[i].identity = d.browser /\ dataBrowser[i].versionSearch = d.version
=============================================================================

------------------------- MODULE WebControlsProofs -------------------------
(***************************************************************************)
(* Proofs about the helpers of the web application: painted checks show    *)
(* their state, synchronous requests that were answered arrived before     *)
(* what was sent after them, a cookie is read as it was written, and the   *)
(* version found is that of the browser.                                   *)
(***************************************************************************)
EXTENDS WebControls, FiniteSetTheorems, SequenceTheorems, WellFoundedInduction, TLAPS

-----------------------------------------------------------------------------
(***************************************************************************)
(* The least element                                                       *)
(***************************************************************************)
LEMMA MinFacts ==
  ASSUME NEW S \in SUBSET Nat, S # {}
  PROVE  Min(S) \in S /\ \A y \in S : Min(S) <= y
<1> DEFINE R == {ss \in Nat \X Nat : ss[1] < ss[2]}
<1>1. PICK x \in S : \A y \in S : <<y, x>> \notin R
  <2>1. IsWellFoundedOn(R, Nat)
    BY NatLessThanWellFounded, Zenon DEF OpToRel
  <2> HIDE DEF R
  <2>2. QED BY <2>1, WFMin
<1>2. ASSUME NEW y \in S PROVE x <= y
  <2>1. y \in Nat /\ x \in Nat /\ <<y, x>>[1] = y /\ <<y, x>>[2] = x
    OBVIOUS
  <2>2. ~(<<y, x>>[1] < <<y, x>>[2])
    BY <1>1, <2>1, Zenon
  <2>3. QED BY <2>1, <2>2
<1>3. QED BY <1>2 DEF Min

-----------------------------------------------------------------------------
(***************************************************************************)
(* What each part of the helpers leaves alone                              *)
(***************************************************************************)
ButtonNext ==
  \/ AttachButton \/ DetachButton \/ OnButtonUp
  \/ \E thrown \in 0..MaxListeners : ButtonDown(thrown)
  \/ \E b \in BOOLEAN : UpdateCheckButtonColor(b)

CheckNext ==
  \/ AttachMultiSelectCheck \/ DettachMultiSelectCheck
  \/ \E k \in 0..Checks : UpdateMultiSelectCheck(k)
  \/ \E b \in BOOLEAN : EnableMultiSelectCheck(b)

AjaxNext ==
  \/ \E sync, handler \in BOOLEAN : Open(sync, handler)
  \/ \E k \in 1..MaxRequests : Arrive(k) \/ \E s \in {"answered", "failed"} : Finish(k, s)

CookieNext ==
  \/ \E name \in CookieNames :
       EraseCookie(name) \/ \E v \in CookieValues, days \in 0..MaxDays : CreateCookie(name, v, days)
  \/ DayPasses \/ CloseBrowser

\* A step of one part is none of the others.
LEMMA NextParts ==
  ASSUME [Next]_vars
  PROVE  /\ ButtonNext \/ UNCHANGED buttonVars
         /\ CheckNext \/ UNCHANGED checkVars
         /\ AjaxNext \/ UNCHANGED ajaxVars
         /\ CookieNext \/ UNCHANGED cookieVars
         /\ browser' = browser /\ part' = part
<1>1. ASSUME ButtonNext
      PROVE  UNCHANGED <<part, checkVars, ajaxVars, cookieVars, browser>>
  BY <1>1, Zenon DEF ButtonNext, AttachButton, DetachButton, ButtonDown, OnButtonUp, UpdateCheckButtonColor
<1>2. ASSUME CheckNext
      PROVE  UNCHANGED <<part, buttonVars, ajaxVars, cookieVars, browser>>
  BY <1>2, Zenon DEF CheckNext, AttachMultiSelectCheck, DettachMultiSelectCheck, UpdateMultiSelectCheck,
     EnableMultiSelectCheck
<1>3. ASSUME AjaxNext
      PROVE  UNCHANGED <<part, buttonVars, checkVars, cookieVars, browser>>
  BY <1>3, Zenon DEF AjaxNext, Open, Arrive, Finish
<1>4. ASSUME CookieNext
      PROVE  UNCHANGED <<part, buttonVars, checkVars, ajaxVars, browser>>
  BY <1>4, Zenon DEF CookieNext, CreateCookie, EraseCookie, DayPasses, CloseBrowser
<1>5. ButtonNext \/ CheckNext \/ AjaxNext \/ CookieNext \/ UNCHANGED vars
  BY DEF Next, ButtonNext, CheckNext, AjaxNext, CookieNext, SendAction, PostActionData, SendRequest,
     SyncSendAction
<1>6. QED BY <1>1, <1>2, <1>3, <1>4, <1>5, Zenon DEF vars

-----------------------------------------------------------------------------
(***************************************************************************)
(* Multi-select checks                                                     *)
(***************************************************************************)
CheckStates == [_Enable : BOOLEAN, _Selected : BOOLEAN, color : {"selected", "plain", "disabled"}]

\* The colour that a check should have.
Shade(enable, selected) ==
  IF enable THEN IF selected THEN "selected" ELSE "plain" ELSE "disabled"

\* Painting sets the colour by the state, and leaves the state alone.
LEMMA PaintFacts ==
  ASSUME NEW c \in CheckStates
  PROVE  /\ Paint(c) \in CheckStates
         /\ Paint(c)._Enable = c._Enable /\ Paint(c)._Selected = c._Selected
         /\ Paint(c).color = Shade(c._Enable, c._Selected)
<1>1. PICK shade \in {"selected", "plain", "disabled"} : shade = Shade(c._Enable, c._Selected)
  BY DEF Shade
<1>2. Paint(c) = [c EXCEPT !.color = shade]
  BY <1>1, Zenon DEF Paint, Shade
<1>3. QED BY <1>1, <1>2 DEF CheckStates

\* A check that has the colour of its state is painted.
LEMMA PaintedOnce ==
  ASSUME NEW c \in CheckStates, c.color = Shade(c._Enable, c._Selected)
  PROVE  c = Paint(c)
<1>1. PICK p \in CheckStates : p = Paint(c)
  BY PaintFacts
<1>2. p._Enable = c._Enable /\ p._Selected = c._Selected /\ p.color = c.color
  BY <1>1, PaintFacts
<1>3. c = p
  BY <1>2 DEF CheckStates
<1>4. QED BY <1>1, <1>3

\* The group is enabled as a whole and at most one of its checks is selected, painted or
\* not; a group that was painted has the colours of its states.
CheckInv ==
  /\ check \in [1..Checks -> CheckStates]
  /\ \A i, j \in 1..Checks : check[i]._Enable = check[j]._Enable
  /\ \A i, j \in 1..Checks : check[i]._Selected /\ check[j]._Selected => i = j
  /\ painted => \A i \in 1..Checks : check[i].color = Shade(check[i]._Enable, check[i]._Selected)

LEMMA NextCheck == CheckInv /\ [Next]_vars => CheckInv'
<1> SUFFICES ASSUME CheckInv, [Next]_vars PROVE CheckInv'
  OBVIOUS
<1>1. check \in [1..Checks -> CheckStates]
  BY DEF CheckInv
<1>2. CASE AttachMultiSelectCheck
  <2>1. PICK new : new = [i \in 1..Checks |-> [check[i] EXCEPT !._Enable = TRUE, !._Selected = FALSE]]
    OBVIOUS
  <2>2. check' = new /\ painted' = FALSE
    BY <1>2, <2>1 DEF AttachMultiSelectCheck
  <2>3. \A c \in CheckStates : LET n == [c EXCEPT !._Enable = TRUE, !._Selected = FALSE]
                               IN n \in CheckStates /\ n._Enable = TRUE /\ n._Selected = FALSE
    BY DEF CheckStates
  <2>4. new \in [1..Checks -> CheckStates]
        /\ \A i \in 1..Checks : new[i]._Enable = TRUE /\ new[i]._Selected = FALSE
    BY <1>1, <2>1, <2>3
  <2>5. QED BY <2>2, <2>4 DEF CheckInv
<1>3. ASSUME NEW k \in 0..Checks, UpdateMultiSelectCheck(k) PROVE CheckInv'
  <2>1. \A c \in CheckStates, b \in BOOLEAN :
          LET n == [c EXCEPT !._Selected = b]
          IN n \in CheckStates /\ n._Enable = c._Enable /\ n._Selected = b
    BY DEF CheckStates
  <2>2. \A i \in 1..Checks : check'[i] = Paint([check[i] EXCEPT !._Selected = (i = k)])
    BY <1>3, Zenon DEF UpdateMultiSelectCheck
  <2>3. painted' = TRUE /\ check' = [i \in 1..Checks |-> check'[i]]
    BY <1>3, <2>2, Zenon DEF UpdateMultiSelectCheck
  <2>4. ASSUME NEW i \in 1..Checks
        PROVE  /\ check'[i] \in CheckStates
               /\ check'[i]._Enable = check[i]._Enable /\ (check'[i]._Selected <=> i = k)
               /\ check'[i].color = Shade(check'[i]._Enable, check'[i]._Selected)
    <3>1. PICK b \in BOOLEAN : b = (i = k)
      OBVIOUS
    <3>2. PICK c \in CheckStates : c = [check[i] EXCEPT !._Selected = b]
      BY <1>1, <2>1
    <3>3. c._Enable = check[i]._Enable /\ c._Selected = b
      BY <1>1, <2>1, <3>2
    <3>4. check'[i] = Paint(c)
      BY <2>2, <3>1, <3>2, Zenon
    <3>5. /\ check'[i] \in CheckStates
          /\ check'[i]._Enable = c._Enable /\ check'[i]._Selected = c._Selected
          /\ check'[i].color = Shade(c._Enable, c._Selected)
      BY <3>4, PaintFacts
    <3>6. check'[i]._Selected <=> i = k
      BY <3>1, <3>3, <3>5
    <3>7. QED BY <3>3, <3>5, <3>6
  <2>5. check' \in [1..Checks -> CheckStates]
    BY <2>3, <2>4, Zenon
  <2>6. QED BY <2>4, <2>5 DEF CheckInv
<1>4. ASSUME NEW b \in BOOLEAN, EnableMultiSelectCheck(b) PROVE CheckInv'
  <2>1. \A c \in CheckStates :
          LET n == [c EXCEPT !._Enable = b]
          IN n \in CheckStates /\ n._Selected = c._Selected /\ n._Enable = b
    BY DEF CheckStates
  <2>2. \A i \in 1..Checks : check'[i] = Paint([check[i] EXCEPT !._Enable = b])
    BY <1>4, Zenon DEF EnableMultiSelectCheck
  <2>3. painted' = TRUE /\ check' = [i \in 1..Checks |-> check'[i]]
    BY <1>4, <2>2, Zenon DEF EnableMultiSelectCheck
  <2>4. ASSUME NEW i \in 1..Checks
        PROVE  /\ check'[i] \in CheckStates
               /\ check'[i]._Enable = b /\ check'[i]._Selected = check[i]._Selected
               /\ check'[i].color = Shade(check'[i]._Enable, check'[i]._Selected)
    <3>1. PICK c \in CheckStates : c = [check[i] EXCEPT !._Enable = b]
      BY <1>1, <2>1
    <3>2. c._Selected = check[i]._Selected /\ c._Enable = b
      BY <1>1, <2>1, <3>1
    <3>3. check'[i] = Paint(c)
      BY <2>2, <3>1, Zenon
    <3>4. QED BY <3>2, <3>3, PaintFacts
  <2>5. check' \in [1..Checks -> CheckStates]
    BY <2>3, <2>4, Zenon
  <2>6. QED BY <2>4, <2>5 DEF CheckInv
<1>5. CASE UNCHANGED <<check, painted>>
  BY <1>5 DEF CheckInv
<1>6. QED
  BY <1>2, <1>3, <1>4, <1>5, NextParts, Zenon DEF CheckNext, DettachMultiSelectCheck, checkVars

\* Once the page has updated or enabled a group of any number of checks, the colours show
\* its state, at most one check is selected, and it is enabled as a whole.
THEOREM ChecksArePainted == Spec => []ChecksPainted
<1>1. Init => CheckInv
  BY DEF Init, CheckInv, CheckStates
<1>2. ASSUME CheckInv PROVE ChecksPainted
  <2>1. 1 \in 1..Checks
    BY BoundsAssumption
  <2>2. ASSUME painted, NEW i \in 1..Checks PROVE check[i] = Paint(check[i])
    <3>1. check[i] \in CheckStates /\ check[i].color = Shade(check[i]._Enable, check[i]._Selected)
      BY <1>2, <2>2 DEF CheckInv
    <3>2. QED BY <3>1, PaintedOnce
  <2>3. \A i \in 1..Checks : check[i]._Enable = IsMultiSelectCheckEnabled
    BY <1>2, <2>1 DEF CheckInv, IsMultiSelectCheckEnabled
  <2>4. Cardinality({i \in 1..Checks : check[i]._Selected}) <= 1
    <3>1. PICK S : S = {i \in 1..Checks : check[i]._Selected}
      OBVIOUS
    <3>2. \A i, j \in S : i = j
      BY <1>2, <3>1 DEF CheckInv
    <3>3. CASE S = {}
      BY <3>1, <3>3, FS_EmptySet
    <3>4. ASSUME NEW i \in S PROVE Cardinality(S) = 1
      <4>1. S = {i}
        BY <3>2, <3>4
      <4>2. QED BY <4>1, FS_Singleton
    <3>5. QED BY <3>1, <3>3, <3>4
  <2>5. QED BY <2>2, <2>3, <2>4 DEF ChecksPainted
<1>3. QED BY <1>1, <1>2, NextCheck, PTL DEF Spec

-----------------------------------------------------------------------------
(***************************************************************************)
(* Cookies                                                                 *)
(***************************************************************************)
\* What the browser still has of what was written under a name.
Lasts(w) == w # NONE /\ (w.days = 0 \/ today < w.since + w.days)
Expires(w) == IF w.days = 0 THEN Session ELSE w.since + w.days

Written == [value : CookieValues, days : 0..MaxDays, since : Nat]

CookieInv ==
  /\ today \in Nat
  /\ written \in [CookieNames -> {NONE} \cup Written]
  /\ cookie = [name \in CookieNames |->
                 IF Lasts(written[name])
                 THEN [value |-> written[name].value, expires |-> Expires(written[name])] ELSE NONE]

LEMMA WrittenFacts ==
  ASSUME NEW w \in Written
  PROVE  /\ w # NONE
         /\ w.days \in Nat /\ w.since \in Nat
         /\ w.days # 0 => Expires(w) \in Nat /\ Expires(w) = w.since + w.days /\ Expires(w) # Session
         /\ w.days = 0 => Expires(w) = Session
<1>1. MaxDays \in Nat
  BY BoundsAssumption
<1>2. w.days \in Nat /\ w.since \in Nat
  BY <1>1 DEF Written
<1>3. w # NONE
  BY DEF Written, NONE
<1>4. QED BY <1>2, <1>3 DEF Expires, Session

LEMMA NextCookie == CookieInv /\ [Next]_vars => CookieInv'
<1> SUFFICES ASSUME CookieInv, [Next]_vars PROVE CookieInv'
  OBVIOUS
<1> DEFINE Kept(w) == IF Lasts(w) THEN [value |-> w.value, expires |-> Expires(w)] ELSE NONE
<1>1. today \in Nat /\ written \in [CookieNames -> {NONE} \cup Written]
      /\ cookie = [name \in CookieNames |-> Kept(written[name])]
  BY DEF CookieInv
<1>2. \A name \in CookieNames : written[name] = NONE \/ written[name] \in Written
  BY <1>1
<1>3. CookieNext \/ UNCHANGED cookieVars
  BY NextParts
<1>4. ASSUME NEW name \in CookieNames, NEW v \in CookieValues, NEW days \in 0..MaxDays,
             CreateCookie(name, v, days)
      PROVE  CookieInv'
  <2>1. PICK w \in Written : w = [value |-> v, days |-> days, since |-> today]
    BY <1>1 DEF Written
  <2>2. today' = today /\ written' = [written EXCEPT ![name] = w]
        /\ cookie' = [cookie EXCEPT ![name] = Keep(v, days)]
    BY <1>4, <2>1 DEF CreateCookie
  <2>3. Keep(v, days) = [value |-> v, expires |-> Expires(w)]
    <3>1. days \in Nat /\ ~(days < 0) /\ w.days = days /\ w.since = today
      BY <2>1, BoundsAssumption
    <3>2. QED BY <3>1, Zenon DEF Keep, Expires
  <2>4. Lasts(w) /\ w.value = v
    <3>1. w.days = 0 \/ today < w.since + w.days
      BY <1>1, <2>1, BoundsAssumption
    <3>2. QED BY <2>1, <3>1, WrittenFacts DEF Lasts
  <2>5. Keep(v, days) = Kept(w)
    BY <2>3, <2>4
  <2>6. written' \in [CookieNames -> {NONE} \cup Written]
    BY <1>1, <2>2
  <2>7. cookie' = [n \in CookieNames |-> Kept(written'[n])]
    BY <1>1, <2>2, <2>5
  <2>8. \A n \in CookieNames : Lasts(written[n])' <=> Lasts(written'[n])
    BY <2>2 DEF Lasts
  <2>9. QED BY <1>1, <2>2, <2>6, <2>7 DEF CookieInv, Lasts, Expires
<1>5. ASSUME NEW name \in CookieNames, EraseCookie(name) PROVE CookieInv'
  <2>1. -1 # 0 /\ -1 < 0
    OBVIOUS
  <2>2. Keep("", -1) = NONE
    BY <2>1, Zenon DEF Keep
  <2>3. today' = today /\ written' = [written EXCEPT ![name] = NONE]
        /\ cookie' = [cookie EXCEPT ![name] = NONE]
    BY <1>5, <2>2, Zenon DEF EraseCookie
  <2>4. Kept(NONE) = NONE
    BY DEF Lasts
  <2>5. cookie' = [n \in CookieNames |-> Kept(written'[n])]
    BY <1>1, <2>3, <2>4
  <2>6. QED BY <1>1, <2>3, <2>5 DEF CookieInv, Lasts, Expires
<1>6. CASE DayPasses
  <2>1. today' = today + 1 /\ written' = written
        /\ cookie' = [n \in CookieNames |->
                        IF cookie[n] # NONE /\ cookie[n].expires # Session /\ cookie[n].expires <= today + 1
                        THEN NONE ELSE cookie[n]]
    BY <1>6 DEF DayPasses, Without, Given
  <2>2. ASSUME NEW n \in CookieNames PROVE cookie'[n] = Kept(written[n])'
    <3>1. CASE written[n] = NONE
      BY <1>1, <2>1, <3>1 DEF Lasts
    <3>2. ASSUME NEW w \in Written, w = written[n] PROVE cookie'[n] = Kept(written[n])'
      <4>1. cookie[n] = IF w.days = 0 \/ today < w.since + w.days
                        THEN [value |-> w.value, expires |-> Expires(w)] ELSE NONE
        BY <1>1, <3>2, WrittenFacts DEF Lasts
      <4>2. Kept(written[n])' = IF w.days = 0 \/ today + 1 < w.since + w.days
                                THEN [value |-> w.value, expires |-> Expires(w)] ELSE NONE
        BY <2>1, <3>2, WrittenFacts DEF Lasts, Expires
      <4>3. CASE w.days = 0
        BY <2>1, <4>1, <4>2, <4>3, WrittenFacts
      <4>4. CASE w.days # 0 /\ today < w.since + w.days
        <5>1. cookie[n] = [value |-> w.value, expires |-> Expires(w)] /\ cookie[n] # NONE
              /\ cookie[n].expires = w.since + w.days /\ cookie[n].expires # Session
          BY <4>1, <4>4, WrittenFacts DEF NONE
        <5>2. w.since + w.days <= today + 1 <=> ~(today + 1 < w.since + w.days)
          BY <1>1, WrittenFacts
        <5>3. QED BY <2>1, <4>2, <4>4, <5>1, <5>2
      <4>5. CASE w.days # 0 /\ ~(today < w.since + w.days)
        <5>1. ~(today + 1 < w.since + w.days)
          BY <1>1, <4>5, WrittenFacts
        <5>2. QED BY <2>1, <4>1, <4>2, <4>5, <5>1
      <4>6. QED BY <4>3, <4>4, <4>5
    <3>3. QED BY <1>2, <3>1, <3>2
  <2>3. QED BY <1>1, <2>1, <2>2 DEF CookieInv
<1>7. CASE CloseBrowser
  <2>1. today' = today
        /\ written' = [n \in CookieNames |->
                         IF written[n] # NONE /\ written[n].days = 0 THEN NONE ELSE written[n]]
        /\ cookie' = [n \in CookieNames |->
                        IF cookie[n] # NONE /\ cookie[n].expires = Session THEN NONE ELSE cookie[n]]
    BY <1>7 DEF CloseBrowser, Without, Given
  <2>2. ASSUME NEW n \in CookieNames PROVE cookie'[n] = Kept(written'[n])
    <3>1. CASE written[n] = NONE
      BY <1>1, <2>1, <3>1 DEF Lasts
    <3>2. ASSUME NEW w \in Written, w = written[n] PROVE cookie'[n] = Kept(written'[n])
      <4>1. CASE w.days = 0
        <5>1. cookie[n] = [value |-> w.value, expires |-> Session] /\ cookie[n] # NONE
          <6>1. cookie[n] = [value |-> w.value, expires |-> Expires(w)]
            BY <1>1, <3>2, <4>1, WrittenFacts DEF Lasts
          <6>2. Expires(w) = Session
            BY <4>1, WrittenFacts
          <6>3. QED BY <6>1, <6>2 DEF NONE
        <5>2. cookie'[n] = NONE /\ written'[n] = NONE
          BY <2>1, <3>2, <4>1, <5>1, WrittenFacts
        <5>3. QED BY <5>2 DEF Lasts
      <4>2. CASE w.days # 0
        <5>1. cookie[n] = NONE \/ cookie[n].expires # Session
          BY <1>1, <3>2, <4>2, WrittenFacts
        <5>2. cookie'[n] = cookie[n] /\ written'[n] = w
          BY <2>1, <3>2, <4>2, <5>1, WrittenFacts
        <5>3. QED BY <1>1, <3>2, <5>2
      <4>3. QED BY <4>1, <4>2
    <3>3. QED BY <1>2, <3>1, <3>2
  <2>3. cookie' = [n \in CookieNames |-> Kept(written'[n])]
    BY <2>1, <2>2
  <2>4. written' \in [CookieNames -> {NONE} \cup Written]
    BY <1>1, <2>1
  <2>5. QED BY <1>1, <2>1, <2>3, <2>4 DEF CookieInv, Lasts, Expires
<1>8. CASE UNCHANGED cookieVars
  BY <1>8 DEF cookieVars, CookieInv, Lasts, Expires
<1>9. QED BY <1>3, <1>4, <1>5, <1>6, <1>7, <1>8 DEF CookieNext

\* A piece begins with a name and "=" only if that is its own name, where no name contains
\* "=", and what comes after them is its value.
LEMMA PieceFacts ==
  ASSUME NEW Characters, "=" \notin Characters,
         NEW n \in Seq(Characters), NEW m \in Seq(Characters), NEW v
  PROVE  /\ IsPrefix(n \o <<"=">>, m \o <<"=", v>>) <=> n = m
         /\ SubSeq(n \o <<"=", v>>, Len(n \o <<"=">>) + 1, Len(n \o <<"=", v>>)) = <<v>>
<1> DEFINE C == Characters \cup {"=", v}
<1>1. n \in Seq(C) /\ m \in Seq(C) /\ <<"=">> \in Seq(C) /\ <<"=", v>> \in Seq(C)
  <2>1. Characters \subseteq C /\ "=" \in C /\ v \in C
    OBVIOUS
  <2>2. n \in Seq(C) /\ m \in Seq(C)
    BY <2>1, SeqMonotonic
  <2>3. QED BY <2>1, <2>2
<1>2. PICK a \in Seq(C) : a = n \o <<"=">>
  BY <1>1, ConcatProperties
<1>3. PICK b \in Seq(C) : b = m \o <<"=", v>>
  BY <1>1, ConcatProperties
<1>4. /\ Len(n) \in Nat /\ Len(a) = Len(n) + 1 /\ a[Len(n) + 1] = "="
      /\ \A i \in 1..Len(n) : a[i] = n[i] /\ n[i] \in Characters
  BY <1>2
<1>5. /\ Len(m) \in Nat /\ Len(b) = Len(m) + 2 /\ b[Len(m) + 1] = "="
      /\ \A i \in 1..Len(m) : b[i] = m[i] /\ m[i] \in Characters
  BY <1>3
<1>6. IsPrefix(a, b) <=> Len(a) <= Len(b) /\ \A i \in 1..Len(a) : a[i] = b[i]
  <2>1. CASE Len(a) <= Len(b)
    <3>1. /\ SubSeq(a, 1, Len(a)) \in Seq(C) /\ SubSeq(b, 1, Len(a)) \in Seq(C)
          /\ Len(SubSeq(a, 1, Len(a))) = Len(a) /\ Len(SubSeq(b, 1, Len(a))) = Len(a)
          /\ \A i \in 1..Len(a) : SubSeq(a, 1, Len(a))[i] = a[i] /\ SubSeq(b, 1, Len(a))[i] = b[i]
      BY <1>4, <1>5, <2>1
    <3>2. SubSeq(a, 1, Len(a)) = SubSeq(b, 1, Len(a)) <=> \A i \in 1..Len(a) : a[i] = b[i]
      BY <3>1, SeqEqual
    <3>3. QED BY <2>1, <3>2 DEF IsPrefix
  <2>2. QED BY <2>1 DEF IsPrefix
<1>7. ASSUME IsPrefix(a, b) PROVE n = m
  <2>1. Len(n) = Len(m)
    <3>1. CASE Len(n) < Len(m)
      <4>1. Len(n) + 1 \in 1..Len(m) /\ Len(n) + 1 \in 1..Len(a)
        BY <1>4, <1>5, <3>1
      <4>2. m[Len(n) + 1] = "="
        BY <1>4, <1>5, <1>6, <1>7, <4>1
      <4>3. QED BY <1>5, <4>1, <4>2
    <3>2. CASE Len(n) > Len(m)
      <4>1. Len(m) + 1 \in 1..Len(n) /\ Len(m) + 1 \in 1..Len(a)
        BY <1>4, <1>5, <3>2
      <4>2. n[Len(m) + 1] = "="
        BY <1>4, <1>5, <1>6, <1>7, <4>1
      <4>3. QED BY <1>4, <4>1, <4>2
    <3>3. QED BY <1>4, <1>5, <3>1, <3>2
  <2>2. \A i \in 1..Len(n) : n[i] = m[i]
    BY <1>4, <1>5, <1>6, <1>7, <2>1
  <2>3. QED BY <2>1, <2>2
<1>8. ASSUME n = m PROVE IsPrefix(a, b)
  BY <1>4, <1>5, <1>6, <1>8
<1>9. SubSeq(n \o <<"=", v>>, Len(n \o <<"=">>) + 1, Len(n \o <<"=", v>>)) = <<v>>
  <2>1. PICK c \in Seq(C) : c = n \o <<"=", v>>
    BY <1>1, ConcatProperties
  <2>2. Len(c) = Len(n) + 2 /\ c[Len(n) + 2] = v
    BY <2>1
  <2>3. SubSeq(c, Len(n) + 2, Len(n) + 2) = <<v>>
    <3>1. PICK k \in Nat : k = Len(n) + 2 /\ c[k] = v /\ \A i \in k..k : c[i] \in C
      BY <1>4, <2>2
    <3>2. /\ SubSeq(c, k, k) \in Seq(C) /\ Len(SubSeq(c, k, k)) = 1
          /\ SubSeq(c, k, k)[1] = v
      BY <3>1, SubSeqProperties
    <3>3. SubSeq(c, k, k) = <<v>>
      <4>1. <<v>> \in Seq(C) /\ Len(<<v>>) = 1 /\ <<v>>[1] = v
        OBVIOUS
      <4>2. \A i \in 1..1 : SubSeq(c, k, k)[i] = <<v>>[i]
        BY <3>2, <4>1
      <4>3. QED BY <3>2, <4>1, <4>2, SeqEqual
    <3>4. QED BY <3>1, <3>3
  <2>4. QED BY <1>2, <1>4, <2>1, <2>2, <2>3
<1>10. QED BY <1>2, <1>3, <1>7, <1>8, <1>9

\* ReadCookie gives what CreateCookie wrote last under the name, as long as it should live
\* and whatever is kept under other names, if no name contains the character "=".
THEOREM CookiesRead ==
  ASSUME NEW Characters, "=" \notin Characters, CookieNames \subseteq Seq(Characters)
  PROVE  Spec => []CookieRead
<1>1. "=" \notin Characters /\ CookieNames \subseteq Seq(Characters)
  OBVIOUS
<1>2. ASSUME Init PROVE CookieInv
  BY <1>2 DEF Init, CookieInv, Lasts
<1>3. ASSUME CookieInv PROVE CookieRead
  <2>1. SUFFICES ASSUME NEW name \in CookieNames
                 PROVE  ReadCookie(name) = IF Lasts(written[name]) THEN {<<written[name].value>>} ELSE {}
    BY Zenon DEF CookieRead, Lasts
  <2>2. \A n \in CookieNames :
          IF Lasts(written[n]) THEN cookie[n] # NONE /\ cookie[n].value = written[n].value
                               ELSE cookie[n] = NONE
    BY <1>3 DEF CookieInv, NONE
  <2>3. PICK nameEQ : nameEQ = name \o <<"=">>
    OBVIOUS
  <2>4. \A n \in CookieNames : \A v :
          /\ IsPrefix(nameEQ, n \o <<"=", v>>) <=> n = name
          /\ SubSeq(name \o <<"=", v>>, Len(nameEQ) + 1, Len(name \o <<"=", v>>)) = <<v>>
    BY <1>1, <2>3, PieceFacts
  <2>5. ReadCookie(name) =
          {SubSeq(c, Len(nameEQ) + 1, Len(c)) : c \in {piece \in Pieces : IsPrefix(nameEQ, piece)}}
    BY <2>3 DEF ReadCookie
  <2>6. \A c : c \in Pieces <=> \E n \in CookieNames : cookie[n] # NONE /\ c = n \o <<"=", cookie[n].value>>
    BY DEF Pieces, Given
  <2>7. \A c : c \in Pieces /\ IsPrefix(nameEQ, c) <=>
               cookie[name] # NONE /\ c = name \o <<"=", cookie[name].value>>
    <3>1. ASSUME NEW n \in CookieNames, cookie[n] # NONE, NEW c, c = n \o <<"=", cookie[n].value>>
          PROVE  IsPrefix(nameEQ, c) <=> n = name
      BY <2>4, <3>1
    <3>2. QED BY <2>6, <3>1
  <2>8. CASE Lasts(written[name])
    <3>1. {piece \in Pieces : IsPrefix(nameEQ, piece)} = {name \o <<"=", written[name].value>>}
      BY <2>2, <2>7, <2>8
    <3>2. QED BY <2>4, <2>5, <2>8, <3>1
  <2>9. CASE ~Lasts(written[name])
    <3>1. {piece \in Pieces : IsPrefix(nameEQ, piece)} = {}
      BY <2>2, <2>7, <2>9
    <3>2. QED BY <2>5, <2>9, <3>1
  <2>10. QED BY <2>8, <2>9
<1>4. QED BY <1>2, <1>3, NextCookie, PTL DEF Spec

-----------------------------------------------------------------------------
(***************************************************************************)
(* Requests                                                                *)
(***************************************************************************)
Requests == [sync : BOOLEAN, handler : BOOLEAN, state : {"sent", "answered", "failed"}, handled : 0..2]

\* How often the handler of a request was called where SendRequest uses onload.
OnloadCalls(r) == IF r.handler /\ r.state = "answered" THEN 1 ELSE 0

AjaxType ==
  /\ requests \in Seq(Requests) /\ Len(requests) <= MaxRequests
  /\ arrived \in Seq(Nat) /\ \A p \in 1..Len(arrived) : arrived[p] \in 1..Len(requests)

\* A synchronous request that waits for its answer is the last one sent, and what was
\* answered has arrived.
Waits(r) == r.sync /\ r.state = "sent"
Counts(r) == r.sync /\ r.state # "failed"

AjaxInv ==
  /\ AjaxType
  /\ \A k \in 1..Len(requests) : Waits(requests[k]) => k = Len(requests)
  /\ \A k \in 1..Len(requests) : requests[k].state = "sent" => requests[k].handled <= 1
  /\ \A k \in 1..Len(requests) :
       requests[k].state = "answered" => \E p \in 1..Len(arrived) : arrived[p] = k
  /\ \A p, q \in 1..Len(arrived) : Counts(requests[arrived[p]]) /\ arrived[q] > arrived[p] => q > p
  /\ ~ActiveX(browser.navigator) =>
       \A k \in 1..Len(requests) : requests[k].handled = OnloadCalls(requests[k])

LEMMA CallsFacts ==
  ASSUME NEW handler \in BOOLEAN, NEW state
  PROVE  /\ Calls(handler, state) \in 0..1
         /\ ~ActiveX(browser.navigator) =>
              Calls(handler, state) = IF handler /\ state = "answered" THEN 1 ELSE 0
BY DEF Calls

LEMMA OpenKeeps ==
  ASSUME AjaxInv, NEW sync \in BOOLEAN, NEW handler \in BOOLEAN, Open(sync, handler), browser' = browser
  PROVE  AjaxInv'
<1>1. PICK c \in 0..1 : c = Calls(handler, "sent")
  BY CallsFacts
<1>2. PICK r \in Requests : r = [sync |-> sync, handler |-> handler, state |-> "sent", handled |-> c]
  <2>1. c \in 0..2
    OBVIOUS
  <2>2. QED BY <2>1 DEF Requests
<1>3. requests' = Append(requests, r) /\ arrived' = arrived /\ Len(requests) < MaxRequests
  BY <1>1, <1>2 DEF Open
<1>4. requests \in Seq(Requests) /\ arrived \in Seq(Nat) /\ MaxRequests \in Nat
  BY BoundsAssumption DEF AjaxInv, AjaxType
<1>5. /\ requests' \in Seq(Requests) /\ Len(requests') = Len(requests) + 1
      /\ Len(requests) \in Nat
      /\ requests'[Len(requests) + 1] = r
      /\ \A k \in 1..Len(requests) : requests'[k] = requests[k]
  BY <1>3, <1>4
<1>6. \A k \in 1..Len(requests) : ~Waits(requests[k])
  <2>1. DOMAIN requests = 1..Len(requests)
    BY <1>4
  <2>2. QED BY <2>1 DEF Open, Blocked, Waits
<1>7. AjaxType'
  BY <1>3, <1>4, <1>5 DEF AjaxInv, AjaxType
<1>8. /\ \A k \in 1..Len(requests') : Waits(requests'[k]) => k = Len(requests')
      /\ \A k \in 1..Len(requests') : requests'[k].state = "sent" => requests'[k].handled <= 1
      /\ \A k \in 1..Len(requests') :
           requests'[k].state = "answered" => \E p \in 1..Len(arrived') : arrived'[p] = k
  <2>1. r.state = "sent" /\ r.handled = c
    BY <1>2
  <2>2. \A k \in 1..Len(requests') : k = Len(requests) + 1 \/ k \in 1..Len(requests)
    BY <1>5
  <2>3. QED BY <1>3, <1>5, <1>6, <2>1, <2>2 DEF AjaxInv
<1>9. \A p, q \in 1..Len(arrived') :
        Counts(requests'[arrived'[p]]) /\ arrived'[q] > arrived'[p] => q > p
  <2>1. \A p \in 1..Len(arrived) : requests'[arrived[p]] = requests[arrived[p]]
    BY <1>5 DEF AjaxInv, AjaxType
  <2>2. QED BY <1>3, <2>1 DEF AjaxInv
<1>10. ASSUME ~ActiveX(browser.navigator)
       PROVE  \A k \in 1..Len(requests') : requests'[k].handled = OnloadCalls(requests'[k])
  <2>1. c = 0
    BY <1>1, <1>10, CallsFacts
  <2>2. r.handled = OnloadCalls(r)
    BY <1>2, <2>1 DEF OnloadCalls
  <2>3. \A k \in 1..Len(requests) : requests'[k].handled = OnloadCalls(requests'[k])
    BY <1>5, <1>10 DEF AjaxInv
  <2>4. QED BY <1>5, <2>2, <2>3
<1>11. ActiveX(browser.navigator)' <=> ActiveX(browser.navigator)
  BY DEF ActiveX
<1>12. QED BY <1>7, <1>8, <1>9, <1>10, <1>11 DEF AjaxInv

LEMMA ArriveKeeps ==
  ASSUME AjaxInv, NEW k \in Nat, Arrive(k), browser' = browser
  PROVE  AjaxInv'
<1>1. requests \in Seq(Requests) /\ arrived \in Seq(Nat)
  BY DEF AjaxInv, AjaxType
<1>2. /\ k \in 1..Len(requests) /\ requests' = requests /\ arrived' = Append(arrived, k)
      /\ \A p \in 1..Len(arrived) : arrived[p] # k
  BY <1>1 DEF Arrive, Range
<1>3. /\ arrived' \in Seq(Nat) /\ Len(arrived') = Len(arrived) + 1 /\ Len(arrived) \in Nat
      /\ arrived'[Len(arrived) + 1] = k
      /\ \A p \in 1..Len(arrived) : arrived'[p] = arrived[p]
  BY <1>1, <1>2
<1>4. AjaxType'
  BY <1>2, <1>3 DEF AjaxInv, AjaxType
<1>5. ASSUME NEW p \in 1..Len(arrived'), NEW q \in 1..Len(arrived'),
             Counts(requests[arrived'[p]]), arrived'[q] > arrived'[p]
      PROVE  q > p
  <2>1. CASE p \in 1..Len(arrived) /\ q \in 1..Len(arrived)
    BY <1>3, <1>5, <2>1 DEF AjaxInv
  <2>2. CASE p \in 1..Len(arrived) /\ q = Len(arrived) + 1
    BY <1>3, <2>2
  <2>3. CASE p = Len(arrived) + 1
    <3>1. k = Len(requests)
      <4>1. Counts(requests[k]) /\ requests[k].state # "answered"
        BY <1>2, <1>3, <1>5, <2>3 DEF AjaxInv
      <4>2. requests[k] \in Requests
        BY <1>1, <1>2
      <4>3. Waits(requests[k])
        BY <4>1, <4>2 DEF Counts, Waits, Requests
      <4>4. QED BY <1>2, <4>3 DEF AjaxInv
    <3>2. arrived'[q] <= Len(requests) /\ arrived'[q] \in Nat
      BY <1>2, <1>4 DEF AjaxType
    <3>3. QED BY <1>2, <1>3, <1>5, <2>3, <3>1, <3>2
  <2>4. QED BY <1>3, <2>1, <2>2, <2>3
<1>6. ActiveX(browser.navigator)' <=> ActiveX(browser.navigator)
  BY DEF ActiveX
<1>7. \A j \in 1..Len(requests') :
        requests'[j].state = "answered" => \E p \in 1..Len(arrived') : arrived'[p] = j
  BY <1>2, <1>3 DEF AjaxInv
<1>8. QED BY <1>2, <1>4, <1>5, <1>6, <1>7 DEF AjaxInv

LEMMA FinishKeeps ==
  ASSUME AjaxInv, NEW k \in Nat, NEW state \in {"answered", "failed"}, Finish(k, state), browser' = browser
  PROVE  AjaxInv'
<1>1. requests \in Seq(Requests) /\ arrived \in Seq(Nat)
  BY DEF AjaxInv, AjaxType
<1>2. k \in 1..Len(requests) /\ requests[k].state = "sent" /\ arrived' = arrived
  BY <1>1 DEF Finish
<1>3. requests[k] \in Requests
  BY <1>1, <1>2
<1>4. PICK old \in Requests : old = requests[k]
  BY <1>3
<1>5. PICK c \in 0..1 : c = Calls(old.handler, state)
  BY CallsFacts DEF Requests
<1>6. PICK n \in 0..2 : n = old.handled + c
  <2>1. old.handled \in 0..1
    BY <1>2, <1>4 DEF Requests, AjaxInv
  <2>2. QED BY <2>1
<1>7. PICK r \in Requests : /\ r = [old EXCEPT !.state = state, !.handled = n]
                            /\ r.sync = old.sync /\ r.handler = old.handler
                            /\ r.state = state /\ r.handled = n
  <2>1. PICK r : r = [old EXCEPT !.state = state, !.handled = n]
    OBVIOUS
  <2>2. r \in Requests
    BY <2>1 DEF Requests
  <2>3. r.sync = old.sync /\ r.handler = old.handler /\ r.state = state /\ r.handled = n
    BY <2>1 DEF Requests
  <2>4. QED BY <2>1, <2>2, <2>3
<1>8. requests' = [requests EXCEPT ![k] = r]
  BY <1>4, <1>5, <1>6, <1>7 DEF Finish
<1>9. /\ requests' \in Seq(Requests) /\ Len(requests') = Len(requests)
      /\ requests'[k] = r /\ \A j \in 1..Len(requests) : j # k => requests'[j] = requests[j]
  BY <1>1, <1>2, <1>8
<1>10. AjaxType'
  BY <1>2, <1>9 DEF AjaxInv, AjaxType
<1>11. \A j \in 1..Len(requests') : requests'[j].sync = requests[j].sync
  BY <1>4, <1>7, <1>9
<1>12. /\ \A j \in 1..Len(requests') : Waits(requests'[j]) => j = Len(requests')
       /\ \A j \in 1..Len(requests') : requests'[j].state = "sent" => requests'[j].handled <= 1
  BY <1>7, <1>9 DEF AjaxInv, Waits
<1>13. ASSUME NEW j \in 1..Len(requests'), requests'[j].state = "answered"
       PROVE  \E p \in 1..Len(arrived') : arrived'[p] = j
  <2>1. CASE j = k
    <3>1. k \in Range(arrived)
      BY <1>7, <1>9, <1>13, <2>1 DEF Finish
    <3>2. QED BY <1>1, <1>2, <2>1, <3>1 DEF Range
  <2>2. CASE j # k
    BY <1>2, <1>9, <1>13, <2>2 DEF AjaxInv
  <2>3. QED BY <2>1, <2>2
<1>14. \A p, q \in 1..Len(arrived') :
         Counts(requests'[arrived'[p]]) /\ arrived'[q] > arrived'[p] => q > p
  <2>1. \A j \in 1..Len(requests) : Counts(requests'[j]) => Counts(requests[j])
    BY <1>2, <1>4, <1>7, <1>9 DEF Counts
  <2>2. QED BY <1>2, <2>1 DEF AjaxInv, AjaxType
<1>15. ASSUME ~ActiveX(browser.navigator)
       PROVE  \A j \in 1..Len(requests') : requests'[j].handled = OnloadCalls(requests'[j])
  <2>1. old.handled = 0
    BY <1>2, <1>4, <1>15 DEF AjaxInv, OnloadCalls
  <2>2. c = IF old.handler /\ state = "answered" THEN 1 ELSE 0
    BY <1>5, <1>15, CallsFacts DEF Requests
  <2>3. r.handled = OnloadCalls(r)
    BY <1>6, <1>7, <2>1, <2>2 DEF OnloadCalls
  <2>4. QED BY <1>9, <1>15, <2>3 DEF AjaxInv
<1>16. ActiveX(browser.navigator)' <=> ActiveX(browser.navigator)
  BY DEF ActiveX
<1>17. QED BY <1>10, <1>12, <1>14, <1>15, <1>16, <1>13 DEF AjaxInv

LEMMA NextAjax == AjaxInv /\ [Next]_vars => AjaxInv'
<1> SUFFICES ASSUME AjaxInv, [Next]_vars PROVE AjaxInv'
  OBVIOUS
<1>1. browser' = browser /\ (AjaxNext \/ UNCHANGED ajaxVars)
  BY NextParts
<1>2. CASE UNCHANGED ajaxVars
  <2>1. ActiveX(browser.navigator)' <=> ActiveX(browser.navigator)
    BY <1>1 DEF ActiveX
  <2>2. QED BY <1>2, <2>1 DEF AjaxInv, AjaxType, ajaxVars
<1>3. \A k \in 1..MaxRequests : k \in Nat
  OBVIOUS
<1>4. QED BY <1>1, <1>2, <1>3, OpenKeeps, ArriveKeeps, FinishKeeps DEF AjaxNext

LEMMA InitAjax == Init => AjaxInv
<1> SUFFICES ASSUME Init PROVE AjaxInv
  OBVIOUS
<1>1. requests = <<>> /\ arrived = <<>>
  BY DEF Init
<1>2. requests \in Seq(Requests) /\ arrived \in Seq(Nat) /\ Len(requests) = 0 /\ Len(arrived) = 0
  BY <1>1
<1>3. QED BY <1>2, BoundsAssumption DEF AjaxInv, AjaxType

\* What SyncSendAction sent and had answered arrived before anything sent later, and a handler
\* set with onload is called once, for the answer, in pages of any number of requests.
THEOREM SyncRequestsInOrder == Spec => []RequestsInOrder
<1>1. ASSUME AjaxInv PROVE RequestsInOrder
  <2>1. requests \in Seq(Requests) /\ arrived \in Seq(Nat)
    BY <1>1 DEF AjaxInv, AjaxType
  <2>2. DOMAIN arrived = 1..Len(arrived) /\ DOMAIN requests = 1..Len(requests)
    BY <2>1
  <2>3. QED BY <1>1, <2>2 DEF AjaxInv, RequestsInOrder, OnloadCalls, Counts
<1>2. QED BY <1>1, InitAjax, NextAjax, PTL DEF Spec

-----------------------------------------------------------------------------
(***************************************************************************)
(* BrowserDetect                                                           *)
(***************************************************************************)
LEMMA LastRow ==
  /\ DOMAIN dataBrowser = 1..12 /\ Len(dataBrowser) = 12
  /\ dataBrowser[12].from = "userAgent" /\ dataBrowser[12].subString = "Mozilla"
  /\ dataBrowser[12].versionSearch = "Mozilla"
<1>1. DOMAIN dataBrowser = 1..12 /\ Len(dataBrowser) = 12
  BY DEF dataBrowser
<1>2. dataBrowser[12] = Row("userAgent", "Mozilla", "Netscape", "Mozilla")
  BY DEF dataBrowser
<1>3. QED BY <1>1, <1>2 DEF Row

\* A search that ends after the table leaves the search string of the last row, which is
\* also what that row looks for: then the version is not found either.
LEMMA VersionFound ==
  ASSUME NEW n, n["appVersion"] \subseteq n["userAgent"], BrowserInit(n).version # "unknown"
  PROVE  \E i \in DOMAIN dataBrowser :
           /\ dataBrowser[i].identity = BrowserInit(n).browser
           /\ dataBrowser[i].versionSearch = BrowserInit(n).version
<1>1. PICK S : S = {i \in DOMAIN dataBrowser : Fits(n, dataBrowser[i])} \cup {Len(dataBrowser) + 1}
  OBVIOUS
<1>2. S \in SUBSET Nat /\ S # {} /\ S \subseteq 1..13 /\ 13 \in S
  BY <1>1, LastRow
<1>3. PICK m : m = FirstRow(dataBrowser, n)
  OBVIOUS
<1>4. m \in S /\ \A j \in S : m <= j
  BY <1>1, <1>2, <1>3, MinFacts DEF FirstRow
<1>5. PICK b : b = searchString(dataBrowser, n)
  OBVIOUS
<1>6. /\ BrowserInit(n).browser = b.identity
      /\ BrowserInit(n).version = searchVersion(b.versionSearchString, n)
  BY <1>5 DEF BrowserInit
<1>7. /\ b.versionSearchString = BrowserInit(n).version
      /\ b.versionSearchString \in n["userAgent"]
  BY <1>6 DEF searchVersion
<1>8. CASE m \in DOMAIN dataBrowser
  <2>1. b = [identity |-> dataBrowser[m].identity, versionSearchString |-> dataBrowser[m].versionSearch]
    BY <1>3, <1>5, <1>8, Zenon DEF searchString
  <2>2. b.identity = dataBrowser[m].identity /\ b.versionSearchString = dataBrowser[m].versionSearch
    BY <2>1
  <2>3. QED BY <1>6, <1>7, <1>8, <2>2
<1>9. CASE m \notin DOMAIN dataBrowser
  <2>1. b = [identity |-> "unknown", versionSearchString |-> Last(dataBrowser).versionSearch]
    BY <1>3, <1>5, <1>9, Zenon DEF searchString
  <2>2. b.versionSearchString = "Mozilla"
    BY <2>1, LastRow DEF Last
  <2>3. Fits(n, dataBrowser[12])
    BY <1>7, <2>2, LastRow DEF Fits
  <2>4. 12 \in S
    BY <1>1, <2>3, LastRow
  <2>5. m \in 1..12
    BY <1>2, <1>4, <2>4
  <2>6. QED BY <1>9, <2>5, LastRow
<1>10. QED BY <1>8, <1>9

\* The version is looked up with the search string of the row that named the browser, in
\* every navigator whose appVersion says nothing that its userAgent does not.
THEOREM VersionsOfBrowser ==
  ASSUME \A n \in Navigators : n["appVersion"] \subseteq n["userAgent"]
  PROVE  Spec => []VersionOfBrowser
<1>1. \A n \in Navigators : n["appVersion"] \subseteq n["userAgent"]
  OBVIOUS
<1>2. ASSUME Init PROVE VersionOfBrowser
  <2>1. PICK n \in Navigators : browser = [detected |-> BrowserInit(n), navigator |-> n]
    BY <1>2 DEF Init
  <2>2. browser.detected = BrowserInit(n)
    BY <2>1
  <2>3. n["appVersion"] \subseteq n["userAgent"]
    BY <1>1
  <2>4. QED BY <2>2, <2>3, VersionFound DEF VersionOfBrowser
<1>3. ASSUME VersionOfBrowser, [Next]_vars PROVE VersionOfBrowser'
  <2>1. browser' = browser
    BY <1>3, NextParts
  <2>2. QED BY <1>3, <2>1 DEF VersionOfBrowser
<1>4. QED BY <1>2, <1>3, PTL DEF Spec

-----------------------------------------------------------------------------
(***************************************************************************)
(* Types                                                                   *)
(***************************************************************************)
ButtonType ==
  /\ listeners \in 0..MaxListeners /\ {fnMouseDown, threw} \subseteq BOOLEAN
  /\ fnMouseDown => listeners > 0
  /\ color \in {"up", "down", "checked"} /\ timers \in 0..MaxTimers

CheckType == checkListeners \in 0..MaxListeners /\ {attached, painted} \subseteq BOOLEAN

CookieTypes == {NONE} \cup [value : CookieValues, expires : (0..(2 * MaxDays)) \cup {Session}]

CookieType == cookie \in [CookieNames -> CookieTypes] /\ today \in 0..MaxDays

TypeInv ==
  /\ part \in {"button", "check", "ajax", "cookie"}
  /\ ButtonType /\ CheckInv /\ CheckType /\ AjaxInv /\ CookieType

LEMMA NextButtonType == ASSUME ButtonType, [Next]_vars PROVE ButtonType'
<1>1. MaxTimers \in Nat /\ MaxListeners \in Nat
  BY BoundsAssumption
<1>2. ButtonNext \/ UNCHANGED buttonVars
  BY NextParts
<1>3. listeners \in 0..MaxListeners /\ fnMouseDown \in BOOLEAN /\ threw \in BOOLEAN
      /\ (fnMouseDown => listeners > 0)
      /\ color \in {"up", "down", "checked"} /\ timers \in 0..MaxTimers
  BY Zenon DEF ButtonType
<1>4. CASE AttachButton \/ DetachButton
  <2>1. threw' = threw /\ color' = color /\ timers' = timers /\ fnMouseDown' \in BOOLEAN
    BY <1>4 DEF AttachButton, DetachButton
  <2>2. listeners' \in 0..MaxListeners /\ (fnMouseDown' => listeners' > 0)
    BY <1>1, <1>3, <1>4 DEF AttachButton, DetachButton, AddEvent, DetachEvent
  <2>3. {fnMouseDown', threw'} \subseteq BOOLEAN
    BY <1>3, <2>1, Zenon
  <2>4. QED BY <1>3, <2>1, <2>2, <2>3 DEF ButtonType
<1>5. ASSUME NEW thrown \in 0..MaxListeners, ButtonDown(thrown) PROVE ButtonType'
  <2>1. listeners' = listeners /\ fnMouseDown' = fnMouseDown /\ color' = "down"
        /\ threw' \in BOOLEAN
    BY <1>5 DEF ButtonDown
  <2>2. timers' \in 0..MaxTimers
    BY <1>1, <1>3, <1>5 DEF ButtonDown
  <2>3. {fnMouseDown', threw'} \subseteq BOOLEAN
    BY <1>3, <2>1, Zenon
  <2>4. QED BY <1>3, <2>1, <2>2, <2>3 DEF ButtonType
<1>6. CASE OnButtonUp
  <2>1. UNCHANGED <<listeners, fnMouseDown, threw>> /\ color' = "up" /\ timers' \in 0..MaxTimers
    BY <1>1, <1>3, <1>6 DEF OnButtonUp
  <2>2. QED BY <2>1 DEF ButtonType
<1>7. ASSUME NEW b \in BOOLEAN, UpdateCheckButtonColor(b) PROVE ButtonType'
  <2>1. UNCHANGED <<listeners, fnMouseDown, threw, timers>> /\ color' \in {"up", "checked"}
    BY <1>7 DEF UpdateCheckButtonColor
  <2>2. QED BY <2>1 DEF ButtonType
<1>8. CASE UNCHANGED buttonVars
  BY <1>8 DEF ButtonType, buttonVars
<1>9. QED BY <1>2, <1>4, <1>5, <1>6, <1>7, <1>8 DEF ButtonNext

LEMMA NextCheckType == ASSUME CheckType, [Next]_vars PROVE CheckType'
<1>1. MaxListeners \in Nat
  BY BoundsAssumption
<1>2. CheckNext \/ UNCHANGED checkVars
  BY NextParts
<1>3. checkListeners' = checkListeners \/ (checkListeners < MaxListeners /\ checkListeners' = checkListeners + 1)
  BY <1>2, Zenon DEF CheckNext, AttachMultiSelectCheck, DettachMultiSelectCheck, AddEvent, DetachEvent, UpdateMultiSelectCheck,
     EnableMultiSelectCheck, checkVars
<1>4. attached' \in {attached, TRUE, FALSE} /\ painted' \in {painted, TRUE, FALSE}
  BY <1>2, Zenon DEF CheckNext, AttachMultiSelectCheck, DettachMultiSelectCheck, UpdateMultiSelectCheck,
     EnableMultiSelectCheck, checkVars
<1>5. checkListeners' \in 0..MaxListeners
  BY <1>1, <1>3 DEF CheckType
<1>6. {attached', painted'} \subseteq BOOLEAN
  BY <1>4, Zenon DEF CheckType
<1>7. QED BY <1>5, <1>6 DEF CheckType

LEMMA NextCookieType == ASSUME CookieType, [Next]_vars PROVE CookieType'
<1>1. MaxDays \in Nat /\ cookie \in [CookieNames -> CookieTypes] /\ today \in 0..MaxDays
  BY BoundsAssumption DEF CookieType
<1>2. CookieNext \/ UNCHANGED cookieVars
  BY NextParts
<1>3. ASSUME NEW name \in CookieNames, NEW v \in CookieValues, NEW days \in 0..MaxDays,
             CreateCookie(name, v, days)
      PROVE  CookieType'
  <2>1. today' = today /\ cookie' = [cookie EXCEPT ![name] = Keep(v, days)]
    BY <1>3 DEF CreateCookie
  <2>2. today + days \in 0..(2 * MaxDays) /\ ~(days < 0)
    BY <1>1
  <2>3. Keep(v, days) \in {[value |-> v, expires |-> Session], [value |-> v, expires |-> today + days]}
    BY <2>2, Zenon DEF Keep
  <2>4. Keep(v, days) \in CookieTypes
    BY <2>2, <2>3 DEF CookieTypes
  <2>5. QED BY <1>1, <2>1, <2>4 DEF CookieType
<1>4. ASSUME NEW name \in CookieNames, EraseCookie(name) PROVE CookieType'
  <2>1. -1 # 0 /\ -1 < 0
    OBVIOUS
  <2>2. Keep("", -1) = NONE
    BY <2>1, Zenon DEF Keep
  <2>3. today' = today /\ cookie' = [cookie EXCEPT ![name] = NONE]
    BY <1>4, <2>2, Zenon DEF EraseCookie
  <2>4. QED BY <1>1, <2>3 DEF CookieType, CookieTypes
<1>5. CASE DayPasses \/ CloseBrowser
  <2>1. today' \in 0..MaxDays
    BY <1>1, <1>5 DEF DayPasses, CloseBrowser
  <2>2. \A name \in CookieNames : cookie[name] \in CookieTypes /\ NONE \in CookieTypes
    BY <1>1 DEF CookieTypes
  <2>3. cookie' \in [CookieNames -> CookieTypes]
    BY <1>5, <2>2 DEF DayPasses, CloseBrowser, Without, Given
  <2>4. QED BY <2>1, <2>3 DEF CookieType
<1>6. CASE UNCHANGED cookieVars
  BY <1>6 DEF CookieType, cookieVars
<1>7. QED BY <1>2, <1>3, <1>4, <1>5, <1>6 DEF CookieNext

\* Every variable keeps its type; the bounds on listeners, time-outs and requests are
\* those of the guards, and a cookie lives at most twice as long as time is followed.
THEOREM TypeCorrect == Spec => []TypeOK
<1>1. ASSUME Init PROVE TypeInv
  <2>1. ButtonType
    <3>1. listeners = 0 /\ fnMouseDown = FALSE /\ threw = FALSE /\ color = "up" /\ timers = 0
      BY <1>1 DEF Init
    <3>2. 0 \in 0..MaxListeners /\ 0 \in 0..MaxTimers
      BY BoundsAssumption
    <3>3. QED BY <3>1, <3>2 DEF ButtonType
  <2>2. CheckInv
    BY <1>1 DEF Init, CheckInv, CheckStates
  <2>3. CheckType
    <3>1. checkListeners \in 0..MaxListeners
      BY <1>1, BoundsAssumption DEF Init
    <3>2. {attached, painted} \subseteq BOOLEAN
      BY <1>1, Zenon DEF Init
    <3>3. QED BY <3>1, <3>2 DEF CheckType
  <2>4. CookieType
    BY <1>1, BoundsAssumption DEF Init, CookieType, CookieTypes
  <2>5. part \in {"button", "check", "ajax", "cookie"}
    BY <1>1 DEF Init
  <2>6. QED BY <1>1, <2>1, <2>2, <2>3, <2>4, <2>5, InitAjax DEF TypeInv
<1>2. ASSUME TypeInv, [Next]_vars PROVE TypeInv'
  <2>1. CheckInv' /\ AjaxInv'
    BY <1>2, NextCheck, NextAjax DEF TypeInv
  <2>2. ButtonType' /\ CheckType' /\ CookieType'
    BY <1>2, NextButtonType, NextCheckType, NextCookieType DEF TypeInv
  <2>3. part' = part
    BY <1>2, NextParts
  <2>4. QED BY <1>2, <2>1, <2>2, <2>3 DEF TypeInv
<1>3. ASSUME TypeInv PROVE TypeOK
  <2>1. check \in [1..Checks -> [_Enable : BOOLEAN, _Selected : BOOLEAN,
                                 color : {"selected", "plain", "disabled"}]]
    BY <1>3 DEF TypeInv, CheckInv, CheckStates
  <2>2. requests \in Seq(Requests)
    BY <1>3 DEF TypeInv, AjaxInv, AjaxType
  <2>3. arrived \in Seq(1..MaxRequests)
    <3>1. arrived \in Seq(Nat) /\ MaxRequests \in Nat /\ Len(requests) <= MaxRequests
          /\ Len(requests) \in Nat
      BY <1>3, <2>2, BoundsAssumption DEF TypeInv, AjaxInv, AjaxType
    <3>2. \A p \in 1..Len(arrived) : arrived[p] \in 1..MaxRequests
      BY <1>3, <3>1 DEF TypeInv, AjaxInv, AjaxType
    <3>3. arrived \in [1..Len(arrived) -> 1..MaxRequests] /\ Len(arrived) \in Nat
      BY <3>1, <3>2
    <3>4. QED BY <3>3, SeqDef
  <2>4. QED
    BY <1>3, <2>1, <2>2, <2>3, Zenon DEF TypeInv, TypeOK, ButtonType, CheckType, CookieType, CookieTypes, Requests
<1>4. QED BY <1>1, <1>2, <1>3, PTL DEF Spec
=============================================================================

---------------------------- MODULE LedgerTabProofs ----------------------------
(***************************************************************************)
(* What holds of a Ledger tab for every set of artifacts and any number of *)
(* handlers under way: its types, and that the answer to the dialog goes   *)
(* to the import of the artifact the dialog shows.  The second is          *)
(* inductive together with the first because no handler but the one that   *)
(* asked stands at "asked" when the user answers, and because a handler    *)
(* only ever moves itself.  For the same reasons a record is verified      *)
(* afresh after anchoring.                                                 *)
(***************************************************************************)
EXTENDS LedgerTab, TLAPS

IInv == TypeOK /\ DialogAnswersItsImport

-----------------------------------------------------------------------------
(* Awaits. *)

\* What a handler carries at each await.
LEMMA AwaitCarries ==
    ASSUME NEW t \in Awaits
    PROVE  /\ t.at \in {"verify", "dedup", "asked", "keep", "import", "scan", "hear", "receive",
                        "anchor", "anchorPut", "relink", "attach", "encode"} => t.copy \in Copies
           /\ t.at = "decode" => t.copy \in Copies \cup {NoCopy}
           /\ t.at = "encode" => t.verdict \in Verdicts
           /\ t.at \in {"get", "remove"} => t.hash \in Hashes
           /\ t.at = "closing" => /\ t.hash \in Escalated
                                  /\ t.decision \in Decisions
                                  /\ t.folder \in BOOLEAN
           /\ t.at = "attach" => t.folder \in BOOLEAN
BY DEF Awaits, Idle, At, Of, On, Encoding, Closing, Attaching

\* Every await a handler can move to.
LEMMA AwaitForms ==
    /\ Idle \in Awaits
    /\ \A k \in {"list", "reflect", "evidence", "land"} : At(k) \in Awaits
    /\ \A k \in {"get", "remove"}, h \in Hashes : Of(k, h) \in Awaits
    /\ \A k \in {"verify", "decode", "dedup", "asked", "keep", "import", "scan", "hear",
                 "receive", "anchor", "anchorPut", "relink"}, c \in Copies : On(k, c) \in Awaits
    /\ On("decode", NoCopy) \in Awaits
    /\ \A c \in Copies, v \in Verdicts : Encoding(c, v) \in Awaits
    /\ \A h \in Escalated, d \in Decisions, f \in BOOLEAN : Closing(h, d, f) \in Awaits
    /\ \A c \in Copies, f \in BOOLEAN : Attaching(c, f) \in Awaits
BY DEF Awaits

LEMMA ScreenForms ==
    /\ \A p \in {"list", "about", "evidence"} : Shows(p) \in Screens
    /\ \A h \in Hashes : NotFound(h) \in Screens
    /\ \A c \in Copies : Loading(c) \in Screens
    /\ \A c \in Copies, v \in Verdicts : Record(c, v) \in Screens
BY DEF Screens

-----------------------------------------------------------------------------
(* What the steps shared by several handlers do. *)

\* Put and Delete keep the store keyed and its order over its rows.
LEMMA StoreStep ==
    ASSUME TypeOK,
           \/ \E c \in Copies : Put(c)
           \/ \E h \in Hashes : Delete(h)
    PROVE  /\ rows' \in [Hashes -> Copies \cup {NoCopy}] /\ \A h \in Stored' : rows'[h].hash = h
           /\ newer' \subseteq Stored' \X Stored'
<1>1. ASSUME NEW c \in Copies, Put(c)
      PROVE  /\ rows' \in [Hashes -> Copies \cup {NoCopy}] /\ \A h \in Stored' : rows'[h].hash = h
             /\ newer' \subseteq Stored' \X Stored'
  <2>1. c.hash \in Hashes
    BY DEF Copies
  <2>2. rows' \in [Hashes -> Copies \cup {NoCopy}]
    BY <1>1, <2>1 DEF Put, TypeOK
  <2>3. \A h \in Hashes : rows'[h] = IF h = c.hash THEN c ELSE rows[h]
    BY <1>1, <2>1 DEF Put, TypeOK
  <2>4. Stored' = Stored \cup {c.hash}
    BY <2>1, <2>3, TabAssumption DEF Stored, TabAssumption
  <2>5. \A h \in Stored' : rows'[h].hash = h
    BY <2>1, <2>3, <2>4 DEF TypeOK, Stored
  <2>6. newer' \subseteq newer \cup ({c.hash} \X Stored)
    BY <1>1 DEF Put, OrderWithout
  <2>7. newer' \subseteq Stored' \X Stored'
    BY <2>4, <2>6 DEF TypeOK
  <2> QED BY <2>2, <2>5, <2>7
<1>2. ASSUME NEW h \in Hashes, Delete(h)
      PROVE  /\ rows' \in [Hashes -> Copies \cup {NoCopy}] /\ \A g \in Stored' : rows'[g].hash = g
             /\ newer' \subseteq Stored' \X Stored'
  BY <1>2 DEF Delete, TypeOK, Stored, OrderWithout
<1> QED BY <1>1, <1>2
\* showRecord leaves the tab typed and moves only its own handler.
LEMMA ShowRecordStep ==
    ASSUME TypeOK, NEW i \in Ids, NEW c \in Copies,
           NEW cache \in [Hashes -> Verdicts \cup {"none"}], ShowRecord(i, c, cache)
    PROVE  /\ current' \in Hashes
           /\ screen' \in Screens
           /\ task' \in [Ids -> Awaits]
           /\ \A j \in Ids \ {i} : task'[j] = task[j]
<1>1. c.hash \in Hashes
  BY DEF Copies
<1>2. (IF cache[c.hash] = "none" THEN On("verify", c) ELSE Encoding(c, cache[c.hash])) \in Awaits
  BY <1>1, AwaitForms
<1>3. task' \in [Ids -> Awaits] /\ \A j \in Ids \ {i} : task'[j] = task[j]
  BY <1>2 DEF ShowRecord, GoTo, TypeOK
<1> QED BY <1>1, <1>3, ScreenForms DEF ShowRecord

\* So does route().
LEMMA RouteStep ==
    ASSUME TypeOK, NEW i \in Ids, NEW p \in Places, Route(i, p)
    PROVE  /\ place' \in Places
           /\ screen' \in Screens
           /\ task' \in [Ids -> Awaits]
           /\ \A j \in Ids \ {i} : task'[j] = task[j]
<1>1. PICK t \in Awaits : GoTo(i, t)
  <2>1. CASE p \in {Page("list"), Page("about"), Page("evidence")}
    BY <2>1, AwaitForms DEF Route, Page
  <2>2. CASE \E h \in Hashes : p = View(h)
    BY <2>2, AwaitForms DEF Route, View
  <2> QED BY <2>1, <2>2 DEF Places
<1>2. task' \in [Ids -> Awaits] /\ \A j \in Ids \ {i} : task'[j] = task[j]
  BY <1>1 DEF GoTo, TypeOK
<1>3. screen' \in Screens
  BY ScreenForms DEF Route, TypeOK
<1> QED BY <1>2, <1>3 DEF Route

\* A handler that is not the one that asked moves: the dialog keeps its answer.
LEMMA DialogKept ==
    ASSUME IInv, NEW i \in Ids, task[i].at # "asked",
           UNCHANGED <<dialog, asker>>,
           \A j \in Ids \ {i} : task'[j] = task[j]
    PROVE  DialogAnswersItsImport'
BY DEF IInv, TypeOK, DialogAnswersItsImport, On

LEMMA GoToStep ==
    ASSUME TypeOK, NEW i \in Ids, NEW t \in Awaits, GoTo(i, t)
    PROVE  task' \in [Ids -> Awaits] /\ \A j \in Ids \ {i} : task'[j] = task[j]
BY DEF GoTo, TypeOK

-----------------------------------------------------------------------------
(* What starts a handler. *)

LEMMA BeginStep ==
    ASSUME IInv, NEW i \in Ids, NEW t \in Awaits, Begin(i, t)
    PROVE  IInv'
<1>1. task' \in [Ids -> Awaits] /\ \A j \in Ids \ {i} : task'[j] = task[j]
  BY GoToStep DEF Begin, IInv
<1>2. task[i].at # "asked"
  BY DEF Begin, Idle
<1>3. TypeOK'
  BY <1>1 DEF Begin, TypeOK, IInv, Stored
<1>4. DialogAnswersItsImport'
  BY <1>1, <1>2, DialogKept DEF Begin
<1> QED BY <1>3, <1>4 DEF IInv

LEMMA StartStep ==
    ASSUME TabAssumption, IInv, NEW i \in Ids,
           \/ ClickAnchor(i)
           \/ \E p \in Places : Navigate(i, p)
           \/ \E c \in Incoming : Arrival(i, c)
           \/ \E c \in Incoming \cup {NoCopy} : OpenFragment(i, c)
           \/ \E h \in Escalated, d \in Decisions : ClosureArrival(i, h, d)
           \/ \E h \in Hashes : ClickRemove(i, h)
    PROVE  IInv'
<1>1. CASE ClickAnchor(i)
  <2>1. screen.copy \in Copies
    BY <1>1 DEF ClickAnchor, IInv, TypeOK, Screens, Shows, Loading, NotFound, Record
  <2>2. On("anchor", screen.copy) \in Awaits
    BY <2>1, AwaitForms
  <2> QED BY <1>1, <2>2, BeginStep DEF ClickAnchor
<1>2. ASSUME NEW p \in Places, Navigate(i, p) PROVE IInv'
  <2>1. /\ place' \in Places /\ screen' \in Screens /\ task' \in [Ids -> Awaits]
        /\ \A j \in Ids \ {i} : task'[j] = task[j]
    BY <1>2, RouteStep DEF Navigate, IInv
  <2>2. TypeOK'
    BY <1>2, <2>1 DEF Navigate, TypeOK, IInv, Stored
  <2>3. DialogAnswersItsImport'
    BY <1>2, <2>1, DialogKept DEF Navigate, Idle
  <2> QED BY <2>2, <2>3 DEF IInv
<1>3. ASSUME NEW c \in Incoming, Arrival(i, c) PROVE IInv'
  <2>1. PICK k \in {"import", "hear", "scan"} : Begin(i, On(k, c))
    BY <1>3, TabAssumption DEF Arrival, TabAssumption
  <2>2. On(k, c) \in Awaits
    BY AwaitForms, TabAssumption DEF TabAssumption
  <2> QED BY <2>1, <2>2, BeginStep
<1>4. ASSUME NEW c \in Incoming \cup {NoCopy}, OpenFragment(i, c) PROVE IInv'
  <2>1. On("decode", c) \in Awaits
    BY AwaitForms, TabAssumption DEF TabAssumption
  <2>2. task' \in [Ids -> Awaits] /\ \A j \in Ids \ {i} : task'[j] = task[j]
    BY <1>4, <2>1, GoToStep DEF OpenFragment, IInv
  <2>3. TypeOK'
    BY <1>4, <2>2 DEF OpenFragment, TypeOK, IInv, Stored
  <2>4. DialogAnswersItsImport'
    BY <1>4, <2>2, DialogKept DEF OpenFragment, Idle
  <2> QED BY <2>3, <2>4 DEF IInv
<1>5. ASSUME NEW h \in Escalated, NEW d \in Decisions, ClosureArrival(i, h, d) PROVE IInv'
  <2>1. PICK f \in BOOLEAN : Begin(i, Closing(h, d, f))
    BY <1>5 DEF ClosureArrival
  <2>2. Closing(h, d, f) \in Awaits
    BY AwaitForms
  <2> QED BY <2>1, <2>2, BeginStep
<1>6. ASSUME NEW h \in Hashes, ClickRemove(i, h) PROVE IInv'
  <2>1. Of("remove", h) \in Awaits
    BY AwaitForms
  <2> QED BY <1>6, <2>1, BeginStep DEF ClickRemove
<1> QED BY <1>1, <1>2, <1>3, <1>4, <1>5, <1>6

\* The user answers: by the invariant, the handler that asked holds what was shown.
LEMMA AnswerStep ==
    ASSUME TabAssumption, IInv, NEW keep \in BOOLEAN, Answer(keep)
    PROVE  IInv'
<1>1. asker \in Ids /\ task[asker] = On("asked", dialog) /\ dialog \in Copies
  BY DEF Answer, IInv, TypeOK, DialogAnswersItsImport
<1>2. task[asker].copy = dialog
  BY <1>1 DEF On
<1>3. /\ current' \in Hashes \cup {"null"} /\ screen' \in Screens
      /\ task' \in [Ids -> Awaits]
  <2>1. CASE keep
    <3>1. On("keep", dialog) \in Awaits
      BY <1>1, AwaitForms
    <3>2. GoTo(asker, On("keep", dialog)) /\ UNCHANGED <<screen, current>>
      BY <1>2, <2>1 DEF Answer
    <3> QED BY <1>1, <3>1, <3>2, GoToStep DEF IInv, TypeOK
  <2>2. CASE ~keep
    <3>1. ShowRecord(asker, dialog, vcache)
      BY <1>2, <2>2 DEF Answer
    <3>2. vcache \in [Hashes -> Verdicts \cup {"none"}]
      BY DEF IInv, TypeOK
    <3> QED BY <1>1, <3>1, <3>2, ShowRecordStep DEF IInv
  <2> QED BY <2>1, <2>2
<1>4. TypeOK'
  BY <1>3 DEF Answer, IInv, TypeOK, Stored
<1>5. DialogAnswersItsImport'
  BY DEF Answer, DialogAnswersItsImport
<1> QED BY <1>4, <1>5 DEF IInv

LEMMA OtherTabStep ==
    ASSUME TabAssumption, IInv, OtherTab
    PROVE  IInv'
<1>1. /\ rows' \in [Hashes -> Copies \cup {NoCopy}] /\ \A h \in Stored' : rows'[h].hash = h
      /\ newer' \subseteq Stored' \X Stored'
  BY StoreStep, TabAssumption DEF OtherTab, IInv, TabAssumption
<1>2. TypeOK'
  BY <1>1 DEF OtherTab, IInv, TypeOK
<1>3. DialogAnswersItsImport'
  BY DEF OtherTab, IInv, DialogAnswersItsImport
<1> QED BY <1>2, <1>3 DEF IInv

-----------------------------------------------------------------------------
(* What a handler does when its await is over. *)

\* Handlers that leave the store and the dialog alone.
LEMMA ReadingStep ==
    ASSUME TabAssumption, IInv, NEW i \in Ids,
           \/ RenderPage(i) \/ Resolve(i) \/ Verified(i) \/ Render(i) \/ Throw(i)
           \/ Decoded(i) \/ Duplicate(i) \/ Land(i) \/ FindEscalated(i)
           \/ AnchorAnswer(i) \/ Relink(i) \/ Heard(i)
    PROVE  IInv'
<1> DEFINE t == task[i]
<1>1. t \in Awaits /\ vcache \in [Hashes -> Verdicts \cup {"none"}]
  BY DEF IInv, TypeOK
<1>2. ASSUME NEW u \in Awaits, GoTo(i, u), t.at # "asked", UNCHANGED <<rows, newer, dialog, asker>>,
             vcache' \in [Hashes -> Verdicts \cup {"none"}], place' \in Places \cup {Fragment},
             screen' \in Screens, current' \in Hashes \cup {"null"}
      PROVE  IInv'
  <2>1. task' \in [Ids -> Awaits] /\ \A j \in Ids \ {i} : task'[j] = task[j]
    BY <1>2, GoToStep DEF IInv
  <2>2. TypeOK'
    BY <1>2, <2>1 DEF IInv, TypeOK, Stored
  <2> QED BY <1>2, <2>1, <2>2, DialogKept DEF IInv
<1>3. ASSUME NEW c \in Copies, NEW cache \in [Hashes -> Verdicts \cup {"none"}],
             ShowRecord(i, c, cache), t.at # "asked", UNCHANGED <<rows, newer, place, dialog, asker>>,
             vcache' \in [Hashes -> Verdicts \cup {"none"}]
      PROVE  IInv'
  <2>1. /\ current' \in Hashes /\ screen' \in Screens /\ task' \in [Ids -> Awaits]
        /\ \A j \in Ids \ {i} : task'[j] = task[j]
    BY <1>3, ShowRecordStep DEF IInv
  <2>2. TypeOK'
    BY <1>3, <2>1 DEF IInv, TypeOK, Stored
  <2> QED BY <1>3, <2>1, <2>2, DialogKept DEF IInv
<1>4. CASE RenderPage(i)
  <2>1. screen' \in Screens
    BY <1>4, ScreenForms DEF RenderPage
  <2> QED BY <1>2, <1>4, <2>1, AwaitForms DEF RenderPage, IInv, TypeOK
<1>5. CASE Resolve(i)
  <2>1. t.hash \in Hashes
    BY <1>1, <1>5, AwaitCarries DEF Resolve
  <2>2. CASE t.hash \in Stored
    <3>1. rows[t.hash] \in Copies
      BY <2>1, <2>2 DEF Stored, IInv, TypeOK
    <3> QED BY <1>1, <1>3, <1>5, <2>2, <3>1 DEF Resolve
  <2>3. CASE t.hash \notin Stored
    <3>1. NotFound(t.hash) \in Screens
      BY <2>1, ScreenForms
    <3> QED BY <1>2, <1>5, <2>3, <3>1, AwaitForms DEF Resolve, IInv, TypeOK
  <2> QED BY <2>2, <2>3
<1>6. CASE Verified(i)
  <2>1. t.copy \in Copies /\ Verdict(t.copy) \in Verdicts
    BY <1>1, <1>6, AwaitCarries DEF Verified, Verdict, Verdicts
  <2>2. Encoding(t.copy, Verdict(t.copy)) \in Awaits
    BY <2>1, AwaitForms
  <2>3. vcache' \in [Hashes -> Verdicts \cup {"none"}]
    BY <1>1, <1>6, <2>1 DEF Verified
  <2> QED BY <1>2, <1>6, <2>2, <2>3 DEF Verified, IInv, TypeOK
<1>7. CASE Render(i)
  <2>1. Record(t.copy, t.verdict) \in Screens
    BY <1>1, <1>7, AwaitCarries, ScreenForms DEF Render
  <2> QED BY <1>2, <1>7, <2>1, AwaitForms DEF Render, IInv, TypeOK
<1>8. CASE Decoded(i)
  <2>1. CASE t.copy = NoCopy
    <3>1. Page("list") \in Places
      BY DEF Places
    <3> QED BY <1>2, <1>8, <2>1, <3>1, AwaitForms DEF Decoded, IInv, TypeOK
  <2>2. CASE t.copy # NoCopy
    <3>1. t.copy \in Copies
      BY <1>1, <1>8, <2>2, AwaitCarries DEF Decoded
    <3>2. View(t.copy.hash) \in Places /\ On("dedup", t.copy) \in Awaits
      BY <3>1, AwaitForms DEF Places, Copies
    <3> QED BY <1>2, <1>8, <2>2, <3>2 DEF Decoded, IInv, TypeOK
  <2> QED BY <2>1, <2>2
<1>9. CASE Duplicate(i)
  <2>1. t.copy \in Copies
    BY <1>1, <1>9, AwaitCarries DEF Duplicate
  <2> QED BY <1>1, <1>3, <1>9, <2>1 DEF Duplicate
<1>10. CASE Land(i)
  <2>1. CASE Stored = {}
    BY <1>2, <1>10, <2>1, AwaitForms DEF Land, IInv, TypeOK
  <2>2. CASE Stored # {}
    <3>1. PICK h \in Newest : Route(i, View(h))
      BY <1>10, <2>2 DEF Land
    <3>2. View(h) \in Places
      BY <3>1 DEF Newest, Stored, Places
    <3>3. /\ place' \in Places /\ screen' \in Screens /\ task' \in [Ids -> Awaits]
          /\ \A j \in Ids \ {i} : task'[j] = task[j]
      BY <3>1, <3>2, RouteStep DEF IInv
    <3>4. TypeOK'
      BY <1>10, <3>3 DEF Land, IInv, TypeOK, Stored
    <3> QED BY <1>10, <3>3, <3>4, DialogKept DEF Land, IInv
  <2> QED BY <2>1, <2>2
<1>11. CASE FindEscalated(i)
  <2>1. t.hash \in Escalated /\ t.decision \in Decisions /\ t.folder \in BOOLEAN
    BY <1>1, <1>11, AwaitCarries DEF FindEscalated
  <2>2. PICK u \in Awaits : GoTo(i, u)
    <3>1. CASE t.hash \in Stored
      <4>1. rows[t.hash] \in Copies
        BY <3>1 DEF Stored, IInv, TypeOK
      <4>2. [rows[t.hash] EXCEPT !.closure = t.decision] \in Copies
        BY <2>1, <4>1, TabAssumption DEF Copies, TabAssumption
      <4> QED BY <1>11, <2>1, <3>1, <4>2, AwaitForms DEF FindEscalated
    <3>2. CASE t.hash \notin Stored
      BY <1>11, <3>2, AwaitForms DEF FindEscalated
    <3> QED BY <3>1, <3>2
  <2> QED BY <1>2, <1>11, <2>2 DEF FindEscalated, IInv, TypeOK
<1>12. CASE AnchorAnswer(i)
  <2>1. t.copy \in Copies
    BY <1>1, <1>12, AwaitCarries DEF AnchorAnswer
  <2>2. [t.copy EXCEPT !.anchored = TRUE] \in Copies
    BY <2>1 DEF Copies
  <2>3. PICK u \in Awaits : GoTo(i, u)
    BY <1>12, <2>2, AwaitForms DEF AnchorAnswer
  <2> QED BY <1>2, <1>12, <2>3 DEF AnchorAnswer, IInv, TypeOK
<1>13. CASE Relink(i)
  <2>1. t.copy \in Copies
    BY <1>1, <1>13, AwaitCarries DEF Relink
  <2>2. Forget(t.copy.hash) \in [Hashes -> Verdicts \cup {"none"}]
    BY <1>1 DEF Forget
  <2>3. CASE current = t.copy.hash
    BY <1>3, <1>13, <2>1, <2>2, <2>3 DEF Relink
  <2>4. CASE current # t.copy.hash
    BY <1>2, <1>13, <2>2, <2>4, AwaitForms DEF Relink, IInv, TypeOK
  <2> QED BY <2>3, <2>4
<1>14. CASE Heard(i)
  <2>1. t.copy \in Copies
    BY <1>1, <1>14, AwaitCarries DEF Heard
  <2>2. PICK u \in Awaits : GoTo(i, u)
    BY <1>14, <2>1, AwaitForms DEF Heard, Reflect
  <2> QED BY <1>2, <1>14, <2>2 DEF Heard, IInv, TypeOK
<1>15. CASE Throw(i)
  BY <1>2, <1>15, AwaitForms DEF Throw, IInv, TypeOK
<1> QED BY <1>4, <1>5, <1>6, <1>7, <1>8, <1>9, <1>10, <1>11, <1>12, <1>13, <1>14, <1>15

\* The dialog opens: the handler that asks is the one the buttons will resolve.
LEMMA AskStep ==
    ASSUME TabAssumption, IInv, NEW i \in Ids, Ask(i)
    PROVE  IInv'
<1>1. task[i].copy \in Copies
  BY AwaitCarries DEF Ask, IInv, TypeOK
<1>2. On("asked", task[i].copy) \in Awaits
  BY <1>1, AwaitForms
<1>3. task' \in [Ids -> Awaits]
  BY <1>2, AwaitForms DEF Ask, IInv, TypeOK
<1>4. TypeOK'
  BY <1>1, <1>3 DEF Ask, IInv, TypeOK, Stored
<1>5. DialogAnswersItsImport'
  BY TabAssumption DEF Ask, DialogAnswersItsImport, TabAssumption
<1> QED BY <1>4, <1>5 DEF IInv

\* Handlers that write the store.
LEMMA WritingStep ==
    ASSUME TabAssumption, IInv, NEW i \in Ids,
           \/ Keep(i) \/ Import(i) \/ AttachClosure(i) \/ AnchorPut(i) \/ Remove(i) \/ Receive(i)
    PROVE  IInv'
<1> DEFINE t == task[i]
<1>1. t \in Awaits /\ vcache \in [Hashes -> Verdicts \cup {"none"}]
  BY DEF IInv, TypeOK
<1>2. ASSUME t.at # "asked", UNCHANGED <<dialog, asker>>,
             \/ \E c \in Copies : Put(c)
             \/ \E h \in Hashes : Delete(h),
             task' \in [Ids -> Awaits], \A j \in Ids \ {i} : task'[j] = task[j],
             vcache' \in [Hashes -> Verdicts \cup {"none"}], place' \in Places \cup {Fragment},
             screen' \in Screens, current' \in Hashes \cup {"null"}
      PROVE  IInv'
  <2>1. /\ rows' \in [Hashes -> Copies \cup {NoCopy}] /\ \A h \in Stored' : rows'[h].hash = h
        /\ newer' \subseteq Stored' \X Stored'
    BY <1>2, StoreStep DEF IInv
  <2>2. TypeOK'
    BY <1>2, <2>1 DEF IInv, TypeOK
  <2> QED BY <1>2, <2>2, DialogKept DEF IInv
<1>3. CASE Keep(i)
  <2>1. t.copy \in Copies
    BY <1>1, <1>3, AwaitCarries DEF Keep
  <2>2. /\ current' \in Hashes /\ screen' \in Screens /\ task' \in [Ids -> Awaits]
        /\ \A j \in Ids \ {i} : task'[j] = task[j]
    BY <1>1, <1>3, <2>1, ShowRecordStep DEF Keep, IInv
  <2> QED BY <1>2, <1>3, <2>1, <2>2 DEF Keep, IInv, TypeOK
<1>4. CASE Import(i)
  <2>1. t.copy \in Copies
    BY <1>1, <1>4, AwaitCarries DEF Import
  <2>2. PICK u \in Awaits : GoTo(i, u)
    BY <1>4, AwaitForms DEF Import
  <2>3. task' \in [Ids -> Awaits] /\ \A j \in Ids \ {i} : task'[j] = task[j]
    BY <2>2, GoToStep DEF IInv
  <2> QED BY <1>2, <1>4, <2>1, <2>3 DEF Import, IInv, TypeOK
<1>5. CASE AttachClosure(i)
  <2>1. t.copy \in Copies /\ t.copy.hash \in Hashes
    BY <1>1, <1>5, AwaitCarries DEF AttachClosure, Copies
  <2>2. vcache' \in [Hashes -> Verdicts \cup {"none"}]
    BY <1>1, <1>5 DEF AttachClosure, Forget
  <2>3. /\ place' \in Places \cup {Fragment} /\ screen' \in Screens /\ task' \in [Ids -> Awaits]
        /\ \A j \in Ids \ {i} : task'[j] = task[j]
    <3>1. CASE t.folder
      <4>1. GoTo(i, Idle) /\ UNCHANGED <<place, screen>>
        BY <1>5, <3>1 DEF AttachClosure
      <4> QED BY <4>1, AwaitForms, GoToStep DEF IInv, TypeOK
    <3>2. CASE ~t.folder
      <4>1. Route(i, View(t.copy.hash)) /\ View(t.copy.hash) \in Places
        BY <1>5, <2>1, <3>2 DEF AttachClosure, Places
      <4> QED BY <4>1, RouteStep DEF IInv
    <3> QED BY <3>1, <3>2
  <2> QED BY <1>2, <1>5, <2>1, <2>2, <2>3 DEF AttachClosure, IInv, TypeOK
<1>6. CASE AnchorPut(i)
  <2>1. t.copy \in Copies
    BY <1>1, <1>6, AwaitCarries DEF AnchorPut
  <2>2. task' \in [Ids -> Awaits] /\ \A j \in Ids \ {i} : task'[j] = task[j]
    BY <1>6, <2>1, AwaitForms, GoToStep DEF AnchorPut, IInv
  <2> QED BY <1>2, <1>6, <2>1, <2>2 DEF AnchorPut, IInv, TypeOK
<1>7. CASE Remove(i)
  <2>1. t.hash \in Hashes
    BY <1>1, <1>7, AwaitCarries DEF Remove
  <2>2. vcache' \in [Hashes -> Verdicts \cup {"none"}]
    BY <1>1, <1>7 DEF Remove, Forget
  <2>3. task' \in [Ids -> Awaits] /\ \A j \in Ids \ {i} : task'[j] = task[j]
    BY <1>7, AwaitForms, GoToStep DEF Remove, IInv
  <2> QED BY <1>2, <1>7, <2>1, <2>2, <2>3 DEF Remove, IInv, TypeOK
<1>8. CASE Receive(i)
  <2>1. t.copy \in Copies
    BY <1>1, <1>8, AwaitCarries DEF Receive
  <2>2. PICK u \in Awaits : GoTo(i, u)
    BY <1>8, AwaitForms DEF Receive, Reflect
  <2>3. task' \in [Ids -> Awaits] /\ \A j \in Ids \ {i} : task'[j] = task[j]
    BY <2>2, GoToStep DEF IInv
  <2> QED BY <1>2, <1>8, <2>1, <2>3 DEF Receive, IInv, TypeOK
<1> QED BY <1>3, <1>4, <1>5, <1>6, <1>7, <1>8

-----------------------------------------------------------------------------
LEMMA TabInit ==
    ASSUME TabAssumption, Init PROVE IInv
<1>1. Shows("list") \in Screens /\ Page("list") \in Places /\ Idle \in Awaits
  BY ScreenForms, AwaitForms DEF Places
<1> QED BY <1>1 DEF Init, IInv, TypeOK, DialogAnswersItsImport, Stored

LEMMA TabStep ==
    ASSUME TabAssumption, IInv, [Next]_vars PROVE IInv'
<1>1. CASE UNCHANGED vars
  BY <1>1 DEF vars, IInv, TypeOK, DialogAnswersItsImport, Stored
<1>2. ASSUME NEW i \in Ids, Continue(i) \/ AnchorAnswer(i) PROVE IInv'
  BY <1>2, ReadingStep, AskStep, WritingStep DEF Continue
<1>3. CASE Next
  BY <1>2, <1>3, StartStep, AnswerStep, OtherTabStep DEF Next
<1> QED BY <1>1, <1>3

LEMMA TabInductive ==
    ASSUME TabAssumption PROVE Spec => []IInv
<1>1. Init => IInv
  BY TabInit
<1>2. IInv /\ [Next]_vars => IInv'
  BY TabStep
<1> QED BY <1>1, <1>2, PTL DEF Spec

\* Type correctness of a tab, for any artifacts and any number of handlers; in
\* particular a row is always filed under the hash its artifact claims.
THEOREM TabTypeCorrect == Spec => []TypeOK
<1>1. IInv => TypeOK
  BY DEF IInv
<1> QED BY <1>1, TabAssumption, TabInductive, PTL

\* "Save" stores what the dialog shows, however many fragments are being imported.
THEOREM SaveIsOfWhatIsShown == Spec => []DialogAnswersItsImport
<1>1. IInv => DialogAnswersItsImport
  BY DEF IInv
<1> QED BY <1>1, TabAssumption, TabInductive, PTL

-----------------------------------------------------------------------------
(***************************************************************************)
(* Anchoring.  The handler that waits for the new link is moved by nobody  *)
(* else: the answer to the dialog and a second question reach only the     *)
(* handler that asked, which is one (NoStaleAsker) and stands elsewhere.   *)
(***************************************************************************)
NoStaleAsker == dialog = NoCopy => asker = "null"

\* The resolver goes with the dialog.
LEMMA NoStaleAskerStep ==
    ASSUME TabAssumption, IInv, NoStaleAsker, [Next]_vars
    PROVE  NoStaleAsker'
<1>1. ASSUME NEW i \in Ids, Ask(i) PROVE NoStaleAsker'
  <2>1. task[i].copy \in Copies
    BY <1>1, AwaitCarries DEF Ask, IInv, TypeOK
  <2> QED BY <1>1, <2>1, TabAssumption DEF Ask, NoStaleAsker, TabAssumption
<1>2. ASSUME NEW keep \in BOOLEAN, Answer(keep) PROVE NoStaleAsker'
  BY <1>2 DEF Answer, NoStaleAsker
<1>3. CASE UNCHANGED <<dialog, asker>>
  BY <1>3 DEF NoStaleAsker
<1>4. ASSUME NEW i \in Ids, Continue(i) \/ AnchorAnswer(i)
      PROVE  UNCHANGED <<dialog, asker>> \/ Ask(i)
  BY <1>4 DEF Continue, AnchorAnswer, RenderPage, Resolve, Verified, Render, Throw, Decoded, Duplicate,
              Keep, Import, Land, FindEscalated, AttachClosure, AnchorPut, Relink, Remove,
              Heard, Receive
<1>5. ASSUME NEW i \in Ids,
             \/ ClickAnchor(i)
             \/ \E p \in Places : Navigate(i, p)
             \/ \E c \in Incoming : Arrival(i, c)
             \/ \E c \in Incoming \cup {NoCopy} : OpenFragment(i, c)
             \/ \E h \in Escalated, d \in Decisions : ClosureArrival(i, h, d)
             \/ \E h \in Hashes : ClickRemove(i, h)
      PROVE  UNCHANGED <<dialog, asker>>
  BY <1>5 DEF ClickAnchor, Navigate, Arrival, OpenFragment, ClosureArrival, ClickRemove, Begin
<1>6. OtherTab \/ UNCHANGED vars => UNCHANGED <<dialog, asker>>
  BY DEF OtherTab, vars
<1> QED BY <1>1, <1>2, <1>3, <1>4, <1>5, <1>6 DEF Next

\* A handler that starts, or goes on from an await of its own, moves no other.
LEMMA MovesItself ==
    ASSUME TypeOK, NEW j \in Ids, NEW i \in Ids \ {j},
           \/ Continue(j) /\ ~Ask(j)
           \/ AnchorAnswer(j) \/ ClickAnchor(j)
           \/ \E p \in Places : Navigate(j, p)
           \/ \E c \in Incoming : Arrival(j, c)
           \/ \E c \in Incoming \cup {NoCopy} : OpenFragment(j, c)
           \/ \E h \in Escalated, d \in Decisions : ClosureArrival(j, h, d)
           \/ \E h \in Hashes : ClickRemove(j, h)
    PROVE  task'[i] = task[i]
<1>1. ASSUME NEW t, GoTo(j, t) PROVE task'[i] = task[i]
  BY <1>1 DEF GoTo, TypeOK
<1>2. ASSUME NEW p, Route(j, p) PROVE task'[i] = task[i]
  BY <1>1, <1>2 DEF Route
<1>3. ASSUME NEW c, NEW cache, ShowRecord(j, c, cache) PROVE task'[i] = task[i]
  BY <1>1, <1>3 DEF ShowRecord
<1>4. Reflect(j) => task'[i] = task[i]
  BY <1>1 DEF Reflect
<1>5. ASSUME NEW t, Begin(j, t) PROVE task'[i] = task[i]
  BY <1>1, <1>5 DEF Begin
<1>6. CASE Continue(j) /\ ~Ask(j)
  BY <1>1, <1>2, <1>3, <1>4, <1>6
     DEF Continue, RenderPage, Resolve, Verified, Render, Throw, Decoded, Duplicate, Keep, Import, Land,
         FindEscalated, AttachClosure, AnchorPut, Relink, Remove, Heard, Receive
<1>7. CASE AnchorAnswer(j)
  BY <1>1, <1>7 DEF AnchorAnswer
<1>8. CASE ClickAnchor(j)
  BY <1>5, <1>8 DEF ClickAnchor
<1>9. ASSUME NEW p \in Places, Navigate(j, p) PROVE task'[i] = task[i]
  BY <1>2, <1>9 DEF Navigate
<1>10. ASSUME NEW c \in Incoming, Arrival(j, c) PROVE task'[i] = task[i]
  BY <1>5, <1>10 DEF Arrival
<1>11. ASSUME NEW c, OpenFragment(j, c) PROVE task'[i] = task[i]
  BY <1>1, <1>11 DEF OpenFragment
<1>12. ASSUME NEW h, NEW d, ClosureArrival(j, h, d) PROVE task'[i] = task[i]
  BY <1>5, <1>12 DEF ClosureArrival
<1>13. ASSUME NEW h, ClickRemove(j, h) PROVE task'[i] = task[i]
  BY <1>5, <1>13 DEF ClickRemove
<1> QED BY <1>6, <1>7, <1>8, <1>9, <1>10, <1>11, <1>12, <1>13

\* Nothing but Relink is open to the handler that waits for the new link.
LEMMA WaitsForLink ==
    ASSUME NEW i \in Ids, task[i].at = "relink",
           \/ Continue(i) \/ AnchorAnswer(i) \/ ClickAnchor(i)
           \/ \E p \in Places : Navigate(i, p)
           \/ \E c \in Incoming : Arrival(i, c)
           \/ \E c \in Incoming \cup {NoCopy} : OpenFragment(i, c)
           \/ \E h \in Escalated, d \in Decisions : ClosureArrival(i, h, d)
           \/ \E h \in Hashes : ClickRemove(i, h)
    PROVE  Relink(i)
<1>1. task[i] # Idle
  BY DEF Idle
<1>2. Continue(i) => Relink(i)
  BY DEF Continue, RenderPage, Resolve, Verified, Render, Throw, Decoded, Duplicate, Ask, Keep, Import,
         Land, FindEscalated, AttachClosure, AnchorPut, Remove, Heard, Receive
<1> QED BY <1>1, <1>2 DEF AnchorAnswer, ClickAnchor, Navigate, Arrival, OpenFragment,
                          ClosureArrival, ClickRemove, Begin

\* Whatever other handlers put in the cache while the new link was made, the record
\* shown again after anchoring is verified afresh (1624-1626).
THEOREM AnchoringReverifies == Spec => AnchorReverifies
<1> DEFINE Kept(i) == task'[i] \in {task[i], On("verify", task[i].copy)}
<1>1. ASSUME IInv, NoStaleAsker, [Next]_vars, NEW i \in Ids,
             task[i].at = "relink", current = task[i].copy.hash
      PROVE  Kept(i)
  <2>1. i # asker
    BY <1>1, TabAssumption DEF IInv, DialogAnswersItsImport, NoStaleAsker, TabAssumption, On
  <2>2. task[i].copy \in Copies /\ task[i].copy.hash \in Hashes
    BY <1>1, AwaitCarries DEF IInv, TypeOK, Copies
  <2>3. CASE Relink(i)
    <3>1. Forget(task[i].copy.hash)[task[i].copy.hash] = "none"
      BY <1>1, <2>2 DEF Forget, IInv, TypeOK
    <3>2. GoTo(i, On("verify", task[i].copy))
      BY <1>1, <2>3, <3>1 DEF Relink, ShowRecord
    <3> QED BY <1>1, <3>2 DEF GoTo, IInv, TypeOK
  <2>4. ASSUME NEW j \in Ids, Ask(j) PROVE Kept(i)
    <3>1. j # i
      BY <1>1, <2>4 DEF Ask
    <3> QED BY <2>1, <2>4, <3>1 DEF Ask
  <2>5. ASSUME NEW keep \in BOOLEAN, Answer(keep) PROVE Kept(i)
    BY <1>1, <2>1, <2>5 DEF Answer, ShowRecord, GoTo, IInv, TypeOK
  <2>6. OtherTab \/ UNCHANGED vars => Kept(i)
    BY DEF OtherTab, vars
  <2>7. ASSUME NEW j \in Ids,
               \/ Continue(j) \/ AnchorAnswer(j) \/ ClickAnchor(j)
               \/ \E p \in Places : Navigate(j, p)
               \/ \E c \in Incoming : Arrival(j, c)
               \/ \E c \in Incoming \cup {NoCopy} : OpenFragment(j, c)
               \/ \E h \in Escalated, d \in Decisions : ClosureArrival(j, h, d)
               \/ \E h \in Hashes : ClickRemove(j, h)
        PROVE  Kept(i)
    <3>1. CASE j = i
      BY <1>1, <2>3, <2>7, <3>1, WaitsForLink
    <3>2. CASE j # i
      <4>1. CASE Ask(j)
        BY <2>4, <4>1
      <4>2. CASE ~Ask(j)
        <5>1. task'[i] = task[i]
          BY <1>1, <2>7, <3>2, <4>2, MovesItself DEF IInv
        <5> QED BY <5>1
      <4> QED BY <4>1, <4>2
    <3> QED BY <3>1, <3>2
  <2> QED BY <1>1, <2>5, <2>6, <2>7 DEF Next
<1>2. IInv /\ NoStaleAsker /\ [Next]_vars
        => [\A i \in Ids : task[i].at = "relink" /\ current = task[i].copy.hash => Kept(i)]_vars
  BY <1>1
<1>3. Init => NoStaleAsker
  BY DEF Init, NoStaleAsker
<1>4. IInv /\ NoStaleAsker /\ [Next]_vars => NoStaleAsker'
  BY TabAssumption, NoStaleAskerStep
<1> QED BY <1>2, <1>3, <1>4, TabAssumption, TabInductive, PTL DEF Spec, AnchorReverifies
=============================================================================

------------------------- MODULE LedgerChannelProofs -------------------------
(***************************************************************************)
(* What holds of the live channel for every set of calls, tabs and         *)
(* receipts: its types, and that an acknowledgement never claims a row the *)
(* store has not had.  The inductive invariant adds to that what a handler *)
(* knows between its two transactions: a handler about to answer has seen  *)
(* or written the row (JobsHold), and rows come from nowhere else          *)
(* (RowsWereStored).  The second half counts: answers given and answers    *)
(* owed together are at most one for each call and tab.                    *)
(***************************************************************************)
EXTENDS LedgerChannel, TLAPS, FiniteSetTheorems

JobsHold ==
    \A j \in jobs : (j.step = "stored" \/ j.status = "duplicate") => j.body \in ever

RowsWereStored == store \subseteq ever

\* The two halves of AckedWasStored: messages under way, answers taken.
InboxHolds  == \A e \in Ends : \A i \in DOMAIN inbox[e] : Holds(inbox[e][i])
AnswersHold == \A s \in Sends : call[s].answer # NoReceipt => Holds(call[s].answer)

IInv == TypeOK /\ InboxHolds /\ AnswersHold /\ JobsHold /\ RowsWereStored

-----------------------------------------------------------------------------
(* Messages. *)

\* What a post does to a typed set of inboxes: it stays typed.
LEMMA PostType ==
    ASSUME NEW box \in [Ends -> Seq(Messages)], NEW m \in Messages
    PROVE  Post(box, m) \in [Ends -> Seq(Messages)]
<1>1. \A e \in Ends : Append(box[e], m) \in Seq(Messages)
  OBVIOUS
<1> QED BY <1>1 DEF Post

\* A post of a message that holds leaves only messages that hold.
LEMMA PostHolds ==
    ASSUME NEW box \in [Ends -> Seq(Messages)], NEW m \in Messages,
           Holds(m),
           \A e \in Ends : \A i \in DOMAIN box[e] : Holds(box[e][i])
    PROVE  \A e \in Ends : \A i \in DOMAIN Post(box, m)[e] : Holds(Post(box, m)[e][i])
<1> SUFFICES ASSUME NEW e \in Ends, NEW i \in DOMAIN Post(box, m)[e]
             PROVE  Holds(Post(box, m)[e][i])
  OBVIOUS
<1>1. CASE e \in open /\ e # m.from
  <2>1. Post(box, m)[e] = Append(box[e], m)
    BY <1>1 DEF Post
  <2>2. box[e] \in Seq(Messages)
    OBVIOUS
  <2>3. CASE i \in DOMAIN box[e]
    <3>1. Post(box, m)[e][i] = box[e][i]
      BY <2>1, <2>2, <2>3
    <3> QED BY <3>1, <2>3
  <2>4. CASE i \notin DOMAIN box[e]
    <3>1. i = Len(box[e]) + 1
      BY <2>1, <2>2, <2>4
    <3>2. Post(box, m)[e][i] = m
      BY <2>1, <2>2, <3>1
    <3> QED BY <3>2
  <2> QED BY <2>3, <2>4
<1>2. CASE ~(e \in open /\ e # m.from)
  <2>1. Post(box, m)[e] = box[e]
    BY <1>2 DEF Post
  <2> QED BY <2>1
<1> QED BY <1>1, <1>2

\* Taking the next message leaves a typed inbox of messages that were there.
LEMMA RestFacts ==
    ASSUME TypeOK, NEW t \in Ends, inbox[t] # << >>
    PROVE  /\ Head(inbox[t]) \in Messages
           /\ Rest(t) \in [Ends -> Seq(Messages)]
           /\ (\A e \in Ends : \A i \in DOMAIN inbox[e] : Holds(inbox[e][i]))
                 => /\ \A e \in Ends : \A i \in DOMAIN Rest(t)[e] : Holds(Rest(t)[e][i])
                    /\ Holds(Head(inbox[t]))
<1>1. inbox[t] \in Seq(Messages)
  BY DEF TypeOK
<1>2. Head(inbox[t]) \in Messages /\ Tail(inbox[t]) \in Seq(Messages)
  BY <1>1
<1>3. Rest(t) \in [Ends -> Seq(Messages)]
  BY <1>2 DEF Rest, TypeOK
<1>4. ASSUME \A e \in Ends : \A i \in DOMAIN inbox[e] : Holds(inbox[e][i])
      PROVE  /\ \A e \in Ends : \A i \in DOMAIN Rest(t)[e] : Holds(Rest(t)[e][i])
             /\ Holds(Head(inbox[t]))
  <2>1. 1 \in DOMAIN inbox[t] /\ Head(inbox[t]) = inbox[t][1]
    BY <1>1
  <2>2. Holds(Head(inbox[t]))
    BY <2>1, <1>4
  <2>3. ASSUME NEW e \in Ends, NEW i \in DOMAIN Rest(t)[e]
        PROVE  Holds(Rest(t)[e][i])
    <3>1. CASE e = t
      <4>1. Rest(t)[e] = Tail(inbox[t])
        BY <3>1 DEF Rest, TypeOK
      <4>2. i + 1 \in DOMAIN inbox[t] /\ Tail(inbox[t])[i] = inbox[t][i + 1]
        BY <1>1, <4>1
      <4> QED BY <4>1, <4>2, <1>4
    <3>2. CASE e # t
      <4>1. Rest(t)[e] = inbox[e]
        BY <3>2 DEF Rest, TypeOK
      <4> QED BY <4>1, <1>4
    <3> QED BY <3>1, <3>2
  <2> QED BY <2>2, <2>3
<1> QED BY <1>2, <1>3, <1>4

-----------------------------------------------------------------------------
(* The inductive invariant. *)

LEMMA InitIInv ==
    ASSUME ChannelAssumption, Init PROVE IInv
<1>1. \A e \in Ends : inbox[e] = << >>
  BY DEF Init
<1>2. TypeOK
  BY DEF Init, TypeOK, Ends, ChannelAssumption
<1>3. InboxHolds
  BY <1>1 DEF InboxHolds
<1>4. AnswersHold /\ JobsHold /\ RowsWereStored
  BY DEF Init, AnswersHold, JobsHold, RowsWereStored
<1> QED BY <1>2, <1>3, <1>4 DEF IInv

\* What the page does: posting, hearing, giving up.
LEMMA PageStep ==
    ASSUME ChannelAssumption, IInv, NEW s \in Sends,
           \/ \E r \in Receipts : Send(s, r) \/ SendUnreachable(s, r)
           \/ Hear(s) \/ Timeout(s)
    PROVE  IInv'
<1> USE DEF IInv
<1>1. ASSUME NEW r \in Receipts, Send(s, r) PROVE IInv'
  <2>1. Receipt(s, r) \in Messages /\ Holds(Receipt(s, r))
    BY DEF Holds, Messages, Receipt
  <2>2. inbox \in [Ends -> Seq(Messages)]
    BY DEF TypeOK
  <2>3. inbox' \in [Ends -> Seq(Messages)]
    BY <1>1, <2>1, <2>2, PostType DEF Send
  <2>4. TypeOK'
    BY <1>1, <2>3 DEF Send, TypeOK, Ends
  <2>5. \A e \in Ends : \A i \in DOMAIN inbox'[e] : Holds(inbox'[e][i])
    BY <1>1, <2>1, <2>2, PostHolds DEF Send, InboxHolds
  <2>6. InboxHolds'
    BY <1>1, <2>5 DEF Send, InboxHolds, Holds
  <2>7. AnswersHold' /\ JobsHold' /\ RowsWereStored'
    BY <1>1 DEF Send, AnswersHold, JobsHold, RowsWereStored, TypeOK, Holds
  <2> QED BY <2>4, <2>6, <2>7
<1>2. ASSUME NEW r \in Receipts, SendUnreachable(s, r) PROVE IInv'
  <2>1. TypeOK'
    BY <1>2 DEF SendUnreachable, TypeOK, Ends
  <2>2. InboxHolds' /\ AnswersHold' /\ JobsHold' /\ RowsWereStored'
    BY <1>2 DEF SendUnreachable, InboxHolds, AnswersHold, JobsHold, RowsWereStored, TypeOK, Holds
  <2> QED BY <2>1, <2>2
<1>3. ASSUME NEW v \in Messages \cup {NoReceipt}, v # NoReceipt => Holds(v), Finish(s, v)
      PROVE  IInv'
  <2>1. << >> \in Seq(Messages) /\ inbox \in [Ends -> Seq(Messages)] /\ s \in Ends
    BY DEF TypeOK, Ends
  <2>2. call' \in [Sends -> [state: {"idle", "waiting", "done"},
                            body: Receipts \cup {NoReceipt},
                            answer: Messages \cup {NoReceipt}]]
    BY <1>3 DEF Finish, TypeOK
  <2>4. TypeOK'
    BY <1>3, <2>1, <2>2 DEF Finish, TypeOK
  <2>5. InboxHolds'
    <3> SUFFICES ASSUME NEW e \in Ends, NEW i \in DOMAIN inbox'[e]
                 PROVE  Holds(inbox'[e][i])
      BY <1>3 DEF Finish, InboxHolds, Holds
    <3>1. e # s /\ inbox'[e] = inbox[e]
      BY <1>3, <2>1 DEF Finish
    <3> QED BY <3>1 DEF InboxHolds
  <2>3. AnswersHold' /\ JobsHold' /\ RowsWereStored'
    BY <1>3 DEF Finish, AnswersHold, JobsHold, RowsWereStored, TypeOK, Holds
  <2> QED BY <2>3, <2>4, <2>5
<1>4. CASE Timeout(s)
  BY <1>3, <1>4 DEF Timeout
<1>5. CASE Hear(s)
  <2>1. s \in Ends /\ inbox[s] # << >>
    BY <1>5 DEF Hear, Ends
  <2>2. Head(inbox[s]) \in Messages /\ Holds(Head(inbox[s]))
    BY <2>1, RestFacts DEF InboxHolds
  <2>3. CASE IsAck(Head(inbox[s]))
    BY <1>3, <1>5, <2>2, <2>3 DEF Hear
  <2>4. CASE ~IsAck(Head(inbox[s]))
    <3>1. inbox' = Rest(s) /\ UNCHANGED <<store, open, call, jobs, ever, acks, lost>>
      BY <1>5, <2>4 DEF Hear, Rest
    <3>2. Rest(s) \in [Ends -> Seq(Messages)]
      BY <2>1, RestFacts
    <3>3. \A e \in Ends : \A i \in DOMAIN Rest(s)[e] : Holds(Rest(s)[e][i])
      BY <2>1, RestFacts DEF InboxHolds
    <3>4. TypeOK'
      BY <3>1, <3>2 DEF TypeOK
    <3>5. InboxHolds'
      BY <3>1, <3>3 DEF InboxHolds, Holds
    <3>6. AnswersHold' /\ JobsHold' /\ RowsWereStored'
      BY <3>1 DEF AnswersHold, JobsHold, RowsWereStored, Holds
    <3> QED BY <3>4, <3>5, <3>6
  <2> QED BY <2>3, <2>4
<1> QED BY <1>1, <1>2, <1>4, <1>5

\* What a tab does with its next message.
LEMMA MessageStep ==
    ASSUME ChannelAssumption, IInv, NEW t \in Tabs, NEW m,
           Ignore(t, m) \/ Reject(t, m) \/ LookUp(t, m)
    PROVE  IInv'
<1> USE DEF IInv
<1>1. t \in Ends /\ inbox[t] # << >> /\ m = Head(inbox[t])
  BY DEF Ends, Ignore, Reject, LookUp, NextMessage
<1>2. m \in Messages /\ Rest(t) \in [Ends -> Seq(Messages)]
  BY <1>1, RestFacts
<1>3. \A e \in Ends : \A i \in DOMAIN Rest(t)[e] : Holds(Rest(t)[e][i])
  BY <1>1, RestFacts DEF InboxHolds
<1>4. CASE Ignore(t, m)
  <2>1. TypeOK'
    BY <1>2, <1>4 DEF Ignore, TypeOK
  <2>2. InboxHolds'
    BY <1>3, <1>4 DEF Ignore, InboxHolds, Holds
  <2>3. AnswersHold' /\ JobsHold' /\ RowsWereStored'
    BY <1>4 DEF Ignore, AnswersHold, JobsHold, RowsWereStored, Holds
  <2> QED BY <2>1, <2>2, <2>3
<1>5. CASE Reject(t, m)
  <2> DEFINE a == Ack(t, NoReceipt, "rejected")
  <2>1. a \in Messages /\ Holds(a)
    BY DEF Ack, Messages, Statuses, Holds
  <2> HIDE DEF a
  <2>2. inbox' = Post(Rest(t), a)
    BY <1>5 DEF Reject, a
  <2>3. inbox' \in [Ends -> Seq(Messages)]
    BY <1>2, <2>1, <2>2, PostType
  <2>4. TypeOK'
    BY <1>5, <2>3 DEF Reject, TypeOK
  <2>5. \A e \in Ends : \A i \in DOMAIN inbox'[e] : Holds(inbox'[e][i])
    BY <1>2, <1>3, <2>1, <2>2, PostHolds
  <2>6. InboxHolds'
    BY <1>5, <2>5 DEF Reject, InboxHolds, Holds
  <2>7. AnswersHold' /\ JobsHold' /\ RowsWereStored'
    BY <1>5 DEF Reject, AnswersHold, JobsHold, RowsWereStored, Holds
  <2> QED BY <2>4, <2>6, <2>7
<1>6. CASE LookUp(t, m)
  <2>1. m.from \in Sends /\ Extracted(m) \in Artifacts
    BY <1>2, <1>6 DEF LookUp, IsReceipt, Extracted, Messages
  <2> DEFINE j == [tab |-> t, send |-> m.from, body |-> Extracted(m), step |-> "looked",
                   status |-> DedupDecision(Extracted(m), t)]
  <2>2. j \in Job
    BY <2>1 DEF Job, DedupDecision
  <2>3. (j.step = "stored" \/ j.status = "duplicate") => j.body \in ever
    BY DEF DedupDecision, RowsWereStored
  <2> HIDE DEF j
  <2>4. jobs' = jobs \cup {j} /\ inbox' = Rest(t)
        /\ UNCHANGED <<store, open, call, ever, acks, lost>>
    BY <1>6 DEF LookUp, j
  <2>5. TypeOK'
    BY <1>2, <2>2, <2>4 DEF TypeOK
  <2>6. InboxHolds'
    BY <1>3, <2>4 DEF InboxHolds, Holds
  <2>7. JobsHold'
    BY <2>3, <2>4 DEF JobsHold
  <2>8. AnswersHold' /\ RowsWereStored'
    BY <2>4 DEF AnswersHold, RowsWereStored, Holds
  <2> QED BY <2>5, <2>6, <2>7, <2>8
<1> QED BY <1>4, <1>5, <1>6

\* What a handler does after its lookup.
LEMMA HandlerStep ==
    ASSUME ChannelAssumption, IInv, NEW j \in jobs, Store(j) \/ Answer(j) \/ Fail(j)
    PROVE  IInv'
<1> USE DEF IInv
<1>1. j \in Job
  BY DEF TypeOK
<1>2. CASE Store(j)
  <2>1. [j EXCEPT !.step = "stored"] \in Job
    BY <1>1 DEF Job
  <2>2. TypeOK'
    BY <1>1, <1>2, <2>1 DEF Store, TypeOK, Job
  <2>3. InboxHolds' /\ AnswersHold'
    BY <1>2 DEF Store, InboxHolds, AnswersHold, Holds
  <2>4. JobsHold'
    BY <1>1, <1>2 DEF Store, JobsHold, Job
  <2>5. RowsWereStored'
    BY <1>2 DEF Store, RowsWereStored
  <2> QED BY <2>2, <2>3, <2>4, <2>5
<1>3. CASE Answer(j)
  <2> DEFINE a == Ack(j.tab, j.body, j.status)
  <2>1. a \in Messages
    BY <1>1, ChannelAssumption DEF Ack, Messages, Statuses, Job, ChannelAssumption
  <2>2. Holds(a)
    BY <1>3 DEF Answer, Ack, Holds, JobsHold
  <2> HIDE DEF a
  <2>3. inbox' = Post(inbox, a) /\ inbox \in [Ends -> Seq(Messages)]
    BY <1>3 DEF Answer, TypeOK, a
  <2>4. inbox' \in [Ends -> Seq(Messages)]
    BY <2>1, <2>3, PostType
  <2>5. TypeOK'
    BY <1>3, <2>4 DEF Answer, TypeOK
  <2>6. \A e \in Ends : \A i \in DOMAIN inbox'[e] : Holds(inbox'[e][i])
    BY <2>1, <2>2, <2>3, PostHolds DEF InboxHolds
  <2>7. InboxHolds'
    BY <1>3, <2>6 DEF Answer, InboxHolds, Holds
  <2>8. AnswersHold' /\ JobsHold' /\ RowsWereStored'
    BY <1>3 DEF Answer, AnswersHold, JobsHold, RowsWereStored, Holds
  <2> QED BY <2>5, <2>7, <2>8
<1>4. CASE Fail(j)
  <2>1. TypeOK'
    BY <1>1, <1>4 DEF Fail, TypeOK, Job
  <2>2. InboxHolds' /\ AnswersHold' /\ JobsHold' /\ RowsWereStored'
    BY <1>4 DEF Fail, InboxHolds, AnswersHold, JobsHold, RowsWereStored, Holds
  <2> QED BY <2>1, <2>2
<1> QED BY <1>2, <1>3, <1>4

\* Tabs coming and going, and the rest of the Ledger at work on the store.
LEMMA SurroundingStep ==
    ASSUME ChannelAssumption, IInv,
           \/ \E t \in Tabs : CloseTab(t) \/ OpenTab(t)
           \/ \E r \in Artifacts : Import(r) \/ Remove(r)
    PROVE  IInv'
<1> USE DEF IInv
<1>1. ASSUME NEW t \in Tabs, CloseTab(t) PROVE IInv'
  <2>1. lost' \subseteq Tabs \X Sends
    <3>1. inbox[t] \in Seq(Messages)
      BY DEF TypeOK, Ends
    <3>2. \A n \in Queued(t) : n.kind = "receipt" => n.from \in Sends
      BY <3>1 DEF Queued, Messages
    <3>3. \A k \in jobs : k.send \in Sends
      BY DEF TypeOK, Job
    <3> QED BY <1>1, <3>2, <3>3 DEF CloseTab, TypeOK
  <2>2. TypeOK'
    BY <1>1, <2>1 DEF CloseTab, TypeOK, Ends
  <2>3. InboxHolds'
    BY <1>1 DEF CloseTab, InboxHolds, TypeOK, Ends, Holds
  <2>4. AnswersHold' /\ JobsHold' /\ RowsWereStored'
    BY <1>1 DEF CloseTab, AnswersHold, JobsHold, RowsWereStored, Holds
  <2> QED BY <2>2, <2>3, <2>4
<1>2. ASSUME NEW t \in Tabs, OpenTab(t) PROVE IInv'
  <2>1. TypeOK'
    BY <1>2 DEF OpenTab, TypeOK, Ends
  <2>2. InboxHolds' /\ AnswersHold' /\ JobsHold' /\ RowsWereStored'
    BY <1>2 DEF OpenTab, InboxHolds, AnswersHold, JobsHold, RowsWereStored, Holds
  <2> QED BY <2>1, <2>2
<1>3. ASSUME NEW r \in Artifacts, Import(r) \/ Remove(r) PROVE IInv'
  <2>1. TypeOK'
    BY <1>3 DEF Import, Remove, TypeOK
  <2>2. InboxHolds' /\ AnswersHold' /\ JobsHold' /\ RowsWereStored'
    BY <1>3 DEF Import, Remove, InboxHolds, AnswersHold, JobsHold, RowsWereStored, Holds
  <2> QED BY <2>1, <2>2
<1> QED BY <1>1, <1>2, <1>3

LEMMA StepIInv ==
    ASSUME ChannelAssumption, IInv, [Next]_vars PROVE IInv'
<1>1. CASE UNCHANGED vars
  BY <1>1 DEF vars, IInv, TypeOK, InboxHolds, AnswersHold, JobsHold, RowsWereStored, Holds
<1>2. CASE \E s \in Sends : \/ \E r \in Receipts : Send(s, r) \/ SendUnreachable(s, r)
                            \/ Hear(s) \/ Timeout(s)
  BY <1>2, PageStep
<1>3. CASE \E t \in Tabs, m \in Heads : Ignore(t, m) \/ Reject(t, m) \/ LookUp(t, m)
  BY <1>3, MessageStep
<1>4. CASE \E j \in jobs : Store(j) \/ Answer(j) \/ Fail(j)
  BY <1>4, HandlerStep
<1>5. CASE \/ \E t \in Tabs : CloseTab(t) \/ OpenTab(t)
           \/ \E r \in Artifacts : Import(r) \/ Remove(r)
  BY <1>5, SurroundingStep
<1> QED BY <1>1, <1>2, <1>3, <1>4, <1>5 DEF Next

LEMMA Inductive ==
    ASSUME ChannelAssumption PROVE Spec => []IInv
<1>1. Init => IInv
  BY InitIInv
<1>2. IInv /\ [Next]_vars => IInv'
  BY StepIInv
<1> QED BY <1>1, <1>2, PTL DEF Spec

-----------------------------------------------------------------------------
\* Type correctness of the channel, for any number of pages, tabs and receipts.
THEOREM ChannelTypeCorrect == Spec => []TypeOK
<1>1. IInv => TypeOK
  BY DEF IInv
<1> QED BY <1>1, ChannelAssumption, Inductive, PTL

\* No acknowledgement ever claims a row the store has not had: however many tabs
\* answer the same receipt, and whichever of them die or fail half way.
THEOREM AcksAreTrue == Spec => []AckedWasStored
<1>1. IInv => AckedWasStored
  BY DEF IInv, InboxHolds, AnswersHold, AckedWasStored
<1> QED BY <1>1, ChannelAssumption, Inductive, PTL

-----------------------------------------------------------------------------
(* How many answers there can be.  A tab owes an answer to a call while it   *)
(* has that call's receipt queued or in a handler; it has it once, and only  *)
(* the handler, or the tab that finds no artifact, pays with an answer.      *)

IsFrom(m, s) == m.kind = "receipt" /\ m.from = s

\* The places in a box where a receipt of call s waits; the handlers that have it.
Places(box, s)   == {i \in DOMAIN box : IsFrom(box[i], s)}
Hands(all, t, s) == {j \in all : j.tab = t /\ j.send = s}

AtMostOne(S) == \A x, y \in S : x = y

HandedOnce ==
    \A t \in Tabs, s \in Sends :
        /\ AtMostOne(Places(inbox[t], s)) /\ AtMostOne(Hands(jobs, t, s))
        /\ Places(inbox[t], s) = {} \/ Hands(jobs, t, s) = {}

Asked == {s \in Sends : call[s].state # "idle"}
Owed  == {p \in Tabs \X Sends : Places(inbox[p[1]], p[2]) # {} \/ Hands(jobs, p[1], p[2]) # {}}

OwedToAsked == Owed \subseteq Tabs \X Asked

\* Answers given and answers owed are within one for each call and tab.
Balanced == acks + Cardinality(Owed) <= Cardinality(Asked) * Cardinality(Tabs)

Account == HandedOnce /\ OwedToAsked /\ Balanced

\* A post of an acknowledgement puts no receipt anywhere.
LEMMA AckPlaces ==
    ASSUME NEW box \in [Ends -> Seq(Messages)], NEW m \in Messages, m.kind = "ack",
           NEW e \in Ends, NEW s \in Sends
    PROVE  Places(Post(box, m)[e], s) = Places(box[e], s)
<1>1. box[e] \in Seq(Messages)
  OBVIOUS
<1>2. CASE Post(box, m)[e] = box[e]
  BY <1>2
<1>3. CASE Post(box, m)[e] = Append(box[e], m)
  <2> DEFINE b == box[e]
             c == Append(b, m)
  <2>1. /\ Len(b) \in Nat /\ DOMAIN b = 1..Len(b) /\ DOMAIN c = 1..(Len(b) + 1)
        /\ \A i \in 1..Len(b) : c[i] = b[i]
        /\ c[Len(b) + 1] = m
    BY <1>1
  <2>2. ~IsFrom(m, s)
    BY DEF IsFrom
  <2> HIDE DEF b, c
  <2>3. Places(c, s) = Places(b, s)
    BY <2>1, <2>2 DEF Places
  <2> QED BY <1>3, <2>3 DEF b, c
<1> QED BY <1>2, <1>3 DEF Post

\* A post of a receipt puts it last in the boxes of the open tabs, for its own call.
LEMMA ReceiptPlaces ==
    ASSUME ChannelAssumption, NEW box \in [Ends -> Seq(Messages)],
           NEW s \in Sends, NEW r \in Receipts, NEW t \in Tabs, NEW u \in Sends
    PROVE  Places(Post(box, Receipt(s, r))[t], u) =
              Places(box[t], u) \cup (IF t \in open /\ u = s THEN {Len(box[t]) + 1} ELSE {})
<1> DEFINE m == Receipt(s, r)
           b == box[t]
           c == Append(b, m)
<1>1. t # m.from /\ m.kind = "receipt" /\ m.from = s
  BY DEF Receipt, ChannelAssumption
<1>2. b \in Seq(Messages) /\ m \in Messages /\ t \in Ends
  BY DEF Ends, Receipt, Messages
<1>3. /\ Len(b) \in Nat /\ DOMAIN b = 1..Len(b) /\ DOMAIN c = 1..(Len(b) + 1)
      /\ \A i \in 1..Len(b) : c[i] = b[i]
      /\ c[Len(b) + 1] = m
  BY <1>2
<1>4. Post(box, m)[t] = IF t \in open THEN c ELSE b
  BY <1>1, <1>2 DEF Post
<1>5. IsFrom(m, u) <=> u = s
  BY <1>1 DEF IsFrom
<1> HIDE DEF m, b, c
<1>6. Places(c, u) = Places(b, u) \cup (IF u = s THEN {Len(b) + 1} ELSE {})
  BY <1>3, <1>5 DEF Places
<1>7. Places(Post(box, m)[t], u) =
          Places(b, u) \cup (IF t \in open /\ u = s THEN {Len(b) + 1} ELSE {})
  BY <1>4, <1>6
<1> QED BY <1>7 DEF m, b

\* Taking a message moves the others up; it was a receipt of call s or it was not.
LEMMA TailPlaces ==
    ASSUME NEW box \in Seq(Messages), box # << >>, NEW s \in Sends
    PROVE  /\ \A i : i \in Places(Tail(box), s) => i + 1 \in Places(box, s) /\ i + 1 # 1
           /\ \A i \in Places(box, s) : i # 1 => i - 1 \in Places(Tail(box), s)
           /\ Places(Tail(box), s) \subseteq Nat /\ Places(box, s) \subseteq Nat
           /\ 1 \in Places(box, s) <=> IsFrom(Head(box), s)
<1> DEFINE c == Tail(box)
           n == Len(box)
<1>1. /\ n \in Nat /\ n > 0 /\ DOMAIN box = 1..n /\ DOMAIN c = 1..(n - 1)
      /\ \A i \in 1..(n - 1) : c[i] = box[i + 1]
      /\ Head(box) = box[1]
  OBVIOUS
<1> HIDE DEF c, n
<1>2. /\ \A i : i \in Places(c, s) => i + 1 \in Places(box, s) /\ i + 1 # 1
      /\ \A i \in Places(box, s) : i # 1 => i - 1 \in Places(c, s)
      /\ Places(c, s) \subseteq Nat /\ Places(box, s) \subseteq Nat
      /\ 1 \in Places(box, s) <=> IsFrom(Head(box), s)
  BY <1>1 DEF Places
<1> QED BY <1>2 DEF c

-----------------------------------------------------------------------------
(* The balance. *)

LEMMA FiniteCounts ==
    ASSUME ChannelAssumption, NEW A \in SUBSET Sends, NEW O \in SUBSET (Tabs \X Sends)
    PROVE  /\ IsFiniteSet(A) /\ Cardinality(A) \in Nat
           /\ IsFiniteSet(O) /\ Cardinality(O) \in Nat
           /\ Cardinality(Tabs) \in Nat
<1>1. IsFiniteSet(Sends) /\ IsFiniteSet(Tabs)
  BY DEF ChannelAssumption
<1>2. IsFiniteSet(Tabs \X Sends)
  BY <1>1, FS_Product
<1>3. IsFiniteSet(A) /\ IsFiniteSet(O)
  BY <1>1, <1>2, FS_Subset
<1> QED BY <1>1, <1>3, FS_CardinalityType

\* Fewer pairs are not more.
LEMMA FewerOwed ==
    ASSUME ChannelAssumption, NEW O \in SUBSET (Tabs \X Sends), NEW P \in SUBSET O
    PROVE  Cardinality(P) <= Cardinality(O)
BY FiniteCounts, FS_Subset, {} \in SUBSET Sends

\* A pair settled is one pair fewer.
LEMMA OneOwedLess ==
    ASSUME ChannelAssumption, NEW O \in SUBSET (Tabs \X Sends), NEW p \in O,
           NEW P \in SUBSET (O \ {p})
    PROVE  Cardinality(P) + 1 <= Cardinality(O)
<1>1. IsFiniteSet(O) /\ Cardinality(O) \in Nat
  BY FiniteCounts, {} \in SUBSET Sends
<1>2. IsFiniteSet(O \ {p}) /\ Cardinality(O \ {p}) = Cardinality(O) - 1
  BY <1>1, FS_RemoveElement
<1>3. Cardinality(P) <= Cardinality(O \ {p}) /\ Cardinality(P) \in Nat
  BY <1>2, FS_Subset, FS_CardinalityType
<1> QED BY <1>1, <1>2, <1>3

\* A new call may be owed an answer by every tab, and by no more.
LEMMA OwedByEveryTab ==
    ASSUME ChannelAssumption, NEW O \in SUBSET (Tabs \X Sends), NEW s \in Sends,
           NEW P \in SUBSET (O \cup (Tabs \X {s}))
    PROVE  Cardinality(P) <= Cardinality(O) + Cardinality(Tabs)
<1> DEFINE N == Tabs \X {s}
<1>1. N \in SUBSET (Tabs \X Sends)
  OBVIOUS
<1>2. IsFiniteSet(Tabs) /\ Cardinality({s}) = 1 /\ IsFiniteSet({s})
  BY FS_Singleton DEF ChannelAssumption
<1>3. Cardinality(N) = Cardinality(Tabs) * Cardinality({s})
  BY <1>2, FS_Product
<1>4. Cardinality(N) = Cardinality(Tabs)
  BY <1>2, <1>3, FS_CardinalityType
<1> HIDE DEF N
<1>5. /\ IsFiniteSet(O) /\ Cardinality(O) \in Nat
      /\ IsFiniteSet(N) /\ Cardinality(N) \in Nat
      /\ O \cap N \in SUBSET (Tabs \X Sends)
  BY <1>1, FiniteCounts, {} \in SUBSET Sends
<1>6. Cardinality(O \cap N) \in Nat
  BY <1>5, FiniteCounts, {} \in SUBSET Sends
<1>7. IsFiniteSet(O \cup N)
      /\ Cardinality(O \cup N) = Cardinality(O) + Cardinality(N) - Cardinality(O \cap N)
  BY <1>5, FS_Union
<1>8. Cardinality(P) <= Cardinality(O \cup N) /\ Cardinality(P) \in Nat
  BY <1>7, FS_Subset, FS_CardinalityType DEF N
<1> QED BY <1>4, <1>5, <1>6, <1>7, <1>8

\* One call more times as many tabs.
LEMMA OneCallMore ==
    ASSUME NEW n \in Nat, NEW k \in Nat, NEW a \in Nat, NEW o \in Nat, NEW q \in Nat,
           a + o <= n * k, q <= o + k
    PROVE  a + q <= (n + 1) * k
<1>1. (n + 1) * k = n * k + k /\ n * k \in Nat
  OBVIOUS
<1> QED BY <1>1

\* Nothing new is owed, and nothing is answered.
LEMMA NothingAsked ==
    ASSUME ChannelAssumption, TypeOK, Account, HandedOnce',
           acks' = acks, Asked' = Asked, Owed' \subseteq Owed
    PROVE  Account'
<1>1. Owed \in SUBSET (Tabs \X Sends) /\ Owed' \in SUBSET Owed /\ Owed' \in SUBSET (Tabs \X Sends)
  BY DEF Owed
<1>2. Asked \in SUBSET Sends
  BY DEF Asked
<1>3. Cardinality(Owed') <= Cardinality(Owed)
  BY <1>1, FewerOwed
<1>4. /\ Cardinality(Owed) \in Nat /\ Cardinality(Owed') \in Nat
      /\ Cardinality(Asked) \in Nat /\ Cardinality(Tabs) \in Nat
  BY <1>1, <1>2, FiniteCounts
<1>5. Cardinality(Asked') * Cardinality(Tabs) = Cardinality(Asked) * Cardinality(Tabs)
      /\ Cardinality(Asked) * Cardinality(Tabs) \in Nat
  BY <1>4
<1>6. acks' + Cardinality(Owed') <= Cardinality(Asked') * Cardinality(Tabs)
  BY <1>3, <1>4, <1>5 DEF Account, Balanced, TypeOK
<1>7. OwedToAsked'
  BY DEF Account, OwedToAsked
<1> QED BY <1>6, <1>7 DEF Account, Balanced

\* An answer settles a pair that was owed one.
LEMMA OneAnswered ==
    ASSUME ChannelAssumption, TypeOK, Account, HandedOnce', NEW p \in Owed,
           acks' = acks + 1, Asked' = Asked, Owed' \subseteq Owed \ {p}
    PROVE  Account'
<1>1. Owed \in SUBSET (Tabs \X Sends) /\ Owed' \in SUBSET (Owed \ {p})
      /\ Owed' \in SUBSET (Tabs \X Sends)
  BY DEF Owed
<1>2. Asked \in SUBSET Sends
  BY DEF Asked
<1>3. Cardinality(Owed') + 1 <= Cardinality(Owed)
  BY <1>1, OneOwedLess
<1>4. /\ Cardinality(Owed) \in Nat /\ Cardinality(Owed') \in Nat
      /\ Cardinality(Asked) \in Nat /\ Cardinality(Tabs) \in Nat
  BY <1>1, <1>2, FiniteCounts
<1>5. Cardinality(Asked') * Cardinality(Tabs) = Cardinality(Asked) * Cardinality(Tabs)
      /\ Cardinality(Asked) * Cardinality(Tabs) \in Nat
  BY <1>4
<1>6. acks' + Cardinality(Owed') <= Cardinality(Asked') * Cardinality(Tabs)
  BY <1>3, <1>4, <1>5 DEF Account, Balanced, TypeOK
<1>7. OwedToAsked'
  BY DEF Account, OwedToAsked
<1> QED BY <1>6, <1>7 DEF Account, Balanced

\* A call begins: at most every tab owes it an answer.
LEMMA OneAsked ==
    ASSUME ChannelAssumption, TypeOK, Account, HandedOnce', NEW s \in Sends, s \notin Asked,
           acks' = acks, Asked' = Asked \cup {s}, Owed' \subseteq Owed \cup (Tabs \X {s})
    PROVE  Account'
<1>1. Owed \in SUBSET (Tabs \X Sends) /\ Owed' \in SUBSET (Owed \cup (Tabs \X {s}))
      /\ Owed' \in SUBSET (Tabs \X Sends)
  BY DEF Owed
<1>2. Asked \in SUBSET Sends
  BY DEF Asked
<1>3. Cardinality(Owed') <= Cardinality(Owed) + Cardinality(Tabs)
  BY <1>1, OwedByEveryTab
<1>4. /\ Cardinality(Owed) \in Nat /\ Cardinality(Owed') \in Nat
      /\ Cardinality(Asked) \in Nat /\ Cardinality(Tabs) \in Nat /\ IsFiniteSet(Asked)
  BY <1>1, <1>2, FiniteCounts
<1>5. Cardinality(Asked') = Cardinality(Asked) + 1
  BY <1>4, FS_AddElement
<1>6. acks' + Cardinality(Owed') <= (Cardinality(Asked) + 1) * Cardinality(Tabs)
  <2>1. acks' \in Nat /\ acks' + Cardinality(Owed) <= Cardinality(Asked) * Cardinality(Tabs)
    BY DEF Account, Balanced, TypeOK
  <2> QED BY <2>1, <1>3, <1>4, OneCallMore
<1>7. OwedToAsked'
  BY <1>1 DEF Account, OwedToAsked
<1> QED BY <1>5, <1>6, <1>7 DEF Account, Balanced

-----------------------------------------------------------------------------
(* The steps. *)

\* Boxes of the tabs and handlers left alone: the same is owed.
LEMMA NothingHanded ==
    ASSUME ChannelAssumption, TypeOK, Account, \A t \in Tabs : inbox'[t] = inbox[t], jobs' = jobs
    PROVE  HandedOnce' /\ Owed' = Owed
BY DEF Account, HandedOnce, Owed

LEMMA PageAccount ==
    ASSUME ChannelAssumption, TypeOK, Account, NEW s \in Sends,
           \/ \E r \in Receipts : Send(s, r) \/ SendUnreachable(s, r)
           \/ Hear(s) \/ Timeout(s)
    PROVE  Account'
<1> USE DEF ChannelAssumption
<1>1. ASSUME NEW r \in Receipts, Send(s, r) PROVE Account'
  <2>1. inbox \in [Ends -> Seq(Messages)] /\ inbox' = Post(inbox, Receipt(s, r)) /\ jobs' = jobs
    BY <1>1 DEF TypeOK, Send
  <2>2. ASSUME NEW t \in Tabs, NEW u \in Sends
        PROVE  Places(inbox'[t], u) =
                  Places(inbox[t], u) \cup (IF t \in open /\ u = s THEN {Len(inbox[t]) + 1} ELSE {})
    BY <2>1, ReceiptPlaces
  <2>3. s \notin Asked /\ Asked' = Asked \cup {s} /\ acks' = acks
    BY <1>1 DEF Send, Asked, TypeOK
  <2>4. ASSUME NEW t \in Tabs
        PROVE  Places(inbox[t], s) = {} /\ Hands(jobs, t, s) = {}
    <3>1. <<t, s>> \notin Owed
      BY <2>3 DEF Account, OwedToAsked
    <3> QED BY <3>1 DEF Owed
  <2>5. HandedOnce'
    <3> SUFFICES ASSUME NEW t \in Tabs, NEW u \in Sends
                 PROVE  /\ AtMostOne(Places(inbox'[t], u)) /\ AtMostOne(Hands(jobs', t, u))
                        /\ Places(inbox'[t], u) = {} \/ Hands(jobs', t, u) = {}
      BY DEF HandedOnce, AtMostOne, Places, Hands, IsFrom
    <3>1. CASE u = s
      <4>1. Hands(jobs', t, u) = {} /\ Places(inbox[t], u) = {}
        BY <2>1, <2>4, <3>1
      <4>2. AtMostOne(Places(inbox'[t], u))
        BY <2>2, <4>1 DEF AtMostOne
      <4> QED BY <4>1, <4>2 DEF AtMostOne
    <3>2. CASE u # s
      <4>1. Places(inbox'[t], u) = Places(inbox[t], u)
        BY <2>2, <3>2
      <4> QED BY <2>1, <4>1 DEF Account, HandedOnce
    <3> QED BY <3>1, <3>2
  <2>6. Owed' \subseteq Owed \cup (Tabs \X {s})
    <3> SUFFICES ASSUME NEW t \in Tabs, NEW u \in Sends, <<t, u>> \in Owed', u # s
                 PROVE  <<t, u>> \in Owed
      BY DEF Owed
    <3>1. Places(inbox'[t], u) = Places(inbox[t], u)
      BY <2>2
    <3> QED BY <2>1, <3>1 DEF Owed
  <2> QED BY <2>3, <2>5, <2>6, OneAsked
<1>2. ASSUME NEW r \in Receipts, SendUnreachable(s, r) PROVE Account'
  <2>1. s \notin Asked /\ Asked' = Asked \cup {s} /\ acks' = acks /\ inbox' = inbox /\ jobs' = jobs
    BY <1>2 DEF SendUnreachable, Asked, TypeOK
  <2>2. HandedOnce' /\ Owed' = Owed
    BY <2>1, NothingHanded
  <2> QED BY <2>1, <2>2, OneAsked
<1>3. ASSUME NEW v, call[s].state = "waiting", Finish(s, v) PROVE Account'
  <2>1. \A t \in Tabs : t # s /\ inbox'[t] = inbox[t]
    BY <1>3 DEF Finish, TypeOK, Ends
  <2>2. Asked' = Asked /\ acks' = acks /\ jobs' = jobs
    BY <1>3 DEF Finish, Asked, TypeOK
  <2> QED BY <2>1, <2>2, NothingHanded, NothingAsked
<1>4. CASE Timeout(s)
  BY <1>3, <1>4 DEF Timeout
<1>5. CASE Hear(s)
  <2>1. CASE IsAck(Head(inbox[s]))
    BY <1>3, <1>5, <2>1 DEF Hear
  <2>2. CASE ~IsAck(Head(inbox[s]))
    <3>1. \A t \in Tabs : t # s /\ inbox'[t] = inbox[t]
      BY <1>5, <2>2 DEF Hear, TypeOK, Ends
    <3>2. Asked' = Asked /\ acks' = acks /\ jobs' = jobs
      BY <1>5, <2>2 DEF Hear, Asked
    <3> QED BY <3>1, <3>2, NothingHanded, NothingAsked
  <2> QED BY <2>1, <2>2
<1> QED BY <1>1, <1>2, <1>4, <1>5

\* A message taken by tab t: what waits for it afterwards, and for the others.
LEMMA RestPlaces ==
    ASSUME TypeOK, NEW t \in Tabs, inbox[t] # << >>, NEW u \in Tabs, NEW s \in Sends,
           AtMostOne(Places(inbox[u], s))
    PROVE  /\ Places(Rest(t)[u], s) # {} => Places(inbox[u], s) # {}
           /\ AtMostOne(Places(Rest(t)[u], s))
           /\ u = t /\ IsFrom(Head(inbox[t]), s) => Places(Rest(t)[u], s) = {}
<1>1. inbox[t] \in Seq(Messages) /\ t \in Ends /\ u \in Ends
  BY DEF TypeOK, Ends
<1>2. CASE u # t
  BY <1>1, <1>2 DEF Rest, TypeOK
<1>3. CASE u = t
  <2>1. Rest(t)[u] = Tail(inbox[t])
    BY <1>1, <1>3 DEF Rest, TypeOK
  <2> DEFINE b == inbox[t]
             c == Tail(b)
  <2>2. /\ \A i : i \in Places(c, s) => i + 1 \in Places(b, s) /\ i + 1 # 1
        /\ Places(c, s) \subseteq Nat /\ Places(b, s) \subseteq Nat
        /\ 1 \in Places(b, s) <=> IsFrom(Head(b), s)
    BY <1>1, TailPlaces
  <2> HIDE DEF b, c
  <2>3. AtMostOne(Places(b, s))
    BY <1>3 DEF b
  <2>4. Places(c, s) # {} => Places(b, s) # {}
    BY <2>2
  <2>5. AtMostOne(Places(c, s))
    BY <2>2, <2>3 DEF AtMostOne
  <2>6. IsFrom(Head(b), s) => Places(c, s) = {}
    BY <2>2, <2>3 DEF AtMostOne
  <2> QED BY <1>3, <2>1, <2>4, <2>5, <2>6 DEF b, c
<1> QED BY <1>2, <1>3

LEMMA MessageAccount ==
    ASSUME ChannelAssumption, TypeOK, Account, NEW t \in Tabs, NEW m,
           Ignore(t, m) \/ Reject(t, m) \/ LookUp(t, m)
    PROVE  Account'
<1>1. t \in Ends /\ inbox[t] # << >> /\ m = Head(inbox[t])
  BY DEF Ends, Ignore, Reject, LookUp, NextMessage
<1>2. m \in Messages /\ Rest(t) \in [Ends -> Seq(Messages)] /\ inbox[t] \in Seq(Messages)
  BY <1>1, RestFacts DEF TypeOK
<1>3. ASSUME NEW u \in Tabs, NEW s \in Sends
      PROVE  /\ Places(Rest(t)[u], s) # {} => Places(inbox[u], s) # {}
             /\ AtMostOne(Places(Rest(t)[u], s))
             /\ u = t /\ IsFrom(m, s) => Places(Rest(t)[u], s) = {}
  <2>1. AtMostOne(Places(inbox[u], s))
    BY DEF Account, HandedOnce
  <2> QED BY <1>1, <2>1, RestPlaces
<1>4. IsReceipt(m) => m.from \in Sends /\ IsFrom(m, m.from) /\ <<t, m.from>> \in Owed
                         /\ Hands(jobs, t, m.from) = {}
  <2> SUFFICES ASSUME IsReceipt(m)
               PROVE  m.from \in Sends /\ IsFrom(m, m.from) /\ <<t, m.from>> \in Owed
                         /\ Hands(jobs, t, m.from) = {}
    OBVIOUS
  <2>1. m.from \in Sends /\ IsFrom(m, m.from)
    BY <1>2 DEF IsReceipt, IsFrom, Messages
  <2>2. 1 \in Places(inbox[t], m.from)
    BY <1>1, <1>2, <2>1, TailPlaces
  <2> QED BY <2>1, <2>2 DEF Owed, Account, HandedOnce
<1>5. ASSUME NEW u \in Tabs, NEW s \in Sends
      PROVE  /\ AtMostOne(Hands(jobs, u, s))
             /\ Places(inbox[u], s) = {} \/ Hands(jobs, u, s) = {}
  BY DEF Account, HandedOnce
<1>6. CASE Ignore(t, m)
  <2>1. inbox' = Rest(t) /\ jobs' = jobs /\ acks' = acks /\ Asked' = Asked
    BY <1>6 DEF Ignore, Asked
  <2>2. HandedOnce'
    BY <1>3, <1>5, <2>1 DEF HandedOnce
  <2>3. Owed' \subseteq Owed
    BY <1>3, <2>1 DEF Owed
  <2> QED BY <2>1, <2>2, <2>3, NothingAsked
<1>7. CASE Reject(t, m)
  <2> DEFINE a == Ack(t, NoReceipt, "rejected")
  <2>1. a \in Messages /\ a.kind = "ack"
    BY DEF Ack, Messages, Statuses
  <2> HIDE DEF a
  <2>2. inbox' = Post(Rest(t), a) /\ jobs' = jobs /\ acks' = acks + 1 /\ Asked' = Asked
    BY <1>7 DEF Reject, a, Asked
  <2>3. ASSUME NEW u \in Tabs, NEW s \in Sends
        PROVE  Places(inbox'[u], s) = Places(Rest(t)[u], s)
    <3>1. u \in Ends
      BY DEF Ends
    <3> QED BY <1>2, <2>1, <2>2, <3>1, AckPlaces
  <2>4. HandedOnce'
    BY <1>3, <1>5, <2>2, <2>3 DEF HandedOnce
  <2>5. m.from \in Sends /\ IsFrom(m, m.from) /\ <<t, m.from>> \in Owed
        /\ Hands(jobs, t, m.from) = {}
    BY <1>4, <1>7 DEF Reject
  <2>6. Owed' \subseteq Owed \ {<<t, m.from>>}
    BY <1>3, <2>2, <2>3, <2>5 DEF Owed
  <2> QED BY <2>2, <2>4, <2>5, <2>6, OneAnswered
<1>8. CASE LookUp(t, m)
  <2>1. m.from \in Sends /\ IsFrom(m, m.from) /\ <<t, m.from>> \in Owed
        /\ Hands(jobs, t, m.from) = {}
    BY <1>4, <1>8 DEF LookUp
  <2> DEFINE j == [tab |-> t, send |-> m.from, body |-> Extracted(m), step |-> "looked",
                   status |-> DedupDecision(Extracted(m), t)]
  <2>2. j.tab = t /\ j.send = m.from
    OBVIOUS
  <2> HIDE DEF j
  <2>3. jobs' = jobs \cup {j} /\ inbox' = Rest(t) /\ acks' = acks /\ Asked' = Asked
    BY <1>8 DEF LookUp, j, Asked
  <2>4. ASSUME NEW u \in Tabs, NEW s \in Sends
        PROVE  Hands(jobs', u, s) = IF u = t /\ s = m.from THEN {j} ELSE Hands(jobs, u, s)
    BY <2>1, <2>2, <2>3 DEF Hands
  <2>5. HandedOnce'
    <3> SUFFICES ASSUME NEW u \in Tabs, NEW s \in Sends
                 PROVE  /\ AtMostOne(Places(inbox'[u], s)) /\ AtMostOne(Hands(jobs', u, s))
                        /\ Places(inbox'[u], s) = {} \/ Hands(jobs', u, s) = {}
      BY DEF HandedOnce, AtMostOne, Places, Hands, IsFrom
    <3>1. CASE u = t /\ s = m.from
      BY <1>3, <2>1, <2>3, <2>4, <3>1 DEF AtMostOne
    <3>2. CASE ~(u = t /\ s = m.from)
      BY <1>3, <1>5, <2>3, <2>4, <3>2
    <3> QED BY <3>1, <3>2
  <2>6. Owed' \subseteq Owed
    BY <1>3, <2>1, <2>3, <2>4 DEF Owed
  <2> QED BY <2>3, <2>5, <2>6, NothingAsked
<1> QED BY <1>6, <1>7, <1>8

LEMMA HandlerAccount ==
    ASSUME ChannelAssumption, TypeOK, Account, NEW j \in jobs, Store(j) \/ Answer(j) \/ Fail(j)
    PROVE  Account'
<1>1. j \in Job /\ j.tab \in Tabs /\ j.send \in Sends
  BY DEF TypeOK, Job
<1>2. ASSUME NEW u \in Tabs, NEW s \in Sends
      PROVE  /\ AtMostOne(Places(inbox[u], s)) /\ AtMostOne(Hands(jobs, u, s))
             /\ Places(inbox[u], s) = {} \/ Hands(jobs, u, s) = {}
  BY DEF Account, HandedOnce
<1>3. <<j.tab, j.send>> \in Owed /\ Places(inbox[j.tab], j.send) = {}
  BY <1>1, <1>2 DEF Owed, Hands
<1>4. CASE Store(j)
  <2> DEFINE k == [j EXCEPT !.step = "stored"]
  <2>1. k.tab = j.tab /\ k.send = j.send
    BY <1>1 DEF Job
  <2> HIDE DEF k
  <2>2. jobs' = (jobs \ {j}) \cup {k} /\ inbox' = inbox /\ acks' = acks /\ Asked' = Asked
    BY <1>4 DEF Store, k, Asked
  <2>3. ASSUME NEW u \in Tabs, NEW s \in Sends
        PROVE  /\ Hands(jobs', u, s) # {} <=> Hands(jobs, u, s) # {}
               /\ AtMostOne(Hands(jobs', u, s))
    BY <1>2, <2>1, <2>2 DEF Hands, AtMostOne
  <2>4. HandedOnce'
    BY <1>2, <2>2, <2>3 DEF HandedOnce
  <2>5. Owed' \subseteq Owed
    BY <2>2, <2>3 DEF Owed
  <2> QED BY <2>2, <2>4, <2>5, NothingAsked
<1>5. ASSUME NEW u \in Tabs, NEW s \in Sends, jobs' = jobs \ {j}
      PROVE  /\ Hands(jobs', u, s) \subseteq Hands(jobs, u, s)
             /\ AtMostOne(Hands(jobs', u, s))
             /\ u = j.tab /\ s = j.send => Hands(jobs', u, s) = {}
  BY <1>2, <1>5 DEF Hands, AtMostOne
<1>6. CASE Answer(j)
  <2> DEFINE a == Ack(j.tab, j.body, j.status)
  <2>1. a \in Messages /\ a.kind = "ack"
    BY <1>1 DEF Ack, Messages, Statuses, Job, ChannelAssumption
  <2> HIDE DEF a
  <2>2. jobs' = jobs \ {j} /\ acks' = acks + 1 /\ Asked' = Asked
    BY <1>6 DEF Answer, Asked
  <2>3. ASSUME NEW u \in Tabs, NEW s \in Sends
        PROVE  Places(inbox'[u], s) = Places(inbox[u], s)
    <3>1. inbox \in [Ends -> Seq(Messages)] /\ u \in Ends
      BY DEF TypeOK, Ends
    <3>2. inbox' = Post(inbox, a)
      BY <1>6 DEF Answer, a
    <3> QED BY <2>1, <3>1, <3>2, AckPlaces
  <2>4. HandedOnce'
    BY <1>2, <1>5, <2>2, <2>3 DEF HandedOnce
  <2>5. Owed' \subseteq Owed \ {<<j.tab, j.send>>}
    <3> SUFFICES ASSUME NEW u \in Tabs, NEW s \in Sends, <<u, s>> \in Owed'
                 PROVE  <<u, s>> \in Owed /\ ~(u = j.tab /\ s = j.send)
      BY DEF Owed
    <3>1. Places(inbox[u], s) # {} \/ Hands(jobs', u, s) # {}
      BY <2>3 DEF Owed
    <3>2. ~(u = j.tab /\ s = j.send)
      BY <1>3, <1>5, <2>2, <3>1
    <3>3. <<u, s>> \in Owed
      BY <1>5, <2>2, <3>1 DEF Owed
    <3> QED BY <3>2, <3>3
  <2> QED BY <1>3, <2>2, <2>4, <2>5, OneAnswered
<1>7. CASE Fail(j)
  <2>1. inbox' = inbox /\ jobs' = jobs \ {j} /\ acks' = acks /\ Asked' = Asked
    BY <1>7 DEF Fail, Asked
  <2>2. HandedOnce'
    BY <1>2, <1>5, <2>1 DEF HandedOnce
  <2>3. Owed' \subseteq Owed
    BY <1>5, <2>1 DEF Owed
  <2> QED BY <2>1, <2>2, <2>3, NothingAsked
<1> QED BY <1>4, <1>6, <1>7

LEMMA SurroundingAccount ==
    ASSUME ChannelAssumption, TypeOK, Account,
           \/ \E t \in Tabs : CloseTab(t) \/ OpenTab(t)
           \/ \E r \in Artifacts : Import(r) \/ Remove(r)
    PROVE  Account'
<1>1. ASSUME NEW t \in Tabs, CloseTab(t) PROVE Account'
  <2>1. /\ inbox' = [inbox EXCEPT ![t] = << >>] /\ jobs' = {j \in jobs : j.tab # t}
        /\ acks' = acks /\ Asked' = Asked
    BY <1>1 DEF CloseTab, Asked
  <2>2. ASSUME NEW u \in Tabs, NEW s \in Sends
        PROVE  /\ Places(inbox'[u], s) \subseteq Places(inbox[u], s)
               /\ Hands(jobs', u, s) \subseteq Hands(jobs, u, s)
    <3>1. inbox'[u] = inbox[u] \/ inbox'[u] = << >>
      BY <2>1 DEF TypeOK, Ends
    <3> QED BY <2>1, <3>1 DEF Places, Hands
  <2>3. HandedOnce'
    <3> SUFFICES ASSUME NEW u \in Tabs, NEW s \in Sends
                 PROVE  /\ AtMostOne(Places(inbox'[u], s)) /\ AtMostOne(Hands(jobs', u, s))
                        /\ Places(inbox'[u], s) = {} \/ Hands(jobs', u, s) = {}
      BY DEF HandedOnce, AtMostOne, Places, Hands, IsFrom
    <3>1. /\ AtMostOne(Places(inbox[u], s)) /\ AtMostOne(Hands(jobs, u, s))
          /\ Places(inbox[u], s) = {} \/ Hands(jobs, u, s) = {}
      BY DEF Account, HandedOnce
    <3> QED BY <2>2, <3>1 DEF AtMostOne
  <2>4. Owed' \subseteq Owed
    BY <2>2 DEF Owed
  <2> QED BY <2>1, <2>3, <2>4, NothingAsked
<1>2. ASSUME inbox' = inbox, jobs' = jobs, acks' = acks, call' = call PROVE Account'
  BY <1>2, NothingHanded, NothingAsked DEF Asked
<1> QED BY <1>1, <1>2 DEF OpenTab, Import, Remove

LEMMA InitAccount ==
    ASSUME ChannelAssumption, Init PROVE Account
<1>1. HandedOnce /\ Owed = {} /\ Asked = {}
  BY DEF Init, HandedOnce, Owed, Asked, Places, Hands, AtMostOne, Ends
<1>2. Cardinality(Owed) = 0 /\ Cardinality(Asked) = 0 /\ Cardinality(Tabs) \in Nat
  BY <1>1, FS_EmptySet, FS_CardinalityType DEF ChannelAssumption
<1> QED BY <1>1, <1>2 DEF Init, Account, OwedToAsked, Balanced

LEMMA StepAccount ==
    ASSUME ChannelAssumption, TypeOK, Account, [Next]_vars PROVE Account'
<1>1. CASE UNCHANGED vars
  <2>1. inbox' = inbox /\ jobs' = jobs /\ acks' = acks /\ call' = call
    BY <1>1 DEF vars
  <2> QED BY <2>1, NothingHanded, NothingAsked DEF Asked
<1>2. CASE \E s \in Sends : \/ \E r \in Receipts : Send(s, r) \/ SendUnreachable(s, r)
                            \/ Hear(s) \/ Timeout(s)
  BY <1>2, PageAccount
<1>3. CASE \E t \in Tabs, m \in Heads : Ignore(t, m) \/ Reject(t, m) \/ LookUp(t, m)
  BY <1>3, MessageAccount
<1>4. CASE \E j \in jobs : Store(j) \/ Answer(j) \/ Fail(j)
  BY <1>4, HandlerAccount
<1>5. CASE \/ \E t \in Tabs : CloseTab(t) \/ OpenTab(t)
           \/ \E r \in Artifacts : Import(r) \/ Remove(r)
  BY <1>5, SurroundingAccount
<1> QED BY <1>1, <1>2, <1>3, <1>4, <1>5 DEF Next

\* A receipt is in one place at each tab: waiting once, or in one handler, and
\* never both; and no tab has a receipt of a call that was not made.
THEOREM EachReceiptInOneHand == Spec => []Account
<1>1. Init => Account
  BY ChannelAssumption, InitAccount
<1>2. TypeOK /\ Account /\ [Next]_vars => Account'
  BY ChannelAssumption, StepAccount
<1> QED BY <1>1, <1>2, ChannelTypeCorrect, PTL DEF Spec

\* However many tabs hear each other, and however they and the pages come and
\* go: at most one answer for each call and tab.
THEOREM NoStorm == Spec => []NoAckStorm
<1>1. ASSUME Account, TypeOK PROVE NoAckStorm
  <2>1. Asked \in SUBSET Sends /\ Owed \in SUBSET (Tabs \X Sends)
    BY DEF Asked, Owed
  <2>2. /\ Cardinality(Owed) \in Nat /\ Cardinality(Asked) \in Nat /\ Cardinality(Tabs) \in Nat
        /\ acks \in Nat
    BY <1>1, <2>1, ChannelAssumption, FiniteCounts DEF TypeOK
  <2>3. Cardinality(Asked) * Cardinality(Tabs) \in Nat
    BY <2>2
  <2>4. acks <= Cardinality(Asked) * Cardinality(Tabs)
    BY <1>1, <2>2, <2>3 DEF Account, Balanced
  <2> QED BY <2>4 DEF NoAckStorm, Asked
<1> QED BY <1>1, EachReceiptInOneHand, ChannelTypeCorrect, PTL
=============================================================================

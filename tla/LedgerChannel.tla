---------------------------- MODULE LedgerChannel ----------------------------
(***************************************************************************)
(* The live channel between tool pages and open Ledger tabs.  A page posts *)
(* a receipt on a BroadcastChannel and waits two seconds for an            *)
(* acknowledgement (ainLedgerSend in scripts/ain-bridge-v1.snippet.html).  *)
(* Every Ledger tab open at that moment hears it, looks the receipt up in  *)
(* the IndexedDB store the tabs share, stores it when it is new, and       *)
(* answers on the same channel, where every page and every other tab hears *)
(* the answer (handleChannelReceipt in ledger/index.html).  The lookup and *)
(* the write are separate transactions, so handlers interleave between     *)
(* them; a tab may be closed, or a transaction fail, at either.            *)
(*                                                                         *)
(* A receipt stands for its execution_hash, the key of the store.          *)
(***************************************************************************)
EXTENDS Naturals, Sequences, FiniteSets

CONSTANTS
    Sends,      \* the ainLedgerSend calls the pages make
    Tabs,       \* the Ledger tabs
    Receipts,   \* what a page may post
    Artifacts,  \* the receipts extractArtifact finds an artifact in
    NoReceipt   \* null: no artifact, no answer

ASSUME ChannelAssumption ==
    /\ IsFiniteSet(Sends) /\ IsFiniteSet(Tabs)
    /\ Artifacts \subseteq Receipts
    /\ NoReceipt \notin Receipts
    /\ Sends \cap Tabs = {}

VARIABLES
    store,  \* the receipts with a row in the IndexedDB store
    open,   \* the pages and tabs whose channel is open
    inbox,  \* messages delivered to a channel and not yet handled, in order
    call,   \* the state of each ainLedgerSend call
    jobs,   \* the handleChannelReceipt calls under way
    ever,   \* history: receipts that have had a row
    acks,   \* history: acknowledgements posted
    lost    \* history: <<tab, send>> of the handlers that died

vars == <<store, open, inbox, call, jobs, ever, acks, lost>>

Ends == Sends \cup Tabs

Receipt(s, r)   == [kind |-> "receipt", from |-> s, body |-> r, status |-> "none"]
Ack(t, r, st)   == [kind |-> "ack", from |-> t, body |-> r, status |-> st]
Statuses        == {"added", "duplicate", "rejected"}
Messages        == [kind: {"receipt"}, from: Sends, body: Receipts, status: {"none"}]
                       \cup [kind: {"ack"}, from: Tabs, body: Receipts \cup {NoReceipt}, status: Statuses]
Job             == [tab: Tabs, send: Sends, body: Artifacts, step: {"looked", "stored"},
                    status: {"added", "duplicate"}]

\* A post reaches every other channel of that name that is open.
Post(box, m) ==
    [e \in Ends |-> IF e \in open /\ e # m.from THEN Append(box[e], m) ELSE box[e]]

Init ==
    /\ store = {}
    /\ open = Tabs
    /\ inbox = [e \in Ends |-> << >>]
    /\ call = [s \in Sends |-> [state |-> "idle", body |-> NoReceipt, answer |-> NoReceipt]]
    /\ jobs = {}
    /\ ever = {}
    /\ acks = 0
    /\ lost = {}

-----------------------------------------------------------------------------
(* The page. *)

\* The page is served from an origin with a path-form ledger.
Send(s, r) ==
    /\ call[s].state = "idle"
    /\ call' = [call EXCEPT ![s] = [state |-> "waiting", body |-> r, answer |-> NoReceipt]]
    /\ open' = open \cup {s}
    /\ inbox' = Post(inbox, Receipt(s, r))
    /\ UNCHANGED <<store, jobs, ever, acks, lost>>

\* finish: the first answer, or none, settles the call and closes its channel.
Finish(s, v) ==
    /\ call' = [call EXCEPT ![s].state = "done", ![s].answer = v]
    /\ open' = open \ {s}
    /\ inbox' = [inbox EXCEPT ![s] = << >>]
    /\ UNCHANGED <<store, jobs, ever, acks, lost>>

\* No path-form ledger on this origin, no BroadcastChannel, or a post that throws.
SendUnreachable(s, r) ==
    /\ call[s].state = "idle"
    /\ call' = [call EXCEPT ![s] = [state |-> "done", body |-> r, answer |-> NoReceipt]]
    /\ UNCHANGED <<store, open, inbox, jobs, ever, acks, lost>>

IsAck(m) == m.kind = "ack"

Hear(s) ==
    /\ call[s].state = "waiting" /\ inbox[s] # << >>
    /\ IF IsAck(Head(inbox[s]))
       THEN Finish(s, Head(inbox[s]))
       ELSE /\ inbox' = [inbox EXCEPT ![s] = Tail(@)]
            /\ UNCHANGED <<store, open, call, jobs, ever, acks, lost>>

\* Mutant: the timer is armed by the first message heard, not by the post.
TimeoutOnceHeard(s) ==
    /\ call[s].state = "waiting" /\ inbox[s] # << >>
    /\ Finish(s, NoReceipt)

Timeout(s) ==
    /\ call[s].state = "waiting"
    /\ Finish(s, NoReceipt)

-----------------------------------------------------------------------------
(* The Ledger tab. *)

\* Mutant: the method of the envelope is not looked at.
AnyEnvelope(m) == m.kind \in {"receipt", "ack"}

IsReceipt(m) == m.kind = "receipt"

\* Mutant: whatever the receipt field holds is taken for an artifact.
ExtractedUnchecked(m) == IF m.kind = "receipt" THEN m.body ELSE NoReceipt

\* extractArtifact(msg.params.receipt): an acknowledgement has no receipt.
Extracted(m) == IF m.kind = "receipt" /\ m.body \in Artifacts THEN m.body ELSE NoReceipt

\* Mutant: a receipt another handler of this tab has in hand counts as a duplicate.
DedupInFlight(r, t) ==
    IF r \in store \/ \E j \in jobs : j.tab = t /\ j.body = r THEN "duplicate" ELSE "added"

DedupDecision(r, t) == IF r \in store THEN "duplicate" ELSE "added"

\* What is left once tab t has taken its next message, m.
Rest(t) == [inbox EXCEPT ![t] = Tail(@)]

NextMessage(t, m) == t \in open /\ inbox[t] # << >> /\ m = Head(inbox[t])

\* Anything that is not a receipt notification is ignored.
Ignore(t, m) ==
    /\ NextMessage(t, m)
    /\ ~IsReceipt(m)
    /\ inbox' = Rest(t)
    /\ UNCHANGED <<store, open, call, jobs, ever, acks, lost>>

\* No artifact in it: answered at once, without a look at the store.
Reject(t, m) ==
    /\ NextMessage(t, m)
    /\ IsReceipt(m) /\ Extracted(m) = NoReceipt
    /\ inbox' = Post(Rest(t), Ack(t, NoReceipt, "rejected"))
    /\ acks' = acks + 1
    /\ UNCHANGED <<store, open, call, jobs, ever, lost>>

\* dbGet: what the store holds now is what the decision will go by.
LookUp(t, m) ==
    /\ NextMessage(t, m)
    /\ IsReceipt(m) /\ Extracted(m) # NoReceipt
    /\ jobs' = jobs \cup {[tab |-> t, send |-> m.from, body |-> Extracted(m), step |-> "looked",
                           status |-> DedupDecision(Extracted(m), t)]}
    /\ inbox' = Rest(t)
    /\ UNCHANGED <<store, open, call, ever, acks, lost>>

\* dbPut commits.
Store(j) ==
    /\ j \in jobs /\ j.step = "looked" /\ j.status = "added"
    /\ store' = store \cup {j.body}
    /\ ever' = ever \cup {j.body}
    /\ jobs' = (jobs \ {j}) \cup {[j EXCEPT !.step = "stored"]}
    /\ UNCHANGED <<open, inbox, call, acks, lost>>

\* Mutant: the answer does not wait for the write.
AnswerEagerly(j) ==
    /\ j \in jobs
    /\ inbox' = Post(inbox, Ack(j.tab, j.body, j.status))
    /\ acks' = acks + 1
    /\ jobs' = jobs \ {j}
    /\ UNCHANGED <<store, open, call, ever, lost>>

Answer(j) ==
    /\ j \in jobs /\ (j.step = "stored" \/ j.status = "duplicate")
    /\ inbox' = Post(inbox, Ack(j.tab, j.body, j.status))
    /\ acks' = acks + 1
    /\ jobs' = jobs \ {j}
    /\ UNCHANGED <<store, open, call, ever, lost>>

\* A transaction fails: the handler rejects, and nobody is told.
Fail(j) ==
    /\ j \in jobs /\ j.step = "looked"
    /\ jobs' = jobs \ {j}
    /\ lost' = lost \cup {<<j.tab, j.send>>}
    /\ UNCHANGED <<store, open, inbox, call, ever, acks>>

Queued(t) == {inbox[t][i] : i \in DOMAIN inbox[t]}

CloseTab(t) ==
    /\ t \in open
    /\ open' = open \ {t}
    /\ inbox' = [inbox EXCEPT ![t] = << >>]
    /\ jobs' = {j \in jobs : j.tab # t}
    /\ lost' = lost \cup {<<t, j.send>> : j \in {k \in jobs : k.tab = t}}
                    \cup {<<t, m.from>> : m \in {n \in Queued(t) : n.kind = "receipt"}}
    /\ UNCHANGED <<store, call, ever, acks>>

OpenTab(t) ==
    /\ t \in Tabs \ open
    /\ open' = open \cup {t}
    /\ UNCHANGED <<store, inbox, call, jobs, ever, acks, lost>>

\* Any other way into the store: file, paste, folder, fragment.
Import(r) ==
    /\ r \in Artifacts \ store
    /\ store' = store \cup {r}
    /\ ever' = ever \cup {r}
    /\ UNCHANGED <<open, inbox, call, jobs, acks, lost>>

Remove(r) ==
    /\ r \in store
    /\ store' = store \ {r}
    /\ UNCHANGED <<open, inbox, call, jobs, ever, acks, lost>>

Heads == {Head(inbox[t]) : t \in {u \in Tabs : inbox[u] # << >>}}

Next ==
    \/ \E s \in Sends, r \in Receipts : Send(s, r) \/ SendUnreachable(s, r)
    \/ \E s \in Sends : Hear(s) \/ Timeout(s)
    \/ \E t \in Tabs, m \in Heads : Ignore(t, m) \/ Reject(t, m) \/ LookUp(t, m)
    \/ \E t \in Tabs : CloseTab(t) \/ OpenTab(t)
    \/ \E j \in jobs : Store(j) \/ Answer(j) \/ Fail(j)
    \/ \E r \in Artifacts : Import(r) \/ Remove(r)

Spec == Init /\ [][Next]_vars

\* The browser delivers messages, ends transactions and fires timers.
Fairness ==
    /\ \A s \in Sends : WF_vars(Timeout(s))
    /\ \A t \in Tabs : WF_vars(\E m \in Heads : Ignore(t, m) \/ Reject(t, m) \/ LookUp(t, m))
    /\ \A j \in Job : WF_vars(Store(j)) /\ WF_vars(Answer(j))

FairSpec == Spec /\ Fairness

-----------------------------------------------------------------------------
TypeOK ==
    /\ store \subseteq Artifacts
    /\ open \subseteq Ends
    /\ inbox \in [Ends -> Seq(Messages)]
    /\ call \in [Sends -> [state: {"idle", "waiting", "done"},
                           body: Receipts \cup {NoReceipt},
                           answer: Messages \cup {NoReceipt}]]
    /\ jobs \subseteq Job
    /\ ever \subseteq Artifacts
    /\ acks \in Nat
    /\ lost \subseteq Tabs \X Sends

Holds(m) == m.status \in {"added", "duplicate"} => m.body \in ever

\* No tab claims a receipt it did not write: an acknowledgement "added" or
\* "duplicate", on its way or taken by a page, names a receipt that has had a row,
\* whichever tab died or failed in between (ledger/index.html 3291-3294).
AckedWasStored ==
    /\ \A e \in Ends : \A i \in DOMAIN inbox[e] : Holds(inbox[e][i])
    /\ \A s \in Sends : call[s].answer # NoReceipt => Holds(call[s].answer)

\* Ledger tabs hear each other's acknowledgements and never answer them: there is
\* at most one answer per receipt and tab (the comment at 3286-3287).
NoAckStorm ==
    acks <= Cardinality({s \in Sends : call[s].state # "idle"}) * Cardinality(Tabs)

\* Every send settles, with no tab open or with the tab closed under it (303-317).
SendSettles == \A s \in Sends : call[s].state = "waiting" ~> call[s].state = "done"

Pending(t, s) ==
    \/ \E i \in DOMAIN inbox[t] : inbox[t][i].kind = "receipt" /\ inbox[t][i].from = s
    \/ \E j \in jobs : j.tab = t /\ j.send = s

\* An artifact that reached a tab is in the store or has been, unless that very
\* handler died: no handler relies on another one to do the writing.
ReachedIsRecorded ==
    \A t \in Tabs, s \in Sends :
        (Pending(t, s) /\ call[s].body \in Artifacts)
            ~> (call[s].body \in ever \/ <<t, s>> \in lost)

\* As the page tells its user, "Recorded in the open Ledger tab" or "Already
\* recorded" (ain-bridge-v1.snippet.html 326-330): once no tab has the receipt it
\* sent in hand any more, that receipt has had a row.
NoticeIsTrue ==
    \A s \in Sends :
        /\ call[s].answer # NoReceipt
        /\ call[s].answer.status \in {"added", "duplicate"}
        /\ \A t \in Tabs : ~Pending(t, s)
        => call[s].body \in ever
=============================================================================

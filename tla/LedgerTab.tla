------------------------------ MODULE LedgerTab ------------------------------
(***************************************************************************)
(* One open tab of the Ledger (ledger/index.html): the IndexedDB store it  *)
(* shares with other tabs, its verdict cache, its address, what is on the  *)
(* screen, the "Save to Ledger?" dialog, and the asynchronous handlers     *)
(* under way.  A handler runs from one await to the next without           *)
(* interruption; between two awaits anything else may run: the user, other *)
(* handlers of this tab, other tabs.  task[i] is the await at which the    *)
(* i-th of them stands.                                                    *)
(*                                                                         *)
(* An artifact is its claimed execution_hash, the body the hash is         *)
(* recomputed from, and the metadata attached outside the preimage.  The   *)
(* signature, compute-proof and gate legs of a verdict are left out.       *)
(***************************************************************************)
CONSTANTS
    Hashes,     \* execution hashes
    Bodies,     \* what an artifact of a given hash may hold
    Genuine,    \* the body that hash was computed from
    Malformed,  \* bodies with a field, unlooked at by isArtifact, that some code trips over
    Escalated,  \* hashes of the artifacts that carry an escalation record, one each
    Incoming,   \* the artifacts that reach the tab: files, fragments, receipts
    Decisions,  \* the approvers' decisions that reach it as closures
    Doors,      \* the ways in that are used: "decode" (a fragment link), "import"
                \* (file, paste), "hear" (the live channel), "scan" (the folder)
    Ids,        \* bound on the handlers under way at once
    NoCopy      \* no artifact

Copies == [hash: Hashes, body: Bodies, anchored: BOOLEAN, closure: {"none", "approve", "reject"}]

ASSUME TabAssumption ==
    /\ Genuine \in Bodies /\ Malformed \subseteq Bodies /\ Escalated \subseteq Hashes /\ "null" \notin Ids
    /\ Incoming \subseteq Copies /\ NoCopy \notin Copies
    /\ Decisions \subseteq {"approve", "reject"}
    /\ Doors \subseteq {"decode", "import", "hear", "scan"}

VARIABLES
    rows,     \* the store: the artifact in each row
    newer,    \* the order of added_at: <<g, h>> when g's row is the newer one
    vcache,   \* _vcache: verdicts by claimed hash
    place,    \* location.hash
    screen,   \* what #main shows
    current,  \* window._currentArtifactHash
    dialog,   \* the artifact the open dialog asks about
    asker,    \* the handler window._dlgRes resolves
    task      \* the handlers under way

vars == <<rows, newer, vcache, place, screen, current, dialog, asker, task>>

Verdicts == {"verified", "partial", "failed"}

\* _aggregate, of the legs kept here.
Verdict(c) ==
    IF c.body # Genuine THEN "failed" ELSE IF c.anchored THEN "partial" ELSE "verified"

View(h)   == [page |-> "view", hash |-> h]
Page(p)   == [page |-> p]
Places    == {Page("list"), Page("about"), Page("evidence")} \cup {View(h) : h \in Hashes}
Fragment  == Page("fragment")   \* #a=..., until it is decoded

Shows(p)    == [shows |-> p]
Loading(c)  == [shows |-> "loading", hash |-> c.hash, body |-> c.body]
NotFound(h) == [shows |-> "404", hash |-> h]
Record(c, v) == [shows |-> "record", hash |-> c.hash, copy |-> c, verdict |-> v]

Idle        == [at |-> "idle"]
At(k)       == [at |-> k]
On(k, c)    == [at |-> k, copy |-> c]
Of(k, h)    == [at |-> k, hash |-> h]
Encoding(c, v) == [at |-> "encode", copy |-> c, verdict |-> v]
Closing(h, d, f)  == [at |-> "closing", hash |-> h, decision |-> d, folder |-> f]
Attaching(c, f)   == [at |-> "attach", copy |-> c, folder |-> f]

-----------------------------------------------------------------------------
(* The store and the cache. *)

Stored == {h \in Hashes : rows[h] # NoCopy}

OrderWithout(h) == {p \in newer : h \notin {p[1], p[2]}}

Delete(h) ==
    /\ rows' = [rows EXCEPT ![h] = NoCopy]
    /\ newer' = OrderWithout(h)

\* persistArtifact: keyed by the claimed hash, stamped with the time.
Put(c) ==
    /\ rows' = [rows EXCEPT ![c.hash] = c]
    /\ newer' = OrderWithout(c.hash) \cup ({c.hash} \X (Stored \ {c.hash}))

Newest == {h \in Stored : \A g \in Stored \ {h} : <<h, g>> \in newer}

\* Mutant: the entry is marked stale instead of removed.
ForgetByMark(h) == [vcache EXCEPT ![h] = "unchecked"]

Forget(h) == [vcache EXCEPT ![h] = "none"]

Init ==
    /\ rows = [h \in Hashes |-> NoCopy]
    /\ newer = {}
    /\ vcache = [h \in Hashes |-> "none"]
    /\ place = Page("list")
    /\ screen = Shows("list")
    /\ current = "null"
    /\ dialog = NoCopy
    /\ asker = "null"
    /\ task = [i \in Ids |-> Idle]

-----------------------------------------------------------------------------
(* What a handler does up to its next await. *)

GoTo(i, t) == task' = [task EXCEPT ![i] = t]

\* route(), the address being p.
Route(i, p) ==
    /\ place' = p
    /\ screen' = IF p.page = "about" THEN Shows("about") ELSE screen
    /\ GoTo(i, CASE p.page = "about"    -> Idle
                 [] p.page = "view"     -> Of("get", p.hash)
                 [] p.page = "list"     -> At("list")
                 [] p.page = "evidence" -> At("evidence"))

\* showRecord: the loading screen, then a cached verdict or a verification.
ShowRecord(i, c, cache) ==
    /\ current' = c.hash
    /\ screen' = Loading(c)
    /\ GoTo(i, IF cache[c.hash] = "none" THEN On("verify", c) ELSE Encoding(c, cache[c.hash]))

\* reflectChannelReceipt: the list is rendered unless a record or the evidence tab is open.
Reflect(i) ==
    GoTo(i, IF place.page \in {"view", "evidence"} THEN Idle ELSE At("reflect"))

-----------------------------------------------------------------------------
(* What starts a handler. *)

\* Tab bar, card, resolve box, back and forward.
Navigate(i, p) ==
    /\ task[i] = Idle
    /\ Route(i, p)
    /\ UNCHANGED <<rows, newer, vcache, current, dialog, asker>>

Begin(i, t) ==
    /\ task[i] = Idle
    /\ GoTo(i, t)
    /\ UNCHANGED <<rows, newer, vcache, place, screen, current, dialog, asker>>

Arrival(i, c) == \E k \in Doors \ {"decode"} : Begin(i, On(k, c))

\* A link with a fragment is opened in this tab; c is NoCopy when it carries no artifact.
OpenFragment(i, c) ==
    /\ "decode" \in Doors /\ task[i] = Idle
    /\ place' = Fragment
    /\ GoTo(i, On("decode", c))
    /\ UNCHANGED <<rows, newer, vcache, screen, current, dialog, asker>>

\* A closure is dropped or pasted, or lies in the folder.
ClosureArrival(i, h, d) == \E f \in BOOLEAN : Begin(i, Closing(h, d, f))

\* "Anchor, then share" works on the artifact the record view was rendered from.
ClickAnchor(i) == screen.shows = "record" /\ Begin(i, On("anchor", screen.copy))

ClickRemove(i, h) == screen = Shows("list") /\ h \in Stored /\ Begin(i, Of("remove", h))

\* The answer goes to the handler that asked last.
Answer(keep) ==
    /\ dialog # NoCopy
    /\ dialog' = NoCopy /\ asker' = "null"
    /\ LET c == task[asker].copy IN
       IF keep THEN GoTo(asker, On("keep", c)) /\ UNCHANGED <<screen, current>>
               ELSE ShowRecord(asker, c, vcache)
    /\ UNCHANGED <<rows, newer, vcache, place>>

\* Another tab writes or deletes.
OtherTab ==
    /\ \/ \E c \in Incoming : Put(c)
       \/ \E h \in Hashes : Delete(h)
    /\ UNCHANGED <<vcache, place, screen, current, dialog, asker, task>>

-----------------------------------------------------------------------------
(* What a handler does when its await is over. *)

\* dbGetAll for a page of its own.
RenderPage(i) ==
    /\ task[i].at \in {"list", "reflect", "evidence"}
    /\ screen' = Shows(IF task[i].at = "evidence" THEN "evidence" ELSE "list")
    /\ GoTo(i, Idle)
    /\ UNCHANGED <<rows, newer, vcache, place, current, dialog, asker>>

\* dbGet in route(): the stored copy, or renderNotFound.
Resolve(i) ==
    /\ task[i].at = "get"
    /\ LET h == task[i].hash IN
       IF h \in Stored THEN ShowRecord(i, rows[h], vcache)
       ELSE screen' = NotFound(h) /\ GoTo(i, Idle) /\ UNCHANGED current
    /\ UNCHANGED <<rows, newer, vcache, place, dialog, asker>>

Verified(i) ==
    /\ task[i].at = "verify"
    /\ LET c == task[i].copy IN
       /\ vcache' = [vcache EXCEPT ![c.hash] = Verdict(c)]
       /\ GoTo(i, Encoding(c, Verdict(c)))
    /\ UNCHANGED <<rows, newer, place, screen, current, dialog, asker>>

\* Mutant: the record is only rendered when the address still names it.
RenderIfAddressed(i) ==
    /\ task[i].at = "encode"
    /\ screen' = IF place = View(task[i].copy.hash)
                 THEN Record(task[i].copy, task[i].verdict) ELSE screen
    /\ GoTo(i, Idle)
    /\ UNCHANGED <<rows, newer, vcache, place, current, dialog, asker>>

\* The share link is ready: the record is rendered.
Render(i) ==
    /\ task[i].at = "encode"
    /\ screen' = Record(task[i].copy, task[i].verdict)
    /\ GoTo(i, Idle)
    /\ UNCHANGED <<rows, newer, vcache, place, current, dialog, asker>>

Trips(c) == c.body \in Malformed

\* What a handler reads is not what it takes it for: it ends with an exception that
\* nobody reports, and the screen stays as it was.  Which code trips (the
\* verification, the rendering of a record, the dialog, a list) depends on the field.
Throw(i) ==
    /\ \/ task[i].at \in {"verify", "encode"} /\ Trips(task[i].copy)
       \/ task[i].at = "dedup" /\ task[i].copy.hash \notin Stored /\ Trips(task[i].copy)
       \/ task[i].at \in {"list", "reflect", "evidence"} /\ \E h \in Stored : Trips(rows[h])
    /\ GoTo(i, Idle)
    /\ UNCHANGED <<rows, newer, vcache, place, screen, current, dialog, asker>>

\* The fragment is decoded: the address becomes the record's, before the store is asked.
Decoded(i) ==
    /\ task[i].at = "decode"
    /\ IF task[i].copy = NoCopy
       THEN place' = Page("list") /\ GoTo(i, At("list"))
       ELSE place' = View(task[i].copy.hash) /\ GoTo(i, On("dedup", task[i].copy))
    /\ UNCHANGED <<rows, newer, vcache, screen, current, dialog, asker>>

Duplicate(i) ==
    /\ task[i].at = "dedup" /\ task[i].copy.hash \in Stored
    /\ ShowRecord(i, task[i].copy, vcache)
    /\ UNCHANGED <<rows, newer, vcache, place, dialog, asker>>

\* Mutant: window._dlgRes is only set when no dialog is open.
AskFirstWins(i) ==
    /\ task[i].at = "dedup" /\ task[i].copy.hash \notin Stored
    /\ dialog' = task[i].copy
    /\ asker' = IF asker = "null" THEN i ELSE asker
    /\ GoTo(i, On("asked", task[i].copy))
    /\ UNCHANGED <<rows, newer, vcache, place, screen, current>>

\* confirmKeep: box and resolver are replaced; a handler that was waiting waits for ever.
Ask(i) ==
    /\ task[i].at = "dedup" /\ task[i].copy.hash \notin Stored
    /\ dialog' = task[i].copy
    /\ asker' = i
    /\ task' = [j \in Ids |-> IF j = i THEN On("asked", task[i].copy)
                              ELSE IF j = asker THEN Idle ELSE task[j]]
    /\ UNCHANGED <<rows, newer, vcache, place, screen, current>>

Keep(i) ==
    /\ task[i].at = "keep"
    /\ Put(task[i].copy)
    /\ ShowRecord(i, task[i].copy, vcache)
    /\ UNCHANGED <<vcache, place, dialog, asker>>

\* importFromJSON: put whatever the store holds.  The folder scan ends in the list,
\* every other import in handleImportResult.
Import(i) ==
    /\ task[i].at \in {"import", "scan"}
    /\ Put(task[i].copy)
    /\ GoTo(i, At(IF task[i].at = "scan" THEN "list" ELSE "land"))
    /\ UNCHANGED <<vcache, place, screen, current, dialog, asker>>

\* handleImportResult goes to the newest row, or renders an empty list.
Land(i) ==
    /\ task[i].at = "land"
    /\ IF Stored = {} THEN GoTo(i, At("list")) /\ UNCHANGED <<place, screen>>
                      ELSE \E h \in Newest : Route(i, View(h))
    /\ UNCHANGED <<rows, newer, vcache, current, dialog, asker>>

\* findArtifactByEscalationRecordHash: the copy found is the one that will be written back.
FindEscalated(i) ==
    /\ task[i].at = "closing"
    /\ GoTo(i, IF task[i].hash \in Stored
               THEN Attaching([rows[task[i].hash] EXCEPT !.closure = task[i].decision], task[i].folder)
               ELSE Idle)
    /\ UNCHANGED <<rows, newer, vcache, place, screen, current, dialog, asker>>

\* A closure from the folder is attached on every scan, and nothing is shown.
AttachClosure(i) ==
    /\ task[i].at = "attach"
    /\ LET c == task[i].copy IN
       /\ Put(c)
       /\ vcache' = Forget(c.hash)
       /\ IF task[i].folder THEN GoTo(i, Idle) /\ UNCHANGED <<place, screen>>
                            ELSE Route(i, View(c.hash))
    /\ UNCHANGED <<current, dialog, asker>>

\* The anchor service answers with bindings, or the request fails.
AnchorAnswer(i) ==
    /\ task[i].at = "anchor"
    /\ GoTo(i, Idle) \/ GoTo(i, On("anchorPut", [task[i].copy EXCEPT !.anchored = TRUE]))
    /\ UNCHANGED <<rows, newer, vcache, place, screen, current, dialog, asker>>

AnchorPut(i) ==
    /\ task[i].at = "anchorPut"
    /\ Put(task[i].copy)
    /\ GoTo(i, On("relink", task[i].copy))
    /\ UNCHANGED <<vcache, place, screen, current, dialog, asker>>

\* Mutant: the verdict from before the anchor stays in the cache.
RelinkCached(i) ==
    /\ task[i].at = "relink"
    /\ IF current = task[i].copy.hash THEN ShowRecord(i, task[i].copy, vcache)
       ELSE GoTo(i, Idle) /\ UNCHANGED <<screen, current>>
    /\ UNCHANGED <<rows, newer, vcache, place, dialog, asker>>

\* The new link is ready: the old verdict is dropped and the record shown again.
Relink(i) ==
    /\ task[i].at = "relink"
    /\ LET c == task[i].copy IN
       /\ vcache' = Forget(c.hash)
       /\ IF current = c.hash THEN ShowRecord(i, c, Forget(c.hash))
          ELSE GoTo(i, Idle) /\ UNCHANGED <<screen, current>>
    /\ UNCHANGED <<rows, newer, place, dialog, asker>>

Remove(i) ==
    /\ task[i].at = "remove"
    /\ Delete(task[i].hash)
    /\ vcache' = Forget(task[i].hash)
    /\ GoTo(i, At("list"))
    /\ UNCHANGED <<place, screen, current, dialog, asker>>

\* handleChannelReceipt after its lookup, then after its write.
Heard(i) ==
    /\ task[i].at = "hear"
    /\ IF task[i].copy.hash \in Stored THEN Reflect(i) ELSE GoTo(i, On("receive", task[i].copy))
    /\ UNCHANGED <<rows, newer, vcache, place, screen, current, dialog, asker>>

Receive(i) ==
    /\ task[i].at = "receive"
    /\ Put(task[i].copy)
    /\ Reflect(i)
    /\ UNCHANGED <<vcache, place, screen, current, dialog, asker>>

\* What the browser completes by itself; the anchor service and the user may not answer.
Continue(i) ==
    \/ RenderPage(i) \/ Resolve(i) \/ Verified(i) \/ Render(i) \/ Throw(i)
    \/ Decoded(i) \/ Duplicate(i) \/ Ask(i) \/ Keep(i)
    \/ Import(i) \/ Land(i) \/ FindEscalated(i) \/ AttachClosure(i)
    \/ AnchorPut(i) \/ Relink(i) \/ Remove(i) \/ Heard(i) \/ Receive(i)

Next ==
    \/ \E i \in Ids :
        \/ Continue(i) \/ AnchorAnswer(i) \/ ClickAnchor(i)
        \/ \E p \in Places : Navigate(i, p)
        \/ \E c \in Incoming : Arrival(i, c)
        \/ \E c \in Incoming \cup {NoCopy} : OpenFragment(i, c)
        \/ \E h \in Escalated, d \in Decisions : ClosureArrival(i, h, d)
        \/ \E h \in Hashes : ClickRemove(i, h)
    \/ \E keep \in BOOLEAN : Answer(keep)
    \/ OtherTab

Spec == Init /\ [][Next]_vars

FairSpec == Spec /\ \A i \in Ids : WF_vars(Continue(i))

-----------------------------------------------------------------------------
Screens ==
    {Shows(p) : p \in {"list", "about", "evidence"}}
        \cup {Loading(c) : c \in Copies} \cup {NotFound(h) : h \in Hashes}
        \cup {Record(c, v) : c \in Copies, v \in Verdicts}

Awaits ==
    {Idle} \cup {At(k) : k \in {"list", "reflect", "evidence", "land"}}
        \cup {Of(k, h) : k \in {"get", "remove"}, h \in Hashes}
        \cup {On(k, c) : k \in {"verify", "decode", "dedup", "asked", "keep", "import", "scan", "hear",
                                "receive", "anchor", "anchorPut", "relink"}, c \in Copies}
        \cup {On("decode", NoCopy)}
        \cup {Encoding(c, v) : c \in Copies, v \in Verdicts}
        \cup {Closing(h, d, f) : h \in Escalated, d \in Decisions, f \in BOOLEAN}
        \cup {Attaching(c, f) : c \in Copies, f \in BOOLEAN}

TypeOK ==
    /\ rows \in [Hashes -> Copies \cup {NoCopy}] /\ \A h \in Stored : rows[h].hash = h
    /\ newer \subseteq Stored \X Stored
    /\ vcache \in [Hashes -> Verdicts \cup {"none"}]
    /\ place \in Places \cup {Fragment}
    /\ screen \in Screens
    /\ current \in Hashes \cup {"null"}
    /\ dialog \in Copies \cup {NoCopy}
    /\ asker \in Ids \cup {"null"}
    /\ task \in [Ids -> Awaits]

\* The artifact that "Save" stores is the one the dialog on the screen describes,
\* however many fragments were opened one after the other: markup and resolver are
\* both replaced (ledger/index.html 1764-1783).
DialogAnswersItsImport ==
    dialog # NoCopy => asker # "null" /\ task[asker] = On("asked", dialog)

\* Whoever refilled the cache while the link was made, the re-render after anchoring
\* verifies the anchored artifact afresh and never shows an earlier verdict (1624-1626).
AnchorReverifies ==
    [][\A i \in Ids :
        task[i].at = "relink" /\ current = task[i].copy.hash
            => task'[i] \in {task[i], On("verify", task[i].copy)}]_vars

\* "Verifying artifact..." gives way, whatever else the tab is doing and whatever
\* lies in the store, when it is drawn for an artifact no code trips over (2802-2808,
\* 3072).
LoadingEnds ==
    \A h \in Hashes, b \in Bodies \ Malformed :
        LET drawn == Loading([hash |-> h, body |-> b]) IN screen = drawn ~> screen # drawn

-----------------------------------------------------------------------------
(* What the user interface says, and the code does not keep. *)

\* "Hash recomputed in your browser ... Green means the record is unchanged" (2349):
\* the verdict beside a record was computed from that record.
VerdictIsOfRecord == screen.shows = "record" => screen.verdict = Verdict(screen.copy)

\* Anchoring "attaches a RFC 3161 timestamp outside the hash preimage" (3053): the
\* rest of the row is as it was.
AnchorOnlyAttaches ==
    [][\A i \in Ids : task[i].at = "anchorPut" /\ task'[i] # task[i]
            => LET h == task[i].copy.hash IN
               h \in Stored => rows'[h] = [rows[h] EXCEPT !.anchored = TRUE]]_vars
=============================================================================

-------------------------- MODULE ActorCollection --------------------------
(***************************************************************************)
(* One run of a collecting Actor, from its admitted input to the verdict   *)
(* the importer gives it.                                                  *)
(*                                                                         *)
(* The synthetic collector fetches the listed pages of a source within     *)
(* five caps, one network read at a time, and then stores, in this order,  *)
(* its rows, the OUTPUT record that accounts for them, and its own exit    *)
(* status.  The platform may end the run between any two of these steps.   *)
(* hw-radar then reads the dataset page by page, reads OUTPUT, and         *)
(* classifies the run; only a complete run says that what it did not see   *)
(* is gone.                                                                *)
(*                                                                         *)
(* A listing is the pair of its page and its place there; what the         *)
(* properties tell apart of its content is its kind: "good", "free" (the   *)
(* contract accepts it, ParsedListing does not: its price is zero) or      *)
(* "bad" (the Actor itself refuses to emit it).                            *)
(***************************************************************************)
EXTENDS Naturals, FiniteSets, Sequences, Functions

CONSTANTS
    Sources,     \* what the source holds, lists and declares
    CapSets,     \* the caps of the admitted input
    FaultModes,  \* the synthetic Actor's faultMode values used
    Conducts,    \* how the Actor behaves (see Careful and Echoes)
    ReadSize,    \* the most one network read delivers (HTTP_READ_CHUNK_BYTES)
    MaxErrors,   \* the most errors OUTPUT may carry (MAX_ERRORS)
    PageLimit,   \* rows per dataset page (page_limit)
    Undeclared,  \* the source does not say how many
    None         \* no OUTPUT record, no verdict yet

\* A body that holds a listing is not empty.
PageShape == {p \in [bytes : Nat, listings : Seq({"good", "free", "bad"})] :
                 p.listings # <<>> => p.bytes > 0}
SourceShape == [pages : Seq(PageShape), listed : Nat,
                pagesDeclared : Nat \cup {Undeclared}, itemsDeclared : Nat \cup {Undeclared}]
CapShape == [pages : Nat, requests : Nat, items : Nat, bytes : Nat]
LimitNames == {"time", "bytes", "requests", "pages", "items"}
ReportShape ==
    [version : {"v1", "unknown"}, scope : {"admitted", "other"}, status : {"succeeded", "failed"},
     complete : BOOLEAN, truncated : BOOLEAN, limits : SUBSET LimitNames,
     pagesDeclared : Nat \cup {Undeclared}, pagesFetched : Nat,
     itemsDeclared : Nat \cup {Undeclared}, itemsEmitted : Nat, errors : Nat]

ASSUME ActorAssumption ==
    /\ Sources \subseteq SourceShape /\ CapSets \subseteq CapShape
    /\ {ReadSize, MaxErrors, PageLimit} \subseteq Nat \ {0}
    /\ Undeclared \notin Nat /\ None \notin ReportShape

VARIABLES
    job,         \* the admitted input and the source it is pointed at
    run,         \* the counters of collect()
    pc,          \* where the Actor is
    got,         \* bytes of the current response received
    late,        \* the time budget is spent
    remote,      \* the platform's run status
    dataset,     \* the run's default dataset
    output,      \* the OUTPUT record of its key-value store
    read,        \* dataset rows the importer has read; None before it starts
    verdict,     \* the run's classification
    disturbed    \* history: the clock, the network or the platform interfered

vars == <<job, run, pc, got, late, remote, dataset, output, read, verdict, disturbed>>
imported == <<read, verdict>>
stored == <<dataset, output>>

Terminal == {"SUCCEEDED", "FAILED", "TIMED-OUT", "ABORTED"}
Smaller(a, b) == IF a <= b THEN a ELSE b

Pages == job.source.pages
Listings(s) == UNION {{<<p, j>> : j \in DOMAIN s.pages[p].listings} : p \in DOMAIN s.pages}
Kind(l) == Pages[l[1]].listings[l[2]]

\* The declared-count checks are the synthetic Actor's own: another Actor may
\* leave them to the importer ("unchecked"), or answer for another scope
\* ("misdirected").
Careful == job.conduct = "synthetic"
Echoes == job.conduct # "misdirected"

(***************************************************************************)
(* faultMode                                                               *)
(***************************************************************************)
ItemCap == IF job.fault = "truncate_items" THEN 1 ELSE job.caps.items
PageCap == IF job.fault = "truncate_pages" THEN 1 ELSE job.caps.pages
SkipsPage == job.fault = "partial_failure" /\ run.index = run.planned - 1

\* After a page no byte budget is left, so the ordinary check refuses the next.
ByteCap(r) ==
    IF job.fault = "truncate_bytes" THEN Smaller(r.byteCap, r.bytes) ELSE r.byteCap

\* r, a run that has just used a page, as faultMode leaves it.
AfterPage(r) ==
    LET first == r.fetched = 1
    IN  [r EXCEPT !.byteCap = ByteCap(r),
                  !.exhausted = @ \/ (first /\ job.fault = "truncate_time"),
                  !.stopped = @ \/ (first /\ job.fault = "fail"),
                  !.errors = IF first /\ job.fault = "fail" THEN @ + 1 ELSE @]

(***************************************************************************)
(* collect()                                                               *)
(***************************************************************************)
Jobs == {j \in [source : Sources, caps : CapSets, fault : FaultModes, conduct : Conducts] :
            j.fault # "none" => j.conduct = "synthetic"}

Init ==
    /\ job \in Jobs
    /\ run = [index |-> 0, planned |-> job.source.listed, rows |-> <<>>, errors |-> 0,
              limits |-> {}, requests |-> 0, attempted |-> 0, fetched |-> 0, bytes |-> 0,
              pagesDeclared |-> Undeclared, itemsDeclared |-> Undeclared,
              byteCap |-> job.caps.bytes, exhausted |-> FALSE, stopped |-> FALSE]
    /\ pc = "loop" /\ got = 0 /\ late = FALSE
    /\ remote = "RUNNING" /\ dataset = <<>> /\ output = None
    /\ read = None /\ verdict = None /\ disturbed = FALSE

\* The time budget of the input runs out.
Deadline ==
    /\ ~late /\ pc \in {"loop", "reading"} /\ remote = "RUNNING"
    /\ late' = TRUE /\ disturbed' = TRUE
    /\ UNCHANGED <<job, run, pc, got, remote, stored, imported>>

At(place) == pc = place /\ remote = "RUNNING"
Collecting == At("loop") /\ run.index < run.planned /\ ~run.stopped /\ "items" \notin run.limits

\* The caps that forbid fetching another page.
Binding ==
    LET binds == [time     |-> late \/ run.exhausted,
                  bytes    |-> run.bytes >= run.byteCap,
                  requests |-> run.requests >= job.caps.requests,
                  pages    |-> run.attempted >= PageCap,
                  items    |-> Len(run.rows) >= ItemCap]
    IN  {l \in LimitNames : binds[l]}

SkipPage ==
    /\ Collecting /\ SkipsPage
    /\ run' = [run EXCEPT !.attempted = @ + 1, !.errors = @ + 1, !.index = @ + 1]
    /\ UNCHANGED <<job, pc, got, late, remote, stored, imported, disturbed>>

StopForLimits ==
    /\ Collecting /\ ~SkipsPage /\ Binding # {}
    /\ run' = [run EXCEPT !.limits = @ \cup Binding, !.stopped = TRUE]
    /\ UNCHANGED <<job, pc, got, late, remote, stored, imported, disturbed>>

SendRequest ==
    /\ Collecting /\ ~SkipsPage /\ Binding = {}
    /\ run' = [run EXCEPT !.requests = @ + 1, !.attempted = @ + 1]
    /\ pc' = "reading" /\ got' = 0
    /\ UNCHANGED <<job, late, remote, stored, imported, disturbed>>

Exists == run.index + 1 \in DOMAIN Pages
Page == Pages[run.index + 1]

\* The request ends without a usable page: a limit, or an error, goes on record.
Lost(limits, errors) ==
    /\ run' = [run EXCEPT !.index = @ + 1, !.limits = @ \cup limits, !.errors = @ + errors,
                          !.stopped = @ \/ limits # {}]
    /\ pc' = "loop"

\* One network read.  A body over the byte cap or past the deadline is
\* discarded whole.
Receive ==
    /\ At("reading") /\ Exists /\ got < Page.bytes
    /\ \E n \in 1..Smaller(ReadSize, Page.bytes - got) :
        LET counted == [run EXCEPT !.bytes = @ + n]
            hit == (IF counted.bytes > run.byteCap THEN {"bytes"} ELSE {})
                    \cup (IF late THEN {"time"} ELSE {})
        IN  /\ got' = got + n
            /\ run' = IF hit = {} THEN counted
                      ELSE [counted EXCEPT !.limits = @ \cup hit, !.stopped = TRUE,
                                           !.index = @ + 1]
            /\ pc' = IF hit = {} THEN "reading" ELSE "loop"
    /\ UNCHANGED <<job, late, remote, stored, imported, disturbed>>

\* Mutation: only the wait for the first byte has a timeout.
TimeOutFirstByte ==
    /\ At("reading") /\ late /\ got = 0
    /\ Lost({"time"}, 0)
    /\ UNCHANGED <<job, got, late, remote, stored, imported, disturbed>>

\* The wait outlives what was left of the time budget.
TimeOut ==
    /\ At("reading") /\ late
    /\ Lost({"time"}, 0)
    /\ UNCHANGED <<job, got, late, remote, stored, imported, disturbed>>

\* Another status than 200, a broken connection, or a body that is no page.
Unusable ==
    /\ At("reading")
    /\ Lost({}, 1)
    /\ disturbed' = (disturbed \/ Exists)
    /\ UNCHANGED <<job, got, late, remote, stored, imported>>

\* How many rows of page p were emitted before its listing j is reached.
EmittedBefore(p, j) ==
    Cardinality({i \in 1..(j - 1) : Pages[p].listings[i] # "bad"})

\* The members of a finite set of numbers, the least first.
Ascending(S) ==
    CHOOSE s \in [1..Cardinality(S) -> S] :
        /\ \A j \in S : \E i \in DOMAIN s : s[i] = j
        /\ \A i, j \in DOMAIN s : i < j => s[i] < s[j]

\* Listings reached are all that r emits from its page: is one left?
LeavesUnnoticed(r, reached) == FALSE    \* mutation: a page cut short passes
Leaves(r, reached) == reached # DOMAIN Pages[r.index + 1].listings

\* The rows of a page, in order, while the item cap leaves room; a limit is
\* hit only when a listing is left.
Emitted(r) ==
    LET p == r.index + 1
        reached == {j \in DOMAIN Pages[p].listings :
                        Len(r.rows) + EmittedBefore(p, j) < ItemCap}
        order == Ascending({j \in reached : Kind(<<p, j>>) # "bad"})
    IN  [r EXCEPT !.rows = @ \o [i \in DOMAIN order |-> <<p, order[i]>>],
                  !.errors = @ + Cardinality({j \in reached : Kind(<<p, j>>) = "bad"}),
                  !.limits = IF Leaves(r, reached) THEN @ \cup {"items"} ELSE @]

\* The first page fetched says how many pages and items there are.
Declared(r) ==
    IF r.fetched > 0 THEN r
    ELSE [r EXCEPT !.pagesDeclared = job.source.pagesDeclared,
                   !.itemsDeclared = job.source.itemsDeclared,
                   !.planned = IF job.source.pagesDeclared = Undeclared THEN @
                               ELSE Smaller(@, job.source.pagesDeclared)]

\* The body is whole and parses.
UsePage ==
    /\ At("reading") /\ Exists /\ got = Page.bytes
    /\ LET counted == [Declared(run) EXCEPT !.fetched = @ + 1]
       IN  run' = [AfterPage(Emitted(counted)) EXCEPT !.index = @ + 1]
    /\ pc' = "loop"
    /\ UNCHANGED <<job, got, late, remote, stored, imported, disturbed>>

(***************************************************************************)
(* The report, and the order in which it is stored                         *)
(***************************************************************************)
\* Rows, then OUTPUT, then the exit status.
After(place) == [loop |-> "push", push |-> "output", output |-> "exit"][place]

Unaccounted ==
    \/ run.fetched < run.planned
    \/ run.pagesDeclared # Undeclared /\ run.fetched < run.pagesDeclared
    \/ run.itemsDeclared # Undeclared /\ Len(run.rows) # run.itemsDeclared

\* The source declares more than was collected: an error of its own.
Finish ==
    /\ At("loop") /\ ~Collecting
    /\ run' = IF Careful /\ run.limits = {} /\ run.errors = 0 /\ Unaccounted
              THEN [run EXCEPT !.errors = 1] ELSE run
    /\ pc' = After(pc)
    /\ UNCHANGED <<job, got, late, remote, stored, imported, disturbed>>

ErrorsUncut == run.errors    \* mutation: the list outgrows its schema
ErrorsReported == Smaller(run.errors, MaxErrors)

Doctored == job.fault = "contradictory_report"

Report ==
    [version       |-> IF job.fault = "unknown_schema" THEN "unknown" ELSE "v1",
     scope         |-> IF Echoes THEN "admitted" ELSE "other",
     status        |-> IF job.fault = "fail" THEN "failed" ELSE "succeeded",
     complete      |-> run.limits = {} /\ run.errors = 0,
     truncated     |-> run.limits # {} /\ ~Doctored,
     limits        |-> run.limits \cup (IF Doctored THEN {"pages"} ELSE {}),
     pagesDeclared |-> run.pagesDeclared,
     pagesFetched  |-> run.fetched,
     itemsDeclared |-> run.itemsDeclared,
     itemsEmitted  |-> Len(run.rows) + (IF job.fault = "count_mismatch" THEN 1 ELSE 0),
     errors        |-> ErrorsReported]

Push ==
    /\ At("push")
    /\ dataset' = run.rows /\ pc' = After(pc)
    /\ UNCHANGED <<job, run, got, late, remote, output, imported, disturbed>>

WriteOutput ==
    /\ At("output")
    /\ output' = Report /\ pc' = After(pc)
    /\ UNCHANGED <<job, run, got, late, remote, dataset, imported, disturbed>>

Exit ==
    /\ At("exit")
    /\ remote' = IF job.fault = "fail" THEN "FAILED" ELSE "SUCCEEDED"
    /\ pc' = "ended"
    /\ UNCHANGED <<job, run, got, late, stored, imported, disturbed>>

\* The platform ends the run: its timeout, hw-radar's abort, or a crash, which
\* is not restarted.  A push under way leaves the rows it got to.
Kill(status) ==
    /\ remote = "RUNNING"
    /\ remote' = status /\ pc' = "ended" /\ disturbed' = TRUE
    /\ IF pc = "push" THEN \E n \in 0..Len(run.rows) : dataset' = SubSeq(run.rows, 1, n)
       ELSE UNCHANGED dataset
    /\ UNCHANGED <<job, run, got, late, output, imported>>

(***************************************************************************)
(* The importer                                                            *)
(***************************************************************************)
\* One dataset page.  The platform may leave the total out.
Beyond(offset, count) == count = 0 \/ count < PageLimit

ReadPage ==
    /\ remote \in Terminal /\ verdict = None /\ (read # None => ~read.done)
    /\ LET offset == IF read = None THEN 0 ELSE read.rows
           count == Smaller(PageLimit, Len(dataset) - offset)
       IN  \E total \in {None, Len(dataset)} :
             read' = [rows |-> offset + count,
                      done |-> \/ Beyond(offset, count)
                               \/ total # None /\ offset + count >= Len(dataset)]
    /\ UNCHANGED <<job, run, pc, got, late, remote, stored, verdict, disturbed>>

\* The rows import_row admits.
Usable(rows) ==
    {l \in rows : Kind(l) = "good" /\ Echoes /\ job.fault # "unknown_schema"}

Contradicts(count) ==
    \/ output.complete /\ output.limits # {}
    \/ output.complete /\ output.truncated
    \/ output.truncated /\ output.limits = {} /\ remote # "TIMED-OUT"
    \/ remote = "SUCCEEDED" /\ output.status # "succeeded"
    \/ output.itemsEmitted # count
    \/ /\ output.complete /\ output.itemsDeclared # Undeclared
       /\ output.itemsEmitted # output.itemsDeclared
    \/ output.pagesDeclared # Undeclared /\ output.pagesFetched > output.pagesDeclared
    \/ /\ output.complete /\ output.pagesDeclared # Undeclared
       /\ output.pagesFetched < output.pagesDeclared

Failed(reason) == [completeness |-> "failed", reason |-> reason, truncation |-> None]
PartialFailure(reason) == [completeness |-> "partial_failure", reason |-> reason, truncation |-> None]
Complete(reason) == [completeness |-> "complete", reason |-> reason, truncation |-> None]

\* The first limit in this order names the truncation.
Truncated(limits) ==
    LET precedence == <<"time", "bytes", "requests", "pages", "items">>
        first == CHOOSE i \in DOMAIN precedence :
                    /\ precedence[i] \in limits
                    /\ \A j \in 1..(i - 1) : precedence[j] \notin limits
    IN  [completeness |-> "truncated", reason |-> "truncated", truncation |-> precedence[first]]

ProvenEmpty ==
    output.complete /\ output.pagesFetched >= 1 /\ output.itemsDeclared = 0 /\ output.itemsEmitted = 0

\* The precedence of classify_run, most conservative first.
Classification(count, usable) ==
    LET causes == output.limits \cup (IF remote = "TIMED-OUT" THEN {"time"} ELSE {})
    IN  IF output = None THEN Failed("missing_output")
        ELSE IF output.version # "v1" THEN Failed("unknown_schema_version")
        ELSE IF output.errors > MaxErrors THEN Failed("invalid_output")
        ELSE IF output.scope # "admitted" THEN Failed("scope_mismatch")
        ELSE IF Contradicts(count) THEN Failed("contradictory_report")
        ELSE IF count > 0 /\ usable = 0 THEN Failed("no_usable_items")
        ELSE IF remote \in {"FAILED", "ABORTED"} THEN
            IF count > 0 THEN PartialFailure("remote_failed_with_items") ELSE Failed("remote_failed_empty")
        ELSE IF output.errors > 0 THEN PartialFailure("errors_reported")
        ELSE IF causes # {} THEN Truncated(causes)
        ELSE IF count = 0 THEN
            IF ProvenEmpty THEN Complete("complete_empty") ELSE Failed("ambiguous_empty")
        ELSE IF ~output.complete THEN Failed("unexplained_incomplete")
        ELSE IF usable < count THEN PartialFailure("unusable_items")
        ELSE Complete("complete")

RowsRead == {dataset[i] : i \in 1..read.rows}

Classify ==
    /\ read # None /\ read.done /\ verdict = None
    /\ verdict' = Classification(read.rows, Cardinality(Usable(RowsRead)))
    /\ UNCHANGED <<job, run, pc, got, late, remote, stored, read, disturbed>>

Judged == verdict # None /\ UNCHANGED vars

Next ==
    \/ Deadline
    \/ SkipPage
    \/ StopForLimits
    \/ SendRequest
    \/ Receive
    \/ TimeOut
    \/ Unusable
    \/ UsePage
    \/ Finish
    \/ Push
    \/ WriteOutput
    \/ Exit
    \/ \E status \in {"TIMED-OUT", "ABORTED", "FAILED"} : Kill(status)
    \/ ReadPage
    \/ Classify
    \/ Judged

\* The Actor runs on and time passes; the source owes nothing, and the
\* platform need not end a run that ends by itself.
Fairness ==
    /\ WF_vars(SkipPage \/ StopForLimits \/ SendRequest \/ UsePage)
    /\ WF_vars(TimeOut)
    /\ WF_vars(Deadline)
    /\ WF_vars(Finish \/ Push \/ WriteOutput \/ Exit)
    /\ WF_vars(ReadPage \/ Classify)

Spec == Init /\ [][Next]_vars /\ Fairness

(***************************************************************************)
(* Properties                                                              *)
(***************************************************************************)
Honest(s) ==
    /\ s.pagesDeclared \in {Undeclared, Len(s.pages)}
    /\ s.itemsDeclared \in {Undeclared, Cardinality(Listings(s))}

\* The scope is known whole: every page is listed, or the source says how much
\* there is.
Coverable(s) ==
    s.listed >= Len(s.pages) \/ s.pagesDeclared # Undeclared \/ s.itemsDeclared # Undeclared

TypeOK ==
    /\ job \in Jobs
    /\ run.index \in 0..job.source.listed /\ run.planned \in 0..job.source.listed
    /\ run.limits \subseteq LimitNames
    /\ {run.rows[i] : i \in DOMAIN run.rows} \subseteq Listings(job.source)
    /\ run.errors \in Nat /\ run.requests \in Nat /\ run.attempted \in Nat
    /\ run.exhausted \in BOOLEAN /\ run.stopped \in BOOLEAN
    /\ run.pagesDeclared \in Nat \cup {Undeclared}
    /\ run.itemsDeclared \in Nat \cup {Undeclared}
    /\ pc \in {"loop", "reading", "push", "output", "exit", "ended"}
    /\ got \in Nat /\ late \in BOOLEAN /\ disturbed \in BOOLEAN
    /\ remote \in Terminal \cup {"RUNNING"}
    /\ dataset = SubSeq(run.rows, 1, Len(dataset))
    /\ output # None => output \in ReportShape /\ output.errors <= MaxErrors

\* A complete verdict is the only one that lets the importer treat what it did
\* not see as absent (provider.py delist_scope).  Whatever was lost, cut short
\* or killed on the way, a run called complete holds every listing of its
\* source, provided the source tells the truth and its extent is known.
CompleteMeansWhole ==
    (verdict # None /\ verdict.completeness = "complete"
        /\ Honest(job.source) /\ Coverable(job.source))
    => Usable(RowsRead) = Listings(job.source)

Capacious(c, s) ==
    /\ c.pages >= Len(s.pages) /\ c.requests >= Len(s.pages)
    /\ c.bytes >= SumFunction([p \in DOMAIN s.pages |-> s.pages[p].bytes])
    /\ c.items >= Cardinality(Listings(s))
Sound(s) ==
    /\ Honest(s) /\ s.pages # <<>> /\ \A p \in DOMAIN s.pages : s.pages[p].listings # <<>>
    /\ \A l \in Listings(s) : s.pages[l[1]].listings[l[2]] = "good"
    /\ s.listed >= Len(s.pages) /\ (s.listed > Len(s.pages) => s.pagesDeclared # Undeclared)

Rejected == {"invalid_output", "unknown_schema_version", "scope_mismatch",
             "contradictory_report", "unexplained_incomplete"}

\* The honest Actor's account of an honest source and the importer's checks
\* agree.  A report is never thrown away as malformed or contradictory, whatever
\* happened to the run; and a source that exactly fits its caps "is complete,
\* not truncated" (core.py:14) when nothing interfered.
HonestJob == job.fault = "none" /\ Honest(job.source) /\ Careful
ReportAccepted ==
    verdict # None /\ HonestJob /\ output # None => verdict.reason \notin Rejected
FitIsComplete ==
    verdict # None /\ HonestJob /\ ~disturbed /\ Sound(job.source)
        /\ Capacious(job.caps, job.source)
    => verdict.completeness = "complete"
HonestReportStands == ReportAccepted /\ FitIsComplete

\* A source that answers no more, or a byte at a time, cannot hold a run open:
\* every run ends and is judged.
EveryRunIsJudged == <>(verdict # None)
=============================================================================

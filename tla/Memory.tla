------------------------------- MODULE Memory -------------------------------
(***************************************************************************)
(* The conversation memory of app/memory (M5): recent turns in a Redis     *)
(* list, which is folded into one summary in PostgreSQL when it gets long. *)
(* One session, whose requests all carry the same user.                    *)
(*                                                                         *)
(* A turn is its position in the order of the RPUSHes.  The list only ever *)
(* loses turns at its old end or altogether, so it is oldest .. appended.  *)
(* A summary is the set of turns it was made from, directly or through the *)
(* summary before it; that the LLM keeps what it is given is assumed.      *)
(***************************************************************************)
EXTENDS Naturals, FiniteSets

CONSTANTS
  Writer,          \* requests that can be in progress at once
  MaxTurns,        \* settings.memory_recent_max_turns
  Threshold,       \* settings.memory_summary_threshold
  MaxInput,        \* _MAX_INPUT_TURNS
  ClearRetries,    \* _CLEAR_RETRIES
  MaxAppended,     \* bound: turns appended
  MaxFailures      \* bound: commands that raise, and requests that end early

\* The last inequality holds of the defaults, 20 and 20.
ASSUME MemoryAssumption ==
  /\ Threshold \in Nat \ {0} /\ ClearRetries \in Nat \ {0}
  /\ MaxTurns \in Nat \ {0} /\ MaxInput \in Nat /\ MaxTurns <= MaxInput
  /\ MaxAppended \in Nat /\ MaxFailures \in Nat

VARIABLES
  appended,   \* how many turns have been pushed
  oldest,     \* the oldest turn still in the list; appended + 1 if it is empty
  summary,    \* the turns the summary stands for; {} if there is no row
  request,    \* request[w]: what request w does
  failures,   \* how many failures there have been
  excuses     \* history: "disturbed" once a turn was pushed between the reading and
              \* the clearing of a list, "expired" once the list went with its TTL

listVars == <<appended, oldest>>
vars == <<listVars, summary, request, failures, excuses>>

-----------------------------------------------------------------------------
(* Variants the code might have had, used only to show that the properties *)
(* depend on the code they are about.                                      *)

PastTheCap(count) == count > MaxTurns

OneMore(attempt) == attempt > ClearRetries

FromScratch(previous, window) == window

ListKept == "idle"

-----------------------------------------------------------------------------

Recent == oldest .. appended

RequestPC == {"idle", "trim", "count", "expire", "turns", "previous", "save", "clear"}

\* window and previous are what the compaction read, count the length after the
\* append, attempt the try of the clearing.
Request == [pc : RequestPC, count : Nat, window : SUBSET (1 .. appended),
            previous : SUBSET (1 .. appended), attempt : 1 .. ClearRetries]

Idle == [pc |-> "idle", count |-> 0, window |-> {}, previous |-> {}, attempt |-> 1]

RequestAt(w, label) == request[w].pc = label

\* On to a call that uses nothing of what was read before.
Goto(w, label) == request' = [request EXCEPT ![w] = [Idle EXCEPT !.pc = label]]

Done(w) == request' = [request EXCEPT ![w] = Idle]

Init ==
  /\ appended = 0
  /\ oldest = 1
  /\ summary = {}
  /\ request = [w \in Writer |-> Idle]
  /\ failures = 0
  /\ excuses = {}

-----------------------------------------------------------------------------
(* Appending a turn.                                                       *)

\* A compaction has read the list and will delete it.
Compacting(w) == request[w].pc \in {"previous", "save", "clear"}

Push(w) ==
  /\ RequestAt(w, "idle")
  /\ appended < MaxAppended
  /\ appended' = appended + 1
  /\ excuses' = IF \E v \in Writer : Compacting(v) THEN excuses \cup {"disturbed"} ELSE excuses
  /\ Goto(w, "trim")
  /\ UNCHANGED <<oldest, summary, failures>>

\* The oldest turn that LTRIM leaves of a list first .. n.
Trimmed(n, first) == IF first + MaxTurns <= n THEN n + 1 - MaxTurns ELSE first

Trim(w) ==
  /\ RequestAt(w, "trim")
  /\ oldest' = Trimmed(appended, oldest)
  /\ Goto(w, "count")
  /\ UNCHANGED <<appended, summary, failures, excuses>>

Count(w) ==
  /\ RequestAt(w, "count")
  /\ request' = [request EXCEPT ![w].pc = "expire", ![w].count = appended + 1 - oldest]
  /\ UNCHANGED <<listVars, summary, failures, excuses>>

Full(count) == count >= Threshold

SetTtl(w) ==
  /\ RequestAt(w, "expire")
  /\ IF Full(request[w].count) THEN Goto(w, "turns") ELSE Done(w)
  /\ UNCHANGED <<listVars, summary, failures, excuses>>

-----------------------------------------------------------------------------
(* Folding the list into the summary.                                      *)

\* POST /memory/summarize.
Summarize(w) ==
  /\ RequestAt(w, "idle")
  /\ Goto(w, "turns")
  /\ UNCHANGED <<listVars, summary, failures, excuses>>

\* The oldest turn of those the LLM is shown of a list first .. n.
Shown(n, first) == IF first + MaxInput <= n THEN n + 1 - MaxInput ELSE first

GetTurns(w) ==
  /\ RequestAt(w, "turns")
  /\ request' = [request EXCEPT ![w].pc = "previous",
                               ![w].window = Shown(appended, oldest) .. appended]
  /\ UNCHANGED <<listVars, summary, failures, excuses>>

\* With nothing to add, a summary is kept as it is, and without one the request fails.
GetPrevious(w) ==
  /\ RequestAt(w, "previous")
  /\ \/ /\ request[w].window # {}
        /\ request' = [request EXCEPT ![w].pc = "save", ![w].previous = summary]
     \/ /\ request[w].window = {} /\ summary # {}
        /\ Goto(w, "clear")
     \/ /\ request[w].window = {} /\ summary = {}
        /\ Done(w)
  /\ UNCHANGED <<listVars, summary, failures, excuses>>

\* What the LLM makes of its prompt.
Compacted(previous, window) == previous \cup window

\* The list is deleted once the summary is stored.
AfterSave == "clear"

Save(w) ==
  /\ RequestAt(w, "save")
  /\ summary' = Compacted(request[w].previous, request[w].window)
  /\ Goto(w, AfterSave)
  /\ UNCHANGED <<listVars, failures, excuses>>

Clear(w) ==
  /\ RequestAt(w, "clear")
  /\ oldest' = appended + 1
  /\ Done(w)
  /\ UNCHANGED <<appended, summary, failures, excuses>>

-----------------------------------------------------------------------------
(* Failures.                                                               *)

LastAttempt(attempt) == attempt = ClearRetries

\* The DEL raises, whether or not it was executed, and is tried again.
ClearFails(w) ==
  /\ RequestAt(w, "clear")
  /\ failures < MaxFailures
  /\ failures' = failures + 1
  /\ oldest' \in {oldest, appended + 1}
  /\ IF LastAttempt(request[w].attempt)
       THEN Done(w)
       ELSE request' = [request EXCEPT ![w].attempt = @ + 1]
  /\ UNCHANGED <<appended, summary, excuses>>

\* Another command or the LLM raises, or the process ends.  If the command was
\* executed all the same, that was a step and then a failure.
Fails(w) ==
  /\ ~RequestAt(w, "idle")
  /\ failures < MaxFailures
  /\ failures' = failures + 1
  /\ Done(w)
  /\ UNCHANGED <<listVars, summary, excuses>>

\* The TTL of the list ends.
Expire ==
  /\ Recent # {}
  /\ oldest' = appended + 1
  /\ excuses' = excuses \cup {"expired"}
  /\ UNCHANGED <<appended, summary, request, failures>>

-----------------------------------------------------------------------------
(* The specification.                                                      *)

RequestStep(w) ==
  \/ Trim(w) \/ Count(w) \/ SetTtl(w) \/ GetTurns(w) \/ GetPrevious(w) \/ Save(w) \/ Clear(w)

Next ==
  \/ \E w \in Writer :
       Push(w) \/ Summarize(w) \/ RequestStep(w) \/ ClearFails(w) \/ Fails(w)
  \/ Expire

Spec == Init /\ [][Next]_vars

\* The event loop resumes a request whose command has been answered.
Fairness == \A w \in Writer : WF_vars(RequestStep(w))

FairSpec == Spec /\ Fairness

-----------------------------------------------------------------------------
(* Properties.                                                             *)

\* Every variable keeps its type, and the list is never longer than its cap and the
\* turns whose LTRIM is outstanding, because its request has not come to it or failed
\* before it (recent.py 16-17).
TypeOK ==
  /\ appended \in 0 .. MaxAppended
  /\ oldest \in 1 .. appended + 1
  /\ summary \subseteq 1 .. appended
  /\ request \in [Writer -> Request]
  /\ failures \in 0 .. MaxFailures
  /\ excuses \subseteq {"disturbed", "expired"}
  /\ appended + 1 - oldest <= MaxTurns + failures + Cardinality({w \in Writer : RequestAt(w, "trim")})

\* Every turn is in the list or in the summary, whatever requests overlap, as long as no
\* turn was pushed while a list that had been read was waiting to be deleted, the list
\* did not expire, and the failures and the requests at work together are fewer than
\* the turns between the threshold and the cap (service.py 64-81, recent.py 16-18,
\* summary.py 97-136).
NothingLost ==
  (excuses = {} /\ Threshold + failures + Cardinality(Writer) <= MaxTurns + 1)
    => 1 .. appended \subseteq Recent \cup summary

\* Unless such a turn was pushed the summary never forgets one it has taken in: although
\* a compaction overwrites it on the strength of one it read before calling the LLM, no
\* other compaction can have added to it in between (summary.py 61-87, 88-136).  That
\* takes an LLM that is shown as many turns as the list may have, as with the defaults:
\* shown more, two compactions would read different turns, one before and one after an
\* LTRIM of the list (summary.py 16, config.py 62).
SummaryGrows == []["disturbed" \notin excuses' => summary \subseteq summary']_vars

\* A list found full after an append is emptied in the end, if nothing more fails, so
\* that the next compaction does not see its turns again (service.py 71-80, 21-45).
FullListFolded ==
  \A t \in 1 .. MaxAppended :
    /\ failures = MaxFailures
    /\ t \in Recent /\ \E w \in Writer : RequestAt(w, "expire") /\ Full(request[w].count)
    ~> t < oldest

=============================================================================

----------------------------- MODULE Submission -----------------------------
(***************************************************************************)
(* POST /analyze of one tenant (api/main.py): the idempotency key is       *)
(* looked up, the request is counted against the plan's rate limit and the *)
(* queues' limits, the job is created and published, and only then the     *)
(* answer is stored under the key (core/idempotency.py,                    *)
(* core/rate_limiting.py).  The requests run at the same time, each step   *)
(* being one command of Redis or of the broker, and may be lost anywhere.  *)
(*                                                                         *)
(* The clock advances in slots, SlotsPerWindow of which make the 60        *)
(* seconds of a rate limit window; a request may take any time between two *)
(* steps, so that it counts in a window that is over, whose counter may    *)
(* have expired.  The horizon is shorter than the 24 hours an answer is    *)
(* stored.  The plan is a limited one: enterprise requests are not         *)
(* counted.  What the queue counters do is in QueueControl; here a full    *)
(* queue refuses any request.                                              *)
(***************************************************************************)
EXTENDS Naturals, FiniteSets, Sequences

CONSTANTS
  Handlers,         \* requests that run at the same time
  Keys, NoKey,      \* Idempotency-Key headers; the header is optional
  Limit,            \* RATE_LIMITS of the tenant's plan
  SlotsPerWindow,   \* WINDOW_SECONDS
  LastSlot,         \* bound: the horizon
  MaxRequests       \* bound: requests sent

ASSUME ConstantsAssumption ==
  /\ IsFiniteSet(Handlers)
  /\ NoKey \notin Keys
  /\ Limit \in Nat /\ LastSlot \in Nat /\ MaxRequests \in Nat
  /\ SlotsPerWindow \in Nat \ {0}

Jobs == 1..MaxRequests
NoJob == 0
Slots == 0..LastSlot

VARIABLES
  slot,        \* the time
  counter,     \* ratelimit:<tenant>:<window>, 0 if absent
  deadline,    \* when it expires, 0 if never
  stored,      \* idempotency:<tenant>:<key>, the job it answers
  published,   \* published[k]: jobs whose message was sent for a request with key k
  at, key,     \* the place of each handler in analyze, and its request's key
  window,      \* the window it counts in, from the time it took before
  job,         \* its job
  requests, created,  \* requests and jobs so far; each job is in tenant:jobs
  answered,    \* history: jobs that POST /analyze told some client
  dropped,     \* history: jobs lost between create_job and apply_async
  admitted,    \* history: the INCRs that stayed within the limit
  raced,       \* history: keys looked up or lost before an answer was stored
  lost         \* history: requests lost between publication and storage, by key

handler == <<at, key, window, job>>
history == <<answered, dropped, admitted, raced, lost>>
vars == <<slot, counter, deadline, stored, published, handler, requests, created, history>>

Places == {"idle", "key", "count", "expire", "refuse", "queue", "create", "publish",
           "store", "answer"}

(* The window that a request with its INCR at the given time counted in.   *)
Admissions == [by : Handlers, window : Slots, time : Slots]

TypeOK ==
  /\ slot \in Slots
  /\ counter \in [Slots -> 0..MaxRequests]
  /\ deadline \in [Slots -> 0..(LastSlot + 2 * SlotsPerWindow)]
  /\ stored \in [Keys -> Jobs \cup {NoJob}]
  /\ published \in [Keys \cup {NoKey} -> SUBSET Jobs]
  /\ at \in [Handlers -> Places]
  /\ key \in [Handlers -> Keys \cup {NoKey}]
  /\ window \in [Handlers -> Slots]
  /\ job \in [Handlers -> Jobs \cup {NoJob}]
  /\ requests \in 0..MaxRequests /\ created \in 0..MaxRequests
  /\ answered \subseteq Jobs /\ dropped \subseteq Jobs
  /\ admitted \in Seq(Admissions) /\ Len(admitted) <= MaxRequests
  /\ raced \subseteq Keys
  /\ lost \in [Keys \cup {NoKey} -> 0..MaxRequests]

Init ==
  /\ slot = 0
  /\ counter = [w \in Slots |-> 0] /\ deadline = [w \in Slots |-> 0]
  /\ stored = [k \in Keys |-> NoJob]
  /\ published = [k \in Keys \cup {NoKey} |-> {}]
  /\ at = [h \in Handlers |-> "idle"]
  /\ key = [h \in Handlers |-> NoKey]
  /\ window = [h \in Handlers |-> 0]
  /\ job = [h \in Handlers |-> NoJob]
  /\ requests = 0 /\ created = 0
  /\ answered = {} /\ dropped = {} /\ raced = {}
  /\ admitted = <<>>
  /\ lost = [k \in Keys \cup {NoKey} |-> 0]

Moves(h, from, to) ==
  /\ at[h] = from
  /\ at' = [at EXCEPT ![h] = to]

Ends(h, from) ==
  /\ Moves(h, from, "idle")
  /\ key' = [key EXCEPT ![h] = NoKey]
  /\ window' = [window EXCEPT ![h] = 0]
  /\ job' = [job EXCEPT ![h] = NoJob]

(* A request with key k was told that k is new and has not stored it yet.  *)
UnderWay(k) ==
  \E h \in Handlers :
    key[h] = k /\ at[h] \in {"count", "expire", "queue", "create", "publish", "store"}

Send(h, k) ==
  /\ Moves(h, "idle", "key")
  /\ requests < MaxRequests
  /\ requests' = requests + 1
  /\ key' = [key EXCEPT ![h] = k]
  /\ UNCHANGED <<slot, counter, deadline, stored, published, window, job, created, history>>

(* check_idempotency finds an answer: nothing is counted.                  *)
Replay(h) ==
  /\ key[h] \in Keys /\ stored[key[h]] # NoJob
  /\ Ends(h, "key")
  /\ answered' = answered \cup {stored[key[h]]}
  /\ UNCHANGED <<slot, counter, deadline, stored, published, requests, created,
                 dropped, admitted, raced, lost>>

Window(s) == s \div SlotsPerWindow

(* The request is new to check_idempotency; check_rate_limit takes the     *)
(* time.                                                                   *)
Pass(h) ==
  /\ Moves(h, "key", "count")
  /\ window' = [window EXCEPT ![h] = Window(slot)]
  /\ raced' = raced \cup {k \in Keys : k = key[h] /\ UnderWay(k)}
  /\ UNCHANGED <<slot, counter, deadline, stored, published, key, job,
                 requests, created, answered, dropped, admitted, lost>>

(* Mutant of PassKey: the lookup always misses.                            *)
PassAnyKey(h) == Pass(h)

PassKey(h) == (key[h] \in Keys => stored[key[h]] = NoJob) /\ Pass(h)

(* check_rate_limit: INCR, which is answered with the new value.           *)
Counted(h, value) ==
  /\ counter' = [counter EXCEPT ![window[h]] = @ + 1]
  /\ \/ /\ value <= Limit /\ Moves(h, "count", "expire")
        /\ admitted' = Append(admitted, [by |-> h, window |-> window[h], time |-> slot])
     \/ value > Limit /\ Moves(h, "count", "refuse") /\ UNCHANGED admitted
  /\ UNCHANGED <<slot, deadline, stored, published, key, window, job, requests, created,
                 answered, dropped, raced, lost>>

(* Mutant of Count: the value before the increment is compared.            *)
CountAfter(h) == Counted(h, counter[window[h]])

Count(h) == Counted(h, counter[window[h]] + 1)

(* EXPIRE, for twice a window, if the counter is still there; above the    *)
(* limit 429.                                                              *)
Expire(h) ==
  /\ deadline' = [deadline EXCEPT ![window[h]] =
                    IF counter[window[h]] = 0 THEN @ ELSE slot + 2 * SlotsPerWindow]
  /\ \/ Moves(h, "expire", "queue") /\ UNCHANGED <<key, window, job>>
     \/ Ends(h, "refuse")
  /\ UNCHANGED <<slot, counter, stored, published, requests, created, history>>

(* check_backpressure; the 503 does not take the count back.               *)
CheckQueue(h) ==
  /\ \/ Moves(h, "queue", "create") /\ UNCHANGED <<key, window, job>>
     \/ Ends(h, "queue")
  /\ UNCHANGED <<slot, counter, deadline, stored, published, requests, created, history>>

(* create_job: the record, and the id in tenant:jobs, in one transaction.  *)
(* From now on GET /jobs lists the job.                                    *)
CreateJob(h) ==
  /\ Moves(h, "create", "publish")
  /\ created' = created + 1
  /\ job' = [job EXCEPT ![h] = created + 1]
  /\ UNCHANGED <<slot, counter, deadline, stored, published, key, window, requests, history>>

(* Mutant of Publish: the answer is stored before the message is sent.     *)
PublishAfterStore(h) ==
  /\ Moves(h, "publish", "store")
  /\ stored' = [k \in Keys |-> IF k = key[h] THEN job[h] ELSE stored[k]]
  /\ UNCHANGED <<slot, counter, deadline, published, key, window, job, requests, created, history>>

(* increment_queue and apply_async                                         *)
Publish(h) ==
  /\ Moves(h, "publish", "store")
  /\ published' = [published EXCEPT ![key[h]] = @ \cup {job[h]}]
  /\ UNCHANGED <<slot, counter, deadline, stored, key, window, job, requests, created, history>>

(* store_idempotency, for a request with a key                             *)
Store(h) ==
  /\ Moves(h, "store", "answer")
  /\ stored' = [k \in Keys |-> IF k = key[h] THEN job[h] ELSE stored[k]]
  /\ UNCHANGED <<slot, counter, deadline, published, key, window, job, requests, created, history>>

(* audit_log, then 202                                                     *)
Answer(h) ==
  /\ Ends(h, "answer")
  /\ answered' = answered \cup {job[h]}
  /\ UNCHANGED <<slot, counter, deadline, stored, published, requests, created,
                 dropped, admitted, raced, lost>>

(* An error of Redis or of the broker, a process that ends, or an answer   *)
(* that does not arrive: the client may send the request again.            *)
Lose(h) ==
  /\ at[h] # "idle" /\ Ends(h, at[h])
  /\ dropped' = dropped \cup {j \in {job[h]} : at[h] = "publish"}
  /\ lost' = [lost EXCEPT ![key[h]] = IF at[h] = "store" THEN @ + 1 ELSE @]
  /\ raced' = raced \cup {k \in Keys : k = key[h] /\ at[h] = "store"}
  /\ UNCHANGED <<slot, counter, deadline, stored, published, requests, created,
                 answered, admitted>>

(* Time passes; counters whose time is over are gone.                      *)
Tick ==
  /\ slot < LastSlot /\ slot' = slot + 1
  /\ counter' = [w \in Slots |-> IF deadline[w] = slot + 1 THEN 0 ELSE counter[w]]
  /\ deadline' = [w \in Slots |-> IF deadline[w] = slot + 1 THEN 0 ELSE deadline[w]]
  /\ UNCHANGED <<stored, published, handler, requests, created, history>>

Next ==
  \/ \E h \in Handlers :
       \/ \E k \in Keys \cup {NoKey} : Send(h, k)
       \/ Replay(h) \/ PassKey(h) \/ Count(h) \/ Expire(h) \/ CheckQueue(h)
       \/ CreateJob(h) \/ Publish(h) \/ Store(h) \/ Answer(h) \/ Lose(h)
  \/ Tick

Spec == Init /\ [][Next]_vars

------------------------------------------------------------------------------
Queued == UNION {published[k] : k \in Keys \cup {NoKey}}

(* A job that POST /analyze tells a client, at once or in a replay, has    *)
(* its message in the broker, whatever is lost and sent again.  GET /jobs  *)
(* tells of more: it lists a job from create_job on, and lists one without *)
(* a message while its request is before apply_async, or if it was lost    *)
(* there, and then for good.                                               *)
KnownJobIsQueued ==
  /\ answered \cup {stored[k] : k \in Keys} \subseteq {NoJob} \cup Queued
  /\ 1..created \subseteq Queued \cup {job[h] : h \in {g \in Handlers : at[g] = "publish"}}
                      \cup dropped

(* "Prevents duplicate jobs from the same request" (core/idempotency.py):  *)
(* one job per key, unless a request with the key was looked up before the *)
(* answer of another was stored or was lost in between.  Even then the     *)
(* duplicates are bounded: once an answer is stored nothing new starts.    *)
JobsPerKeyBounded ==
  \A k \in Keys :
    /\ k \notin raced => Cardinality(published[k]) <= 1
    /\ Cardinality(published[k]) <= Cardinality(Handlers) + lost[k]

(* However its requests are interleaved and delayed: in any interval of    *)
(* the length of a window at most 2 * Limit requests are let through that  *)
(* took the time in one of the two windows it touches (they are fixed, not *)
(* sliding), even on counters that expire.  The others took the time in an *)
(* earlier window, and each is the work of a handler of its own.           *)
AdmissionBounded ==
  \A s \in Slots :
    LET passed == {i \in DOMAIN admitted :
                     s <= admitted[i].time /\ admitted[i].time < s + SlotsPerWindow}
        late == {i \in passed : admitted[i].window < Window(s)}
    IN  /\ Cardinality(passed \ late) <= 2 * Limit
        /\ Cardinality(late) <= Cardinality(Handlers)
=============================================================================

----------------------------- MODULE SystemStore -----------------------------
(***************************************************************************)
(* The configuration store: every process of the platform keeps a copy of  *)
(* the configuration documents and reloads what changed since it last did  *)
(* (server/system_services/system_store.js).  Who changes a document       *)
(* stamps it with its own clock, writes it and has the redirector tell     *)
(* every registered connection to load, itself included                    *)
(* (redirector.js, server_inter_process.js).                               *)
(*                                                                         *)
(* load and make_changes of a process are serialised by _load_serial, a    *)
(* Semaphore(1): queue[p] holds its calls, the first one inside.  A change *)
(* writes one document; versions number the writes to the database.        *)
(***************************************************************************)
EXTENDS Integers, Sequences, FiniteSets

CONSTANTS
    Procs,
    Docs,
    Name,         \* the indexed name of a document
    Skew,         \* how far the clock of a process is ahead
    MaxTime,      \* bound: readings of the clock
    MaxChanges,   \* bound: versions, the first of which are those at the start
    MaxEvents,    \* bound: faults, and copies that grow old
    MaxAge        \* how old a copy may grow before it is refreshed: "old" or "expired"

ASSUME MaxAgeAssumption == MaxAge \in {"old", "expired"}
ASSUME ClockAssumption  == Skew \in [Procs -> Nat] /\ MaxTime \in Nat

VARIABLES
    clock,              \* the clock of a process without skew
    db,                 \* the documents: [ver, at, deleted], at is last_update
    changes,            \* number of writes so far
    conn,               \* the connection of a process to the redirector
    queue,              \* calls of load and make_changes, the first one holds _load_serial
    data,               \* the copy: the version of each document, 0 without it
    loaded,             \* processes whose copy was loaded
    last_update_time,
    age,                \* since data.time: below 10 minutes, below 60, or more
    pubs,               \* calls of publish_to_cluster under way
    events,
    lost                \* history: <<p, d>> when p was not told of the last change of d, or
                        \* dropped what a load had read of d

vars == <<clock, db, changes, conn, queue, data, loaded, last_update_time, age,
          pubs, events, lost>>

Undefined == -1    \* load() without since
Epoch     == 0     \* NOOBAA_EPOCH

Event   == events < MaxEvents /\ events' = events + 1
Now(p)  == clock + Skew[p]
None    == [ver |-> 0, deleted |-> FALSE]
Live(d) == db[d].ver > 0 /\ ~db[d].deleted
Current(d) == IF Live(d) THEN db[d].ver ELSE 0

Load(since, id) == [type |-> "load", since |-> since, pub |-> id, stage |-> "wait",
                    stamp |-> 0, got |-> [d \in Docs |-> None]]
Change(op, d)   == [type |-> "change", op |-> op, doc |-> d, stage |-> "wait", stamp |-> 0]

Head1(p)      == queue[p][1]
At(p, t, s)   == queue[p] # <<>> /\ Head1(p).type = t /\ Head1(p).stage = s
SetHead(p, c) == queue' = [queue EXCEPT ![p][1] = c]
Leave(p)      == queue' = [queue EXCEPT ![p] = Tail(@)]
Calls(p)      == {queue[p][i] : i \in DOMAIN queue[p]}
Reloading(p)  == \E c \in Calls(p) : c.type = "load" /\ c.pub = 0

\* a platform that has started: every process registered and loaded
Init ==
    /\ clock = 0
    /\ \E old \in SUBSET Docs :
        /\ \A d, e \in old : Name[d] = Name[e] => d = e
        /\ db = [d \in Docs |-> [ver |-> IF d \in old THEN 1 ELSE 0, at |-> 0, deleted |-> FALSE]]
        /\ data = [p \in Procs |-> [d \in Docs |-> IF d \in old THEN 1 ELSE 0]]
    /\ changes = 1
    /\ conn = [p \in Procs |-> "registered"]
    /\ queue = [p \in Procs |-> <<>>]
    /\ loaded = Procs
    /\ last_update_time = [p \in Procs |-> Now(p)]
    /\ age = [p \in Procs |-> "fresh"]
    /\ pubs = {}
    /\ events = 0
    /\ lost = {}

-----------------------------------------------------------------------------
(* Loading *)

\* mutant: since is ignored
LoweredNever(p, since) == last_update_time[p]
\* Load requests with a since before the last update go back to it.
Lowered(p, since) ==
    IF since # Undefined /\ since < last_update_time[p] THEN since ELSE last_update_time[p]

\* load: register for changes first, then take the time, then read
Register(p) ==
    /\ At(p, "load", "wait")
    /\ last_update_time' = [last_update_time EXCEPT ![p] = Lowered(p, Head1(p).since)]
    /\ conn' = [conn EXCEPT ![p] = "registered"]
    /\ SetHead(p, [Head1(p) EXCEPT !.stage = "reading", !.stamp = Now(p)])
    /\ UNCHANGED <<clock, db, changes, data, loaded, age, pubs, events, lost>>

\* _read_new_data_from_db: the documents of a collection are read at once
\* Mutant: what was written in the millisecond of the last load is left out.
NewerStrictly(p, d) == db[d].ver > 0 /\ db[d].at > last_update_time[p]
Newer(p, d) == db[d].ver > 0 /\ db[d].at >= last_update_time[p]
Read(p) ==
    /\ At(p, "load", "reading")
    /\ SetHead(p, [Head1(p) EXCEPT !.stage = "read",
          !.got = [d \in Docs |-> IF Newer(p, d) THEN [ver |-> db[d].ver, deleted |-> db[d].deleted]
                                   ELSE None]])
    /\ UNCHANGED <<clock, db, changes, conn, data, loaded, last_update_time, age, pubs,
                   events, lost>>

\* _update_data_from_new: what was read replaces what was there, deleted ones go
Merged(old, got) ==
    [d \in Docs |-> IF got[d] = None THEN old[d]
                    ELSE IF got[d].deleted THEN 0 ELSE got[d].ver]

\* make_changes returns when every load it called was answered
Answered(p, id) ==
    {u \in {[v EXCEPT !.loading = IF v.id = id THEN @ \ {p} ELSE @] : v \in pubs} :
        u.stage = "sent" \/ u.loading # {}}

Merge(p) ==
    LET new == Merged(data[p], Head1(p).got) IN
    /\ At(p, "load", "read")
    /\ last_update_time' = [last_update_time EXCEPT ![p] = Head1(p).stamp]
    /\ data' = [data EXCEPT ![p] = new]
    /\ loaded' = loaded \cup {p}
    /\ age' = [age EXCEPT ![p] = "fresh"]
    /\ Leave(p)
    /\ lost' = lost \ {<<p, d>> : d \in {e \in Docs : new[e] = Current(e)}}
    /\ UNCHANGED <<clock, db, changes>>
Apply(p) ==
    /\ Merge(p)
    /\ pubs' = Answered(p, Head1(p).pub)
    /\ UNCHANGED <<conn, events>>

\* refresh: reloads an old copy; without a copy, or with an expired one, waits for it
Refresh(p) ==
    /\ p \notin loaded \/ age[p] # "fresh"
    /\ ~Reloading(p)
    /\ queue' = [queue EXCEPT ![p] = Append(@, Load(Undefined, 0))]
    /\ UNCHANGED <<clock, db, changes, conn, data, loaded, last_update_time, age, pubs,
                   events, lost>>

-----------------------------------------------------------------------------
(* Changing *)

\* a caller of make_changes: documents are found in the copy, a new one has a new id
ChangesOf(q) == {i \in DOMAIN queue[q] : queue[q][i].type = "change"}
Pending == UNION {{queue[q][i].doc : i \in ChangesOf(q)} : q \in Procs}
Calling == Cardinality(UNION {{q} \X ChangesOf(q) : q \in Procs})
MakeChanges(p, op, d) ==
    /\ p \in loaded
    /\ changes + Calling < MaxChanges
    /\ IF op = "insert" THEN db[d].ver = 0 /\ d \notin Pending
                        ELSE data[p][d] # 0
    /\ queue' = [queue EXCEPT ![p] = Append(@, Change(op, d))]
    /\ UNCHANGED <<clock, db, changes, conn, data, loaded, last_update_time, age, pubs,
                   events, lost>>

\* check_indexes: the name is free, as far as this copy knows
Collides(p, d) == \E e \in Docs \ {d} : data[p][e] # 0 /\ Name[e] = Name[d]

\* _make_changes_internal up to bulk.execute().  Its refresh() is awaited under the
\* lock: an expired copy makes it wait for a load that is behind it in the queue.
Prepare(p) ==
    LET c == Head1(p)
        expired == p \notin loaded \/ age[p] = "expired"
        reload == IF expired \/ age[p] = "old" THEN <<Load(Undefined, 0)>> ELSE <<>>
    IN  /\ At(p, "change", "wait")
        /\ queue' = [queue EXCEPT ![p] =
              IF ~expired /\ c.op = "insert" /\ Collides(p, c.doc) THEN Tail(@) \o reload
              ELSE <<[c EXCEPT !.stage = IF expired THEN "refreshing" ELSE "writing",
                               !.stamp = Now(p)]>> \o Tail(@) \o reload]
        /\ UNCHANGED <<clock, db, changes, conn, data, loaded, last_update_time, age, pubs,
                       events, lost>>

\* the unique index of the collection
Taken(d) == \E e \in Docs \ {d} : Live(e) /\ Name[e] = Name[d]

Written(c) ==
    /\ db' = [db EXCEPT ![c.doc] = [ver |-> changes + 1, at |-> c.stamp,
                                    deleted |-> @.deleted \/ c.op = "remove"]]
    /\ changes' = changes + 1

\* bulk.execute() succeeds: leave the lock, then publish
Write(p) ==
    LET c == Head1(p) IN
    /\ At(p, "change", "writing")
    /\ ~(c.op = "insert" /\ Taken(c.doc))
    /\ Written(c)
    /\ pubs' = pubs \cup {[id |-> changes + 1, by |-> p, doc |-> c.doc, since |-> c.stamp,
                           stage |-> "sent", told |-> {}, loading |-> {}]}
    /\ Leave(p)
    /\ UNCHANGED <<clock, conn, data, loaded, last_update_time, age, events, lost>>

\* bulk.execute() throws: a duplicate key, or an error of the database after it wrote,
\* or not.  What was written is not published.
WriteFails(p) ==
    LET c == Head1(p) IN
    /\ At(p, "change", "writing")
    /\ Leave(p)
    /\ \/ /\ c.op = "insert" /\ Taken(c.doc)
          /\ UNCHANGED <<db, changes, events, lost>>
       \/ /\ Event
          /\ ~(c.op = "insert" /\ Taken(c.doc))
          /\ Written(c)
          /\ lost' = lost \cup (Procs \X {c.doc})
       \/ /\ Event
          /\ UNCHANGED <<db, changes, lost>>
    /\ UNCHANGED <<clock, conn, data, loaded, last_update_time, age, pubs>>

-----------------------------------------------------------------------------
(* The redirector *)

Registered == {q \in Procs : conn[q] = "registered"}

\* mutant: calls on a closed connection stay pending
ClosedSilently(us, q) == us
\* once connection q closed: make_changes throws when a load it waits for was called there
Closed(us, q) == {u \in us : q \notin u.loading}

\* mutant: the loads it calls do not wait for _load_serial
CallAhead(q, u) == <<Load(u.since, u.id)>> \o queue[q]
\* mutant: the loads it calls go on from where the last one was
CallUndated(q, u) == Append(queue[q], Load(Undefined, u.id))
Call(q, u)      == Append(queue[q], Load(u.since, u.id))
\* publish_to_cluster calls load_system_store of every registered connection.  A call may
\* find its connection broken.
Publish(u) ==
    /\ u.stage = "sent"
    /\ \E broken \in {{}} \cup {{q} : q \in Registered} :
        LET reached == Registered \ broken
            sent == [u EXCEPT !.stage = "published", !.told = reached, !.loading = reached]
            rest == pubs \ {u}
        IN  /\ IF broken = {} THEN UNCHANGED events ELSE Event
            /\ queue' = [q \in Procs |-> IF q \in reached THEN Call(q, u) ELSE queue[q]]
            /\ conn' = [q \in Procs |-> IF q \in broken THEN "closed" ELSE conn[q]]
            /\ pubs' = IF broken # {} THEN {v \in rest : v.loading \cap broken = {}}
                       ELSE IF reached # {} THEN rest \cup {sent} ELSE rest
            /\ lost' = lost \cup {<<q, u.doc>> : q \in broken \cup
                                      {r \in Procs : conn[r] \in {"closed", "open"}}}
    /\ UNCHANGED <<clock, db, changes, data, loaded, last_update_time, age>>

-----------------------------------------------------------------------------
(* Faults: failed loads, lost connections, crashes *)

\* the redirector closes the connection of who could not load
Unanswered(p) ==
    LET told == \E u \in pubs : u.id = Head1(p).pub /\ p \in u.loading
    IN  /\ Event
        /\ conn' = [conn EXCEPT ![p] = IF told THEN "closed" ELSE @]
        /\ pubs' = IF told THEN Closed(pubs, p) ELSE pubs

\* load throws before it has read everything
LoadFails(p) ==
    /\ At(p, "load", "wait") \/ At(p, "load", "reading")
    /\ Unanswered(p)
    /\ last_update_time' = [last_update_time EXCEPT ![p] = Lowered(p, Head1(p).since)]
    /\ Leave(p)
    /\ UNCHANGED <<clock, db, changes, data, loaded, age, lost>>

\* read_server_secret throws: the next load goes on from the time of this one, and what
\* this one has read is not read again
LoadDrops(p) ==
    /\ At(p, "load", "read")
    /\ Unanswered(p)
    /\ last_update_time' = [last_update_time EXCEPT ![p] = Head1(p).stamp]
    /\ Leave(p)
    /\ lost' = lost \cup {<<p, d>> : d \in {e \in Docs :
                                  Merged(data[p], Head1(p).got)[e] # data[p][e]}}
    /\ UNCHANGED <<clock, db, changes, data, loaded, age>>

\* rebuild or decrypt_all_accounts_secret_keys throws, with the copy replaced
LoadThrows(p) == Merge(p) /\ Unanswered(p)

\* A lost connection may take a publication of q along that did not arrive yet.
Disconnect(q) ==
    /\ Event
    /\ conn[q] = "registered"
    /\ conn' = [conn EXCEPT ![q] = "closed"]
    /\ \E gone \in SUBSET {u \in pubs : u.by = q /\ u.stage = "sent"} :
        /\ pubs' = Closed(pubs \ gone, q)
        /\ lost' = lost \cup (Procs \X {u.doc : u \in gone})
    /\ UNCHANGED <<clock, db, changes, queue, data, loaded, last_update_time, age>>

\* _on_reconnect
Reconnect(q) ==
    /\ conn[q] = "closed"
    /\ conn' = [conn EXCEPT ![q] = "open"]
    /\ queue' = [queue EXCEPT ![q] = Append(@, Load(Undefined, 0))]
    /\ UNCHANGED <<clock, db, changes, data, loaded, last_update_time, age, pubs, events, lost>>

\* the process ends and starts again
Restart(p) ==
    LET gone == {u \in pubs : u.by = p /\ u.stage = "sent"} IN
    /\ Event
    /\ p \in loaded
    /\ conn' = [conn EXCEPT ![p] = "new"]
    /\ queue' = [queue EXCEPT ![p] = <<Load(Undefined, 0)>>]
    /\ data' = [data EXCEPT ![p] = [d \in Docs |-> 0]]
    /\ loaded' = loaded \ {p}
    /\ last_update_time' = [last_update_time EXCEPT ![p] = Epoch]
    /\ age' = [age EXCEPT ![p] = "fresh"]
    /\ pubs' = Closed(pubs \ gone, p)
    /\ lost' = {l \in lost : l[1] # p} \cup ((Procs \ {p}) \X {u.doc : u \in gone})
    /\ UNCHANGED <<clock, db, changes>>

-----------------------------------------------------------------------------
(* Time *)

Tick ==
    /\ clock < MaxTime
    /\ clock' = clock + 1
    /\ UNCHANGED <<db, changes, conn, queue, data, loaded, last_update_time, age, pubs,
                   events, lost>>

Ages(p) ==
    /\ Event
    /\ p \in loaded
    /\ \E older \in {"old", MaxAge} : age' = [age EXCEPT ![p] = older]
    /\ UNCHANGED <<clock, db, changes, conn, queue, data, loaded, last_update_time, pubs, lost>>

Loads(p)   == Register(p) \/ Read(p) \/ Apply(p)
Makes(p)   == Prepare(p) \/ Write(p) \/ WriteFails(p)
Fails(p)   == \/ LoadFails(p) \/ LoadDrops(p) \/ LoadThrows(p)
              \/ Disconnect(p) \/ Restart(p)

Next ==
    \/ \E p \in Procs :
        \/ Loads(p) \/ Makes(p) \/ Fails(p)
        \/ Refresh(p) \/ Reconnect(p) \/ Ages(p)
        \/ \E op \in {"insert", "update", "remove"}, d \in Docs : MakeChanges(p, op, d)
    \/ \E u \in pubs : Publish(u)
    \/ Tick

(* Calls of the database and the network end, connections are made again (reconnect
   with backoff), and requests come, each of which calls refresh.  Nobody has to
   change anything. *)
Fairness ==
    /\ \A p \in Procs : /\ WF_vars(Loads(p)) /\ WF_vars(Makes(p))
                        /\ WF_vars(Reconnect(p)) /\ WF_vars(Refresh(p))
    /\ WF_vars(\E u \in pubs : Publish(u))

Spec == Init /\ [][Next]_vars /\ Fairness

-----------------------------------------------------------------------------
(* Properties *)

\* readings of the clocks, and none yet
Times == {Epoch} \cup {t + Skew[p] : t \in 0..MaxTime, p \in Procs}
Stale(p, d) == p \notin loaded \/ data[p][d] # Current(d)

\* Only the first call of a queue has begun, a publication waits only for processes it
\* told, and nobody waits for the answer of a process that forgot the question.
TypeOK ==
    /\ \A p \in Procs : \A i \in 2..Len(queue[p]) : queue[p][i].stage = "wait"
    /\ \A p \in Procs : last_update_time[p] \in Times /\ data[p] \in [Docs -> 0..changes]
    /\ \A u \in pubs : /\ u.loading \subseteq u.told
                       /\ \A q \in u.loading : \E c \in Calls(q) : c.type = "load" /\ c.pub = u.id

\* When make_changes succeeds, every process that was told ("all the cluster (including
\* myself)") has the change or a later one of the document, unless who wrote later had
\* taken an earlier stamp: then the change waits for that publication, or the next load.
Seen(q, d, ver) == data[q][d] >= ver \/ (data[q][d] = 0 /\ db[d].deleted)
GoesBack(q, u) ==
    \/ \E v \in pubs : v.stage = "sent" /\ v.doc = u.doc /\ v.since < u.since
    \/ \E c \in Calls(q) : c.type = "load" /\ c.pub # 0 /\ c.since < u.since
SuccessMeansSeen ==
    [][\A u \in pubs : u.stage = "published" /\ u.id \notin {v.id : v \in pubs'} /\ events' = events =>
          \A q \in u.told \cap loaded :
             \/ Seen(q, u.doc, u.id)'
             \/ GoesBack(q, u) \/ Newer(q, u.doc)' \/ <<q, u.doc>> \in lost]_vars

\* A copy that differs from the database is yet to hear of it: a publication or a call of
\* load that goes back far enough is under way, or the next load reads it, unless it was
\* lost.  So long check_indexes may take a free name for taken, or a taken one for free.
Due(p, d) ==
    \/ <<p, d>> \in lost
    \/ last_update_time[p] <= db[d].at
    \/ \E u \in pubs : u.stage = "sent" /\ u.doc = d /\ u.since <= db[d].at
    \/ \E c \in Calls(p) : c.type = "load" /\ c.stage = "wait" /\ c.pub # 0 /\ c.since <= db[d].at
StaleIsDue == \A p \in Procs, d \in Docs : data[p][d] # Current(d) => Due(p, d)

\* A load never brings back what a load before it had replaced, which is why loads are
\* serialised.
NeverOlder ==
    [][\A p \in loaded \cap loaded', d \in Docs :
          \/ data'[p][d] >= data[p][d]
          \/ data'[p][d] = 0 /\ db[d].deleted]_vars

\* Once there are no more changes and faults, every copy becomes equal to the database, but
\* for documents whose last change was never told to the process, or dropped by it.
CopiesConverge ==
    <>[](\A p \in Procs, d \in Docs : Stale(p, d) => <<p, d>> \in lost)

\* "Reloading must be done outside the semapore lock because the load is locking on the
\* same semaphore": who changes does not wait, under the lock, for a load behind it.
ReloadOutsideLock == \A p \in Procs : ~At(p, "change", "refreshing")
=============================================================================

------------------------- MODULE SystemStoreProofs --------------------------
(* The system store: copies of the configuration never go back, calls and  *)
(* publications fit, a copy that is not up to date is yet to hear of the   *)
(* change, and one that succeeded is seen by every process that was told.  *)
EXTENDS SystemStore, SequenceTheorems, TLAPS

-----------------------------------------------------------------------------
(* The inductive invariant.                                                *)

Document   == [ver : Nat, at : Times, deleted : BOOLEAN]
GotType    == [ver : Nat, deleted : BOOLEAN]
LoadCall   == [type : {"load"}, since : Times \cup {Undefined}, pub : Nat,
               stage : {"wait", "reading", "read"}, stamp : Times, got : [Docs -> GotType]]
ChangeCall == [type : {"change"}, op : {"insert", "update", "remove"}, doc : Docs,
               stage : {"wait", "refreshing", "writing"}, stamp : Times]
CallType   == LoadCall \cup ChangeCall
PubType    == [id : Nat, by : Procs, doc : Docs, since : Times, stage : {"sent", "published"},
               told : SUBSET Procs, loading : SUBSET Procs]

\* What a load read replaces a copy by something newer, or by nothing for a deleted document.
GotNewer(got, copy, docs) ==
    \A d \in Docs : got[d] # None =>
        /\ copy[d] <= got[d].ver /\ got[d].ver <= docs[d].ver
        /\ got[d].deleted = TRUE => docs[d].deleted = TRUE

\* The calls of a process: the first one may have begun, and who changes a document found it.
CallSound(c, docs) == c.type = "change" /\ c.op # "insert" => docs[c.doc].ver > 0
QueueSound(s, copy, docs) ==
    /\ s \in Seq(CallType)
    /\ \A i \in 2..Len(s) : s[i].stage = "wait"
    /\ \A i \in 1..Len(s) : CallSound(s[i], docs)
    /\ s # <<>> => (s[1].type = "load" /\ s[1].stage = "read" => GotNewer(s[1].got, copy, docs))

\* The load that a publication called is still there.
HasLoad(s, id) == \E i \in 1..Len(s) : s[i].type = "load" /\ s[i].pub = id
PubSound(u) == u.loading \subseteq u.told /\ \A q \in u.loading : HasLoad(queue[q], u.id)

Clocks == clock \in 0..MaxTime /\ last_update_time \in [Procs -> Times]
DocsInv ==
    /\ changes \in Nat
    /\ db \in [Docs -> Document]
    /\ \A d \in Docs : db[d].ver <= changes
CopiesInv ==
    /\ data \in [Procs -> [Docs -> Nat]]
    /\ \A p \in Procs, d \in Docs : data[p][d] <= db[d].ver
QueuesInv ==
    /\ queue \in [Procs -> Seq(CallType)]
    /\ \A p \in Procs : QueueSound(queue[p], data[p], db)
PubsInv == pubs \subseteq PubType /\ \A u \in pubs : PubSound(u)

SystemIInv == Clocks /\ DocsInv /\ CopiesInv /\ QueuesInv /\ PubsInv

-----------------------------------------------------------------------------
(* Calls and queues                                                        *)

\* What the clock of a process reads is a reading, and so is no reading yet.
LEMMA Readings ==
    /\ 0 \in Times /\ Epoch \in Times
    /\ clock \in 0..MaxTime => \A p \in Procs : Now(p) \in Times
  BY DEF Times, Epoch, Now

\* Calls as they are made.
LEMMA CallsMade ==
    /\ \A since \in Times \cup {Undefined}, id \in Nat :
          /\ Load(since, id) \in LoadCall /\ Load(since, id) \in CallType
          /\ Load(since, id).type = "load" /\ Load(since, id).pub = id
          /\ Load(since, id).stage = "wait"
    /\ \A op \in {"insert", "update", "remove"}, d \in Docs :
          /\ Change(op, d) \in ChangeCall /\ Change(op, d) \in CallType
          /\ Change(op, d).type = "change" /\ Change(op, d).op = op /\ Change(op, d).doc = d
          /\ Change(op, d).stage = "wait"
  <1>1. None \in GotType
    BY DEF None, GotType
  <1>2. 0 \in Times
    BY Readings
  <1> QED  BY <1>1, <1>2 DEF Load, Change, LoadCall, ChangeCall, CallType

\* The fields of calls.
LEMMA CallFields ==
    ASSUME NEW c \in CallType
    PROVE  /\ c.type = "load" => c \in LoadCall
           /\ c.type = "change" => c \in ChangeCall
           /\ c.type = "load" \/ c.type = "change"
           /\ c \in LoadCall => /\ c.type = "load" /\ c.since \in Times \cup {Undefined}
                                /\ c.pub \in Nat /\ c.stamp \in Times /\ c.got \in [Docs -> GotType]
           /\ c \in ChangeCall => /\ c.type = "change" /\ c.doc \in Docs /\ c.stamp \in Times
                                  /\ c.op \in {"insert", "update", "remove"}
  BY DEF CallType, LoadCall, ChangeCall

\* A call that goes on.
LEMMA CallGoesOn ==
    /\ \A c \in LoadCall, t \in Times :
          LET n == [c EXCEPT !.stage = "reading", !.stamp = t]
          IN  n \in LoadCall /\ n.type = "load" /\ n.pub = c.pub /\ n.stage = "reading"
    /\ \A c \in LoadCall, g \in [Docs -> GotType] :
          LET n == [c EXCEPT !.stage = "read", !.got = g]
          IN  n \in LoadCall /\ n.type = "load" /\ n.pub = c.pub /\ n.got = g
  BY DEF LoadCall
LEMMA ChangeGoesOn ==
    ASSUME NEW c \in ChangeCall, NEW t \in Times, NEW st \in {"refreshing", "writing"}
    PROVE  LET n == [c EXCEPT !.stage = st, !.stamp = t]
           IN  n \in ChangeCall /\ n.type = "change" /\ n.doc = c.doc /\ n.op = c.op
  BY DEF ChangeCall

\* The queue after its first call left, with one more call, or with its first call gone on.
LEMMA Queues ==
    ASSUME NEW s \in Seq(CallType)
    PROVE  /\ s # <<>> => /\ Tail(s) \in Seq(CallType) /\ Len(Tail(s)) = Len(s) - 1
                          /\ \A i \in 1..Len(Tail(s)) : Tail(s)[i] = s[i + 1]
                          /\ s[1] \in CallType /\ 1 \in 1..Len(s)
           /\ \A c \in CallType :
                 /\ Append(s, c) \in Seq(CallType) /\ Len(Append(s, c)) = Len(s) + 1
                 /\ \A i \in 1..Len(s) : Append(s, c)[i] = s[i]
                 /\ Append(s, c)[Len(s) + 1] = c
                 /\ s # <<>> => /\ [s EXCEPT ![1] = c] \in Seq(CallType)
                                /\ Len([s EXCEPT ![1] = c]) = Len(s)
                                /\ [s EXCEPT ![1] = c][1] = c
                                /\ \A i \in 2..Len(s) : [s EXCEPT ![1] = c][i] = s[i]
  <1> HIDE DEF CallType
  <1> QED  OBVIOUS

LEMMA TailSound ==
    ASSUME NEW s, NEW copy, NEW docs, NEW other, s # <<>>, QueueSound(s, copy, docs)
    PROVE  /\ QueueSound(Tail(s), other, docs)
           /\ \A id : HasLoad(s, id) /\ ~(s[1].type = "load" /\ s[1].pub = id)
                         => HasLoad(Tail(s), id)
  <1>1. s \in Seq(CallType)
    BY DEF QueueSound
  <1> DEFINE t == Tail(s)
  <1>2. t \in Seq(CallType) /\ Len(t) = Len(s) - 1 /\ \A i \in 1..Len(t) : t[i] = s[i + 1]
    BY <1>1, Queues
  <1>3. Len(s) \in Nat /\ Len(t) \in Nat
    BY <1>1, <1>2
  <1> HIDE DEF t
  <1>4. \A i \in 1..Len(t) : i + 1 \in 1..Len(s) /\ i + 1 \in 2..Len(s) /\ t[i].stage = "wait"
    BY <1>2, <1>3 DEF QueueSound
  <1>5. t # <<>> => t[1].stage = "wait"
    <2>1. t # <<>> => 1 \in 1..Len(t)
      BY <1>2, <1>3
    <2> QED  BY <1>4, <2>1
  <1>6. QueueSound(t, other, docs)
    BY <1>2, <1>3, <1>4, <1>5 DEF QueueSound
  <1>7. ASSUME NEW id, HasLoad(s, id), ~(s[1].type = "load" /\ s[1].pub = id) PROVE HasLoad(t, id)
    <2>1. PICK i \in 1..Len(s) : s[i].type = "load" /\ s[i].pub = id
      BY <1>7 DEF HasLoad
    <2>2. i # 1 /\ i - 1 \in 1..Len(t) /\ (i - 1) + 1 = i
      BY <1>2, <1>3, <1>7, <2>1
    <2>3. t[i - 1] = s[i]
      BY <1>2, <2>2
    <2> QED  BY <2>1, <2>2, <2>3 DEF HasLoad
  <1> QED  BY <1>6, <1>7 DEF t

LEMMA AppendSound ==
    ASSUME NEW s, NEW copy, NEW docs, QueueSound(s, copy, docs),
           NEW c \in CallType, c.stage = "wait", CallSound(c, docs)
    PROVE  /\ QueueSound(Append(s, c), copy, docs)
           /\ \A id : HasLoad(s, id) => HasLoad(Append(s, c), id)
           /\ c.type = "load" => HasLoad(Append(s, c), c.pub)
  <1>1. s \in Seq(CallType) /\ Len(s) \in Nat
    BY DEF QueueSound
  <1> DEFINE t == Append(s, c)
  <1>2. /\ t \in Seq(CallType) /\ Len(t) = Len(s) + 1
        /\ \A i \in 1..Len(s) : t[i] = s[i]
        /\ t[Len(s) + 1] = c
    BY <1>1, Queues
  <1> HIDE DEF t
  <1>3. \A i \in 1..Len(t) : i \in 1..Len(s) \/ i = Len(s) + 1
    BY <1>1, <1>2
  <1>4. \A i \in 2..Len(t) : t[i].stage = "wait"
    BY <1>1, <1>2, <1>3 DEF QueueSound
  <1>5. \A i \in 1..Len(t) : CallSound(t[i], docs)
    BY <1>2, <1>3 DEF QueueSound
  <1>6. t[1].type = "load" /\ t[1].stage = "read" => GotNewer(t[1].got, copy, docs)
    <2>1. CASE s = <<>>
      BY <1>2, <2>1
    <2>2. CASE s # <<>>
      <3>1. t[1] = s[1]
        BY <1>1, <1>2, <2>2
      <3> QED  BY <2>2, <3>1 DEF QueueSound
    <2> QED  BY <2>1, <2>2
  <1>7. QueueSound(t, copy, docs)
    BY <1>2, <1>4, <1>5, <1>6 DEF QueueSound
  <1>8. \A i \in 1..Len(s) : i \in 1..Len(t)
    BY <1>1, <1>2
  <1>9. Len(s) + 1 \in 1..Len(t)
    BY <1>1, <1>2
  <1>10. \A id : HasLoad(s, id) => HasLoad(t, id)
    BY <1>2, <1>8 DEF HasLoad
  <1>11. c.type = "load" => HasLoad(t, c.pub)
    BY <1>2, <1>9 DEF HasLoad
  <1> QED  BY <1>7, <1>10, <1>11 DEF t

LEMMA HeadSound ==
    ASSUME NEW s, NEW copy, NEW docs, s # <<>>, QueueSound(s, copy, docs),
           NEW c \in CallType, CallSound(c, docs), c.type = s[1].type,
           c.type = "load" => c.pub = s[1].pub,
           c.type = "load" /\ c.stage = "read" => GotNewer(c.got, copy, docs)
    PROVE  /\ QueueSound([s EXCEPT ![1] = c], copy, docs)
           /\ \A id : HasLoad(s, id) => HasLoad([s EXCEPT ![1] = c], id)
  <1>1. s \in Seq(CallType) /\ Len(s) \in Nat
    BY DEF QueueSound
  <1> DEFINE t == [s EXCEPT ![1] = c]
  <1>2. /\ t \in Seq(CallType) /\ Len(t) = Len(s) /\ t[1] = c
        /\ \A i \in 2..Len(s) : t[i] = s[i]
    BY <1>1, Queues
  <1> HIDE DEF t
  <1>3. \A i \in 1..Len(s) : i = 1 \/ i \in 2..Len(s)
    BY <1>1
  <1>4. QueueSound(t, copy, docs)
    BY <1>2, <1>3 DEF QueueSound
  <1>5. \A id : HasLoad(s, id) => HasLoad(t, id)
    BY <1>2, <1>3 DEF HasLoad
  <1> QED  BY <1>4, <1>5 DEF t

\* A write to the database makes documents newer, and keeps deleted ones deleted.
NewerDocs(old, new) ==
    \A d \in Docs : old[d].ver <= new[d].ver /\ (old[d].deleted = TRUE => new[d].deleted = TRUE)

LEMMA DocsSound ==
    ASSUME NEW s, NEW copy, NEW docs \in [Docs -> Document], NEW new \in [Docs -> Document],
           QueueSound(s, copy, docs), NewerDocs(docs, new), copy \in [Docs -> Nat]
    PROVE  QueueSound(s, copy, new)
  <1>1. \A d \in Docs : docs[d].ver \in Nat /\ new[d].ver \in Nat /\ docs[d].ver <= new[d].ver
    BY DEF Document, NewerDocs
  <1>2. s \in Seq(CallType)
    BY DEF QueueSound
  <1>3. \A i \in 1..Len(s) : s[i] \in CallType
    BY <1>2
  <1>4. \A i \in 1..Len(s) : CallSound(s[i], new)
    <2> SUFFICES ASSUME NEW i \in 1..Len(s), s[i].type = "change", s[i].op # "insert"
                 PROVE  new[s[i].doc].ver > 0
      BY DEF CallSound
    <2>1. s[i].doc \in Docs
      BY <1>3, CallFields
    <2>2. docs[s[i].doc].ver > 0
      BY DEF QueueSound, CallSound
    <2> QED  BY <1>1, <2>1, <2>2
  <1>5. ASSUME s # <<>>, s[1].type = "load", s[1].stage = "read" PROVE GotNewer(s[1].got, copy, new)
    <2> DEFINE got == s[1].got
    <2>1. GotNewer(got, copy, docs)
      BY <1>5 DEF QueueSound
    <2>2. 1 \in 1..Len(s)
      BY <1>2, <1>5
    <2>3. got \in [Docs -> GotType]
      BY <1>3, <1>5, <2>2, CallFields
    <2> HIDE DEF got
    <2>4. \A d \in Docs : got[d].ver \in Nat
      BY <2>3 DEF GotType
    <2>5. GotNewer(got, copy, new)
      BY <1>1, <2>1, <2>4 DEF GotNewer, NewerDocs
    <2> QED  BY <2>5 DEF got
  <1> QED  BY <1>4, <1>5 DEF QueueSound

-----------------------------------------------------------------------------
(* Steps                                                                   *)

\* The first state: an old document has version 1.
LEMMA InitSystemIInv == Init => SystemIInv
  <1> SUFFICES ASSUME Init PROVE SystemIInv
    OBVIOUS
  <1>1. PICK old \in SUBSET Docs :
           /\ \A d, e \in old : Name[d] = Name[e] => d = e
           /\ db = [d \in Docs |-> [ver |-> IF d \in old THEN 1 ELSE 0, at |-> 0, deleted |-> FALSE]]
           /\ data = [p \in Procs |-> [d \in Docs |-> IF d \in old THEN 1 ELSE 0]]
    BY DEF Init
  <1>2. clock = 0 /\ 0 \in 0..MaxTime /\ changes = 1
    BY ClockAssumption DEF Init
  <1>3. Clocks
    BY <1>2, Readings DEF Init, Clocks
  <1>4. DocsInv
    BY <1>1, <1>2, Readings DEF DocsInv, Document
  <1>5. CopiesInv
    BY <1>1 DEF CopiesInv
  <1>6. queue = [p \in Procs |-> <<>>] /\ pubs = {}
    BY DEF Init
  <1>7. QueuesInv
    <2>1. <<>> \in Seq(CallType) /\ Len(<<>>) = 0
      OBVIOUS
    <2>2. \A p \in Procs : QueueSound(<<>>, data[p], db)
      BY <2>1 DEF QueueSound
    <2> QED  BY <1>6, <2>1, <2>2 DEF QueuesInv
  <1>8. PubsInv
    BY <1>6 DEF PubsInv
  <1> QED  BY <1>3, <1>4, <1>5, <1>7, <1>8 DEF SystemIInv

\* A process and its queue.
LEMMA QueueFacts ==
    ASSUME SystemIInv, NEW p \in Procs
    PROVE  /\ queue[p] \in Seq(CallType) /\ QueueSound(queue[p], data[p], db)
           /\ queue[p] # <<>> =>
                 /\ Head1(p) = queue[p][1] /\ Head1(p) \in CallType
                 /\ CallSound(Head1(p), db)
           /\ \A i \in 1..Len(queue[p]) : queue[p][i] \in CallType
  <1>1. queue[p] \in Seq(CallType) /\ QueueSound(queue[p], data[p], db)
    BY DEF SystemIInv, QueuesInv
  <1>2. queue[p] # <<>> => 1 \in 1..Len(queue[p])
    BY <1>1
  <1> QED  BY <1>1, <1>2 DEF Head1, QueueSound

\* One queue changes, perhaps with the copy of its process.
LEMMA QueueChanges ==
    ASSUME SystemIInv, NEW p \in Procs, NEW s, queue' = [queue EXCEPT ![p] = s], db' = db,
           \A q \in Procs \ {p} : data'[q] = data[q],
           QueueSound(s, data'[p], db)
    PROVE  /\ QueuesInv'
           /\ queue'[p] = s /\ \A q \in Procs \ {p} : queue'[q] = queue[q]
  <1>1. s \in Seq(CallType)
    BY DEF QueueSound
  <1>2. queue \in [Procs -> Seq(CallType)]
    BY DEF SystemIInv, QueuesInv
  <1>3. queue'[p] = s /\ \A q \in Procs \ {p} : queue'[q] = queue[q]
    BY <1>2
  <1>4. queue' \in [Procs -> Seq(CallType)]
    BY <1>1, <1>2
  <1>5. ASSUME NEW q \in Procs PROVE QueueSound(queue'[q], data'[q], db')
    <2>1. CASE q = p
      BY <1>3, <2>1
    <2>2. CASE q # p
      BY <1>3, <2>2, QueueFacts
    <2> QED  BY <2>1, <2>2
  <1> QED  BY <1>3, <1>4, <1>5 DEF QueuesInv

\* Publications wait as before while no load of a process is lost.
LEMMA PubsWait ==
    ASSUME SystemIInv, pubs' = pubs,
           \A q \in Procs, id \in Nat : HasLoad(queue[q], id) => HasLoad(queue'[q], id)
    PROVE  PubsInv'
  <1>1. \A u \in pubs : u.loading \subseteq Procs /\ u.id \in Nat
    BY DEF SystemIInv, PubsInv, PubType
  <1> QED  BY <1>1 DEF SystemIInv, PubsInv, PubSound

\* A queue with another call, or whose first one goes on.
LEMMA QueueGoesOn ==
    ASSUME SystemIInv, NEW p \in Procs, NEW s, queue' = [queue EXCEPT ![p] = s],
           UNCHANGED <<db, changes, data, pubs>>, Clocks',
           QueueSound(s, data[p], db),
           \A id : HasLoad(queue[p], id) => HasLoad(s, id)
    PROVE  SystemIInv'
  <1>1. QueuesInv' /\ queue'[p] = s /\ \A q \in Procs \ {p} : queue'[q] = queue[q]
    BY QueueChanges
  <1>2. PubsInv'
    BY <1>1, PubsWait
  <1> QED  BY <1>1, <1>2 DEF SystemIInv, DocsInv, CopiesInv, Live

\* Steps of a load: it registers, and reads what is newer.
LEMMA RegisterStep == ASSUME SystemIInv, NEW p \in Procs, Register(p) PROVE SystemIInv'
  <1> DEFINE c == [Head1(p) EXCEPT !.stage = "reading", !.stamp = Now(p)]
  <1>1. /\ queue[p] # <<>> /\ Head1(p).type = "load"
        /\ last_update_time' = [last_update_time EXCEPT ![p] = Lowered(p, Head1(p).since)]
        /\ queue' = [queue EXCEPT ![p][1] = c]
        /\ UNCHANGED <<clock, db, changes, data, pubs>>
    BY DEF Register, At, SetHead
  <1>2. Head1(p) \in LoadCall /\ Head1(p) = queue[p][1]
    BY <1>1, QueueFacts, CallFields
  <1>3. clock \in 0..MaxTime /\ last_update_time \in [Procs -> Times]
    BY DEF SystemIInv, Clocks
  <1>4. c \in LoadCall /\ c.type = "load" /\ c.pub = Head1(p).pub /\ c.stage = "reading"
    <2>1. Now(p) \in Times
      BY <1>3, Readings
    <2> QED  BY <1>2, <2>1, CallGoesOn
  <1>5. Lowered(p, Head1(p).since) \in Times
    <2>1. Head1(p).since \in Times \cup {Undefined}
      BY <1>2 DEF LoadCall
    <2>2. last_update_time[p] \in Times
      BY <1>3
    <2> QED  BY <2>1, <2>2 DEF Lowered
  <1>6. Clocks'
    BY <1>1, <1>3, <1>5 DEF Clocks
  <1> HIDE DEF c
  <1>7. c \in CallType /\ CallSound(c, db)
    BY <1>4 DEF CallType, CallSound
  <1>8. queue' = [queue EXCEPT ![p] = [queue[p] EXCEPT ![1] = c]]
    BY <1>1 DEF SystemIInv, QueuesInv
  <1>9. /\ QueueSound([queue[p] EXCEPT ![1] = c], data[p], db)
        /\ \A id : HasLoad(queue[p], id) => HasLoad([queue[p] EXCEPT ![1] = c], id)
    BY <1>1, <1>2, <1>4, <1>7, QueueFacts, HeadSound
  <1> QED  BY <1>1, <1>6, <1>8, <1>9, QueueGoesOn

LEMMA ReadStep == ASSUME SystemIInv, NEW p \in Procs, Read(p) PROVE SystemIInv'
  <1> DEFINE g == [d \in Docs |-> IF Newer(p, d) THEN [ver |-> db[d].ver, deleted |-> db[d].deleted]
                                  ELSE None]
             c == [Head1(p) EXCEPT !.stage = "read", !.got = g]
  <1>1. /\ queue[p] # <<>> /\ Head1(p).type = "load"
        /\ queue' = [queue EXCEPT ![p][1] = c]
        /\ UNCHANGED <<clock, db, changes, data, pubs, last_update_time>>
    BY DEF Read, At, SetHead
  <1>2. Head1(p) \in LoadCall /\ Head1(p) = queue[p][1]
    BY <1>1, QueueFacts, CallFields
  <1>3. db \in [Docs -> Document] /\ \A d \in Docs : data[p][d] <= db[d].ver
    BY DEF SystemIInv, DocsInv, CopiesInv
  <1>4. \A d \in Docs : db[d].ver \in Nat /\ db[d].deleted \in BOOLEAN
    BY <1>3 DEF Document
  <1>5. g \in [Docs -> GotType]
    BY <1>4 DEF GotType, None
  <1>6. GotNewer(g, data[p], db)
    BY <1>3, <1>4 DEF GotNewer
  <1> HIDE DEF g
  <1>7. c \in LoadCall /\ c.type = "load" /\ c.pub = Head1(p).pub /\ c.got = g
    BY <1>2, <1>5, CallGoesOn
  <1>8. Clocks'
    BY <1>1 DEF SystemIInv, Clocks
  <1> HIDE DEF c
  <1>9. c \in CallType /\ CallSound(c, db)
    BY <1>7 DEF CallType, CallSound
  <1>10. queue' = [queue EXCEPT ![p] = [queue[p] EXCEPT ![1] = c]]
    BY <1>1 DEF SystemIInv, QueuesInv
  <1>11. /\ QueueSound([queue[p] EXCEPT ![1] = c], data[p], db)
         /\ \A id : HasLoad(queue[p], id) => HasLoad([queue[p] EXCEPT ![1] = c], id)
    BY <1>1, <1>2, <1>6, <1>7, <1>9, QueueFacts, HeadSound
  <1> QED  BY <1>1, <1>8, <1>10, <1>11, QueueGoesOn

\* What a load replaces a copy by is newer, or the document is deleted.
LEMMA MergedIs ==
    ASSUME SystemIInv, NEW p \in Procs, At(p, "load", "read")
    PROVE  LET new == Merged(data[p], Head1(p).got)
           IN  /\ new \in [Docs -> Nat]
               /\ \A d \in Docs : /\ new[d] <= db[d].ver
                                  /\ new[d] >= data[p][d] \/ (new[d] = 0 /\ db[d].deleted = TRUE)
  <1> DEFINE g == Head1(p).got
             old == data[p]
  <1>1. g \in [Docs -> GotType] /\ GotNewer(g, old, db)
    BY QueueFacts, CallFields DEF At, QueueSound
  <1>2. old \in [Docs -> Nat] /\ \A d \in Docs : old[d] <= db[d].ver /\ db[d].ver \in Nat
    BY DEF SystemIInv, CopiesInv, DocsInv, Document
  <1> HIDE DEF g, old
  <1>3. \A d \in Docs : g[d].ver \in Nat /\ g[d].deleted \in BOOLEAN
    BY <1>1 DEF GotType
  <1> DEFINE new == Merged(old, g)
  <1>4. new \in [Docs -> Nat]
    BY <1>2, <1>3 DEF Merged
  <1>5. ASSUME NEW d \in Docs
        PROVE  /\ new[d] <= db[d].ver
               /\ new[d] >= old[d] \/ (new[d] = 0 /\ db[d].deleted = TRUE)
    <2>1. new[d] = IF g[d] = None THEN old[d] ELSE IF g[d].deleted THEN 0 ELSE g[d].ver
      BY DEF Merged
    <2> HIDE DEF new
    <2>2. CASE g[d] = None
      BY <1>2, <2>1, <2>2
    <2>3. CASE g[d] # None /\ g[d].deleted = TRUE
      BY <1>1, <1>2, <2>1, <2>3 DEF GotNewer
    <2>4. CASE g[d] # None /\ g[d].deleted = FALSE
      <3>1. new[d] = g[d].ver
        BY <2>1, <2>4
      <3> QED  BY <1>1, <1>2, <1>3, <2>4, <3>1 DEF GotNewer
    <2> QED  BY <1>3, <2>2, <2>3, <2>4
  <1> QED  BY <1>4, <1>5 DEF g, old

\* A call of a process ends: the loads that are left.
LEMMA LoadsLeft ==
    ASSUME SystemIInv, NEW p \in Procs, queue[p] # <<>>, Head1(p).type = "load", Leave(p), db' = db,
           \A q \in Procs \ {p} : data'[q] = data[q], data'[p] \in [Docs -> Nat]
    PROVE  /\ QueuesInv'
           /\ \A q \in Procs : \A id : HasLoad(queue[q], id) /\ (q = p => id # Head1(p).pub)
                                         => HasLoad(queue'[q], id)
  <1>1. Head1(p) \in LoadCall /\ Head1(p) = queue[p][1]
    BY QueueFacts, CallFields
  <1>2. queue' = [queue EXCEPT ![p] = Tail(queue[p])]
    BY DEF Leave, SystemIInv, QueuesInv
  <1>3. /\ QueueSound(Tail(queue[p]), data'[p], db)
        /\ \A i : HasLoad(queue[p], i) /\ i # Head1(p).pub => HasLoad(Tail(queue[p]), i)
    BY <1>1, QueueFacts, TailSound
  <1>4. /\ QueuesInv'
        /\ queue'[p] = Tail(queue[p]) /\ \A q \in Procs \ {p} : queue'[q] = queue[q]
    BY <1>2, <1>3, QueueChanges
  <1> QED  BY <1>3, <1>4

\* What a load has read is merged into the copy.
LEMMA MergeStep ==
    ASSUME SystemIInv, NEW p \in Procs, Merge(p)
    PROVE  /\ Clocks' /\ DocsInv' /\ CopiesInv' /\ QueuesInv'
           /\ \A q \in Procs : \A id : HasLoad(queue[q], id) /\ (q = p => id # Head1(p).pub)
                                         => HasLoad(queue'[q], id)
  <1> DEFINE new == Merged(data[p], Head1(p).got)
  <1>1. /\ At(p, "load", "read")
        /\ last_update_time' = [last_update_time EXCEPT ![p] = Head1(p).stamp]
        /\ data' = [data EXCEPT ![p] = new]
        /\ Leave(p)
        /\ UNCHANGED <<clock, db, changes>>
    BY DEF Merge
  <1>2. queue[p] # <<>> /\ Head1(p).type = "load" /\ Head1(p) \in LoadCall
    BY <1>1, QueueFacts, CallFields DEF At
  <1>3. new \in [Docs -> Nat] /\ \A d \in Docs : new[d] <= db[d].ver
    BY <1>1, MergedIs
  <1> HIDE DEF new
  <1>4. data \in [Procs -> [Docs -> Nat]]
    BY DEF SystemIInv, CopiesInv
  <1>5. data'[p] = new /\ \A q \in Procs \ {p} : data'[q] = data[q]
    BY <1>1, <1>4
  <1>6. CopiesInv'
    <2>1. data' \in [Procs -> [Docs -> Nat]]
      BY <1>1, <1>3, <1>4
    <2>2. \A q \in Procs, d \in Docs : data'[q][d] <= db[d].ver
      BY <1>3, <1>5 DEF SystemIInv, CopiesInv
    <2> QED  BY <1>1, <2>1, <2>2 DEF CopiesInv
  <1>7. /\ QueuesInv'
        /\ \A q \in Procs : \A id : HasLoad(queue[q], id) /\ (q = p => id # Head1(p).pub)
                                      => HasLoad(queue'[q], id)
    BY <1>1, <1>2, <1>3, <1>5, LoadsLeft
  <1>8. Clocks'
    <2>1. Head1(p).stamp \in Times
      BY <1>2 DEF LoadCall
    <2>2. clock \in 0..MaxTime /\ last_update_time \in [Procs -> Times]
      BY DEF SystemIInv, Clocks
    <2> QED  BY <1>1, <2>1, <2>2 DEF Clocks
  <1>9. DocsInv'
    BY <1>1 DEF SystemIInv, DocsInv
  <1> QED  BY <1>6, <1>7, <1>8, <1>9

\* The load ends: its publication does not wait for it any more.
LEMMA ApplyStep == ASSUME SystemIInv, NEW p \in Procs, Apply(p) PROVE SystemIInv'
  <1> DEFINE id  == Head1(p).pub
             one(v) == [v EXCEPT !.loading = IF v.id = id THEN @ \ {p} ELSE @]
  <1>1. Merge(p) /\ pubs' = Answered(p, Head1(p).pub)
    BY DEF Apply
  <1>2. /\ Clocks' /\ DocsInv' /\ CopiesInv' /\ QueuesInv'
        /\ \A q \in Procs : \A i : HasLoad(queue[q], i) /\ (q = p => i # id) => HasLoad(queue'[q], i)
    BY <1>1, MergeStep
  <1>3. PubsInv'
    <2>1. pubs' \subseteq {one(v) : v \in pubs}
      BY <1>1 DEF Answered
    <2> HIDE DEF id
    <2>2. ASSUME NEW v \in pubs
          PROVE  /\ one(v) \in PubType /\ one(v).loading \subseteq one(v).told
                 /\ \A q \in one(v).loading : HasLoad(queue'[q], one(v).id)
      <3> DEFINE u == one(v)
      <3>1. v \in PubType /\ PubSound(v)
        BY DEF SystemIInv, PubsInv
      <3>2. /\ u \in PubType /\ u.id = v.id /\ u.told = v.told
            /\ u.loading = IF v.id = id THEN v.loading \ {p} ELSE v.loading
        BY <3>1 DEF PubType
      <3> HIDE DEF u
      <3>3. v.loading \subseteq Procs /\ v.loading \subseteq v.told
            /\ \A q \in v.loading : HasLoad(queue[q], v.id)
        BY <3>1 DEF PubType, PubSound
      <3>4. ASSUME NEW q \in u.loading PROVE HasLoad(queue'[q], u.id)
        <4>1. q \in v.loading /\ (q = p => v.id # id) /\ q \in Procs
          BY <3>2, <3>3
        <4> QED  BY <1>2, <3>2, <3>3, <4>1
      <3>5. u.loading \subseteq u.told
        BY <3>2, <3>3
      <3> QED  BY <3>2, <3>4, <3>5 DEF u
    <2> HIDE DEF one
    <2>3. \A u \in pubs' : /\ u \in PubType /\ u.loading \subseteq u.told
                            /\ \A q \in u.loading : HasLoad(queue'[q], u.id)
      BY <2>1, <2>2
    <2> QED  BY <2>3 DEF PubsInv, PubSound
  <1> QED  BY <1>2, <1>3 DEF SystemIInv

\* Calls come.
LEMMA CallStep ==
    ASSUME SystemIInv, NEW p \in Procs,
           \/ Refresh(p) \/ Reconnect(p)
           \/ \E op \in {"insert", "update", "remove"}, d \in Docs : MakeChanges(p, op, d)
    PROVE  SystemIInv'
  <1>1. /\ UNCHANGED <<clock, db, changes, data, pubs, last_update_time>>
        /\ \E c \in CallType : /\ c.stage = "wait" /\ CallSound(c, db)
                               /\ queue' = [queue EXCEPT ![p] = Append(queue[p], c)]
    <2>1. queue \in [Procs -> Seq(CallType)]
      BY DEF SystemIInv, QueuesInv
    <2>2. CASE Refresh(p) \/ Reconnect(p)
      <3> DEFINE c == Load(Undefined, 0)
      <3>1. c \in CallType /\ c.type = "load" /\ c.stage = "wait"
        BY CallsMade
      <3>2. /\ UNCHANGED <<clock, db, changes, data, pubs, last_update_time>>
            /\ queue' = [queue EXCEPT ![p] = Append(queue[p], c)]
        BY <2>1, <2>2 DEF Refresh, Reconnect
      <3> HIDE DEF c
      <3> QED  BY <3>1, <3>2 DEF CallSound
    <2>3. ASSUME NEW op \in {"insert", "update", "remove"}, NEW d \in Docs, MakeChanges(p, op, d)
          PROVE  <1>1
      <3> DEFINE c == Change(op, d)
      <3>1. c \in CallType /\ c.type = "change" /\ c.op = op /\ c.doc = d /\ c.stage = "wait"
        BY CallsMade
      <3>2. /\ UNCHANGED <<clock, db, changes, data, pubs, last_update_time>>
            /\ queue' = [queue EXCEPT ![p] = Append(queue[p], c)]
            /\ op # "insert" => data[p][d] # 0
        BY <2>1, <2>3 DEF MakeChanges
      <3>3. data[p][d] \in Nat /\ data[p][d] <= db[d].ver /\ db[d].ver \in Nat
        BY DEF SystemIInv, CopiesInv, DocsInv, Document
      <3> HIDE DEF c
      <3>4. op # "insert" => db[d].ver > 0
        BY <3>2, <3>3
      <3>5. CallSound(c, db)
        BY <3>1, <3>4 DEF CallSound
      <3> QED  BY <3>1, <3>2, <3>5
    <2> QED  BY <2>2, <2>3
  <1>2. PICK c \in CallType : /\ c.stage = "wait" /\ CallSound(c, db)
                              /\ queue' = [queue EXCEPT ![p] = Append(queue[p], c)]
    BY <1>1
  <1>3. /\ QueueSound(Append(queue[p], c), data[p], db)
        /\ \A id : HasLoad(queue[p], id) => HasLoad(Append(queue[p], c), id)
    BY <1>2, QueueFacts, AppendSound
  <1>4. Clocks'
    BY <1>1 DEF SystemIInv, Clocks
  <1> QED  BY <1>1, <1>2, <1>3, <1>4, QueueGoesOn

\* A change begins, or finds its name taken; an old copy is reloaded by a call behind it.
LEMMA PrepareStep == ASSUME SystemIInv, NEW p \in Procs, Prepare(p) PROVE SystemIInv'
  <1> DEFINE c == Head1(p)
             st == IF p \notin loaded \/ age[p] = "expired" THEN "refreshing" ELSE "writing"
             n == [c EXCEPT !.stage = st, !.stamp = Now(p)]
             l == Load(Undefined, 0)
             s == queue[p]
             t == Tail(s)
             h == [s EXCEPT ![1] = n]
  <1>1. /\ s # <<>> /\ c.type = "change"
        /\ UNCHANGED <<clock, db, changes, data, pubs, last_update_time>>
        /\ \E reload \in {<<>>, <<l>>}, rest \in {t, <<n>> \o t} :
              queue' = [queue EXCEPT ![p] = rest \o reload]
    BY DEF Prepare, At, SystemIInv, QueuesInv
  <1>2. s \in Seq(CallType) /\ c \in ChangeCall /\ c = s[1] /\ CallSound(c, db)
    BY <1>1, QueueFacts, CallFields
  <1>3. n \in ChangeCall /\ n.type = "change" /\ n.doc = c.doc /\ n.op = c.op
    <2>1. Now(p) \in Times /\ st \in {"refreshing", "writing"}
      BY Readings DEF SystemIInv, Clocks
    <2> HIDE DEF st, c
    <2>2. c \in ChangeCall
      BY <1>2
    <2> DEFINE m == Now(p)
    <2>3. m \in Times
      BY <2>1
    <2> HIDE DEF m
    <2>4. LET k == [c EXCEPT !.stage = st, !.stamp = m]
          IN  k \in ChangeCall /\ k.type = "change" /\ k.doc = c.doc /\ k.op = c.op
      BY <2>1, <2>2, <2>3, ChangeGoesOn
    <2> QED  BY <2>4 DEF m
  <1>4. n \in CallType /\ CallSound(n, db)
    <2> HIDE DEF n, c
    <2>1. CallSound(c, db) /\ n.doc = c.doc /\ n.op = c.op
      BY <1>2, <1>3
    <2>2. c.type = "change"
      BY <1>1
    <2> QED  BY <1>3, <2>1, <2>2 DEF CallType, CallSound
  <1>5. l \in CallType /\ l.type = "load" /\ l.stage = "wait" /\ CallSound(l, db)
    BY CallsMade DEF CallSound
  <1> HIDE DEF n, l, c
  <1>6. t \in Seq(CallType) /\ h \in Seq(CallType) /\ <<n>> \o t = h
        /\ t \o <<>> = t /\ h \o <<>> = h /\ t \o <<l>> = Append(t, l) /\ h \o <<l>> = Append(h, l)
    <2>1. t \in Seq(CallType) /\ h \in Seq(CallType)
      BY <1>1, <1>2, <1>4, Queues
    <2>2. <<n>> \o t = h
      <3> HIDE DEF CallType
      <3> QED  BY <1>1, <1>2, <1>4
    <2> HIDE DEF t, h, CallType
    <2> QED  BY <1>5, <2>1, <2>2
  <1>7. /\ QueueSound(t, data[p], db)
        /\ \A id : HasLoad(s, id) => HasLoad(t, id)
    BY <1>1, <1>2, QueueFacts, TailSound
  <1>8. /\ QueueSound(h, data[p], db)
        /\ \A id : HasLoad(s, id) => HasLoad(h, id)
    <2>1. n.type = s[1].type /\ n.type # "load"
      BY <1>1, <1>2, <1>3
    <2> QED  BY <1>1, <1>4, <2>1, QueueFacts, HeadSound
  <1> HIDE DEF t, h
  <1>9. \A r \in {t, h} : /\ QueueSound(Append(r, l), data[p], db)
                          /\ \A id : HasLoad(s, id) => HasLoad(Append(r, l), id)
    BY <1>5, <1>7, <1>8, AppendSound
  <1>10. PICK r \in {t, h, Append(t, l), Append(h, l)} : queue' = [queue EXCEPT ![p] = r]
    BY <1>1, <1>6
  <1>11. /\ QueueSound(r, data[p], db)
         /\ \A id : HasLoad(s, id) => HasLoad(r, id)
    BY <1>7, <1>8, <1>9, <1>10
  <1>12. Clocks'
    BY <1>1 DEF SystemIInv, Clocks
  <1> QED  BY <1>1, <1>10, <1>11, <1>12, QueueGoesOn

\* What a bulk writes, if its insert finds the name free: a newer document.
LEMMA WrittenDocs ==
    ASSUME SystemIInv, NEW c \in ChangeCall, CallSound(c, db), Written(c),
           ~(c.op = "insert" /\ Taken(c.doc))
    PROVE  /\ DocsInv' /\ NewerDocs(db, db')
           /\ db \in [Docs -> Document] /\ db' \in [Docs -> Document]
           /\ changes' \in Nat /\ changes' = changes + 1
  <1>1. c.doc \in Docs /\ c.stamp \in Times /\ c.op \in {"insert", "update", "remove"} /\ c.type = "change"
    BY DEF ChangeCall
  <1>2. db \in [Docs -> Document] /\ changes \in Nat /\ \A d \in Docs : db[d].ver <= changes
    BY DEF SystemIInv, DocsInv
  <1> DEFINE e == c.doc
             new == [ver |-> changes + 1, at |-> c.stamp, deleted |-> db[e].deleted \/ c.op = "remove"]
  <1>3. db' = [db EXCEPT ![e] = new] /\ changes' = changes + 1
    BY <1>2 DEF Written
  <1>4. \A d \in Docs : db[d].ver \in Nat /\ db[d].deleted \in BOOLEAN
    BY <1>2 DEF Document
  <1>5. /\ new \in Document /\ new.ver = changes + 1
        /\ (db[e].deleted = TRUE => new.deleted = TRUE)
        /\ (new.deleted = FALSE => db[e].deleted = FALSE)
    BY <1>1, <1>2, <1>4 DEF Document
  <1> HIDE DEF new
  <1>6. db' \in [Docs -> Document] /\ db'[e] = new /\ \A d \in Docs \ {e} : db'[d] = db[d]
    BY <1>1, <1>2, <1>3, <1>5
  <1>7. DocsInv'
    <2>1. ASSUME NEW d \in Docs PROVE db'[d].ver <= changes'
      <3>1. CASE d = e
        BY <1>2, <1>3, <1>5, <1>6, <3>1
      <3>2. CASE d # e
        BY <1>2, <1>3, <1>4, <1>6, <3>2
      <3> QED  BY <3>1, <3>2
    <2>2. changes' \in Nat
      BY <1>2, <1>3
    <2> QED  BY <1>6, <2>1, <2>2 DEF DocsInv
  <1>8. NewerDocs(db, db')
    <2>1. ASSUME NEW d \in Docs
          PROVE  db[d].ver <= db'[d].ver /\ (db[d].deleted = TRUE => db'[d].deleted = TRUE)
      <3>1. CASE d = e
        BY <1>2, <1>4, <1>5, <1>6, <3>1
      <3>2. CASE d # e
        BY <1>4, <1>6, <3>2
      <3> QED  BY <3>1, <3>2
    <2> QED  BY <2>1 DEF NewerDocs
  <1>9. \A d \in Docs : d # e => (Live(d)' <=> Live(d))
    BY <1>6 DEF Live
  <1>10. Live(e)' => Live(e) \/ ~Taken(e)
    <2> SUFFICES ASSUME Live(e)', Taken(e) PROVE Live(e)
      OBVIOUS
    <2>1. c.op # "insert"
      OBVIOUS
    <2>2. db[e].ver > 0
      BY <1>1, <2>1 DEF CallSound
    <2>3. new.deleted \in BOOLEAN /\ ~new.deleted
      BY <1>5, <1>6 DEF Live, Document
    <2> QED  BY <1>4, <1>5, <1>1, <2>2, <2>3 DEF Live
  <1> QED  BY <1>2, <1>3, <1>6, <1>7, <1>8

\* A change leaves, having written or not.
LEMMA ChangeEnds ==
    ASSUME SystemIInv, NEW p \in Procs, queue[p] # <<>>, Head1(p).type = "change", Leave(p),
           UNCHANGED <<clock, data, last_update_time>>,
           pubs' \subseteq PubType, \A u \in pubs' : u \in pubs \/ u.loading = {},
           \/ UNCHANGED <<db, changes>>
           \/ Written(Head1(p)) /\ ~(Head1(p).op = "insert" /\ Taken(Head1(p).doc))
    PROVE  SystemIInv'
  <1> DEFINE t == Tail(queue[p])
  <1>1. queue' = [queue EXCEPT ![p] = t] /\ queue \in [Procs -> Seq(CallType)]
    BY DEF Leave, SystemIInv, QueuesInv
  <1>2. Head1(p) \in ChangeCall /\ CallSound(Head1(p), db) /\ Head1(p) = queue[p][1]
    BY QueueFacts, CallFields
  <1>3. /\ DocsInv' /\ NewerDocs(db, db')
        /\ db \in [Docs -> Document] /\ db' \in [Docs -> Document]
    <2>1. CASE UNCHANGED <<db, changes>>
      <3>1. \A d \in Docs : db[d].ver \in Nat
        BY DEF SystemIInv, DocsInv, Document
      <3> QED  BY <2>1, <3>1 DEF SystemIInv, DocsInv, Live, NewerDocs
    <2>2. CASE Written(Head1(p)) /\ ~(Head1(p).op = "insert" /\ Taken(Head1(p).doc))
      BY <1>2, <2>2, WrittenDocs
    <2> QED  BY <2>1, <2>2
  <1>4. /\ QueueSound(t, data[p], db)
        /\ \A id : HasLoad(queue[p], id) => HasLoad(t, id)
    BY <1>2, QueueFacts, TailSound
  <1>5. t \in Seq(CallType)
    BY <1>4 DEF QueueSound
  <1> HIDE DEF t
  <1>6. queue'[p] = t /\ (\A q \in Procs \ {p} : queue'[q] = queue[q]) /\ queue' \in [Procs -> Seq(CallType)]
    BY <1>1, <1>5
  <1>7. ASSUME NEW q \in Procs
        PROVE  /\ QueueSound(queue'[q], data'[q], db')
               /\ \A id : HasLoad(queue[q], id) => HasLoad(queue'[q], id)
    <2>1. QueueSound(queue'[q], data[q], db)
      BY <1>4, <1>6, QueueFacts
    <2>2. data'[q] = data[q] /\ data[q] \in [Docs -> Nat]
      BY DEF SystemIInv, CopiesInv
    <2>3. QueueSound(queue'[q], data'[q], db')
      BY <1>3, <2>1, <2>2, DocsSound
    <2> QED  BY <1>4, <1>6, <2>3
  <1>8. QueuesInv'
    BY <1>6, <1>7 DEF QueuesInv
  <1>9. PubsInv'
    <2>1. ASSUME NEW u \in pubs' PROVE u.loading \subseteq u.told /\ \A q \in u.loading : HasLoad(queue'[q], u.id)
      <3>1. CASE u.loading = {}
        BY <3>1
      <3>2. CASE u \in pubs
        BY <1>7, <3>2 DEF SystemIInv, PubsInv, PubSound, PubType
      <3> QED  BY <3>1, <3>2
    <2> QED  BY <2>1 DEF PubsInv, PubSound
  <1>10. CopiesInv'
    <2>1. \A d \in Docs : db[d].ver \in Nat /\ db'[d].ver \in Nat /\ db[d].ver <= db'[d].ver
      BY <1>3 DEF Document, NewerDocs
    <2>2. data \in [Procs -> [Docs -> Nat]] /\ \A q \in Procs, d \in Docs : data[q][d] <= db[d].ver
      BY DEF SystemIInv, CopiesInv
    <2>3. \A q \in Procs, d \in Docs : data[q][d] <= db'[d].ver
      BY <2>1, <2>2
    <2> QED  BY <2>2, <2>3 DEF CopiesInv
  <1>11. Clocks'
    BY DEF SystemIInv, Clocks
  <1> QED  BY <1>3, <1>8, <1>9, <1>10, <1>11 DEF SystemIInv

LEMMA WriteStep == ASSUME SystemIInv, NEW p \in Procs, Write(p) \/ WriteFails(p) PROVE SystemIInv'
  <1>1. queue[p] # <<>> /\ Head1(p).type = "change" /\ Leave(p)
        /\ UNCHANGED <<clock, data, last_update_time>>
    BY DEF Write, WriteFails, At
  <1>2. pubs \subseteq PubType
    BY DEF SystemIInv, PubsInv
  <1>3. CASE Write(p)
    <2> DEFINE u == [id |-> changes + 1, by |-> p, doc |-> Head1(p).doc, since |-> Head1(p).stamp,
                     stage |-> "sent", told |-> {}, loading |-> {}]
    <2>1. pubs' = pubs \cup {u} /\ Written(Head1(p)) /\ ~(Head1(p).op = "insert" /\ Taken(Head1(p).doc))
      BY <1>3 DEF Write
    <2>2. Head1(p) \in ChangeCall /\ changes \in Nat
      BY <1>1, QueueFacts, CallFields DEF SystemIInv, DocsInv
    <2>3. u \in PubType /\ u.loading = {}
      BY <2>2 DEF ChangeCall, PubType
    <2> HIDE DEF u
    <2>4. pubs' \subseteq PubType /\ \A v \in pubs' : v \in pubs \/ v.loading = {}
      BY <1>2, <2>1, <2>3
    <2> QED  BY <1>1, <2>1, <2>4, ChangeEnds
  <1>4. CASE WriteFails(p)
    <2>1. /\ pubs' = pubs
          /\ \/ UNCHANGED <<db, changes>>
             \/ Written(Head1(p)) /\ ~(Head1(p).op = "insert" /\ Taken(Head1(p).doc))
      BY <1>4 DEF WriteFails
    <2>2. pubs' \subseteq PubType /\ \A v \in pubs' : v \in pubs \/ v.loading = {}
      BY <1>2, <2>1
    <2> QED  BY <1>1, <2>1, <2>2, ChangeEnds
  <1> QED  BY <1>3, <1>4

\* Publications that are left, none of which waits for a process that lost its calls.
LEMMA PubsLeft ==
    ASSUME SystemIInv, NEW gone, pubs' \subseteq pubs,
           \A u \in pubs' : gone \notin u.loading,
           \A q \in Procs \ {gone}, id \in Nat : HasLoad(queue[q], id) => HasLoad(queue'[q], id)
    PROVE  PubsInv'
  <1>1. ASSUME NEW u \in pubs'
        PROVE  /\ u \in PubType /\ u.loading \subseteq u.told
               /\ \A q \in u.loading : HasLoad(queue'[q], u.id)
    <2>1. u \in PubType /\ u.loading \subseteq u.told /\ \A q \in u.loading : HasLoad(queue[q], u.id)
      BY DEF SystemIInv, PubsInv, PubSound
    <2>2. u.id \in Nat /\ u.loading \subseteq Procs
      BY <2>1 DEF PubType
    <2> QED  BY <2>1, <2>2
  <1> QED  BY <1>1 DEF PubsInv, PubSound

\* The redirector calls the processes that are registered.
LEMMA PublishStep == ASSUME SystemIInv, NEW u \in pubs, Publish(u) PROVE SystemIInv'
  <1>1. PICK broken \in {{}} \cup {{q} : q \in Registered} :
          LET reached == Registered \ broken
              sent == [u EXCEPT !.stage = "published", !.told = reached, !.loading = reached]
              rest == pubs \ {u}
          IN  /\ queue' = [q \in Procs |-> IF q \in reached THEN Call(q, u) ELSE queue[q]]
              /\ pubs' = IF broken # {} THEN {v \in rest : v.loading \cap broken = {}}
                         ELSE IF reached # {} THEN rest \cup {sent} ELSE rest
    BY DEF Publish
  <1>2. UNCHANGED <<clock, db, changes, data, last_update_time>>
    BY DEF Publish
  <1> DEFINE reached == Registered \ broken
             sent == [u EXCEPT !.stage = "published", !.told = reached, !.loading = reached]
             l == Load(u.since, u.id)
  <1>3. u \in PubType /\ u.id \in Nat /\ u.since \in Times
    BY DEF SystemIInv, PubsInv, PubType
  <1>4. reached \subseteq Procs
    BY DEF Registered
  <1>5. /\ queue' = [q \in Procs |-> IF q \in reached THEN Append(queue[q], l) ELSE queue[q]]
        /\ pubs' \subseteq pubs \cup {sent}
    BY <1>1 DEF Call
  <1> HIDE DEF reached
  <1>6. sent \in PubType /\ sent.told = reached /\ sent.loading = reached /\ sent.id = u.id
    BY <1>3, <1>4 DEF PubType
  <1>7. l \in CallType /\ l.type = "load" /\ l.pub = u.id /\ l.stage = "wait" /\ CallSound(l, db)
    BY <1>3, CallsMade DEF CallSound
  <1> HIDE DEF sent, l
  <1>8. ASSUME NEW q \in Procs
        PROVE  /\ queue'[q] \in Seq(CallType) /\ QueueSound(queue'[q], data[q], db)
               /\ \A id : HasLoad(queue[q], id) => HasLoad(queue'[q], id)
               /\ q \in reached => HasLoad(queue'[q], u.id)
    <2>1. CASE q \in reached
      <3>1. queue'[q] = Append(queue[q], l)
        BY <1>5, <2>1
      <3>2. QueueSound(queue[q], data[q], db)
        BY QueueFacts
      <3>3. /\ QueueSound(Append(queue[q], l), data[q], db)
            /\ \A id : HasLoad(queue[q], id) => HasLoad(Append(queue[q], l), id)
            /\ HasLoad(Append(queue[q], l), l.pub)
        BY <1>7, <3>2, AppendSound
      <3> QED  BY <1>7, <3>1, <3>3 DEF QueueSound
    <2>2. CASE q \notin reached
      <3>1. queue'[q] = queue[q]
        BY <1>5, <2>2
      <3> QED  BY <2>2, <3>1, QueueFacts
    <2> QED  BY <2>1, <2>2
  <1>9. QueuesInv'
    <2>1. queue' \in [Procs -> Seq(CallType)]
      BY <1>5, <1>8
    <2> QED  BY <1>2, <1>8, <2>1 DEF QueuesInv
  <1>10. PubsInv'
    <2>1. ASSUME NEW v \in pubs'
          PROVE  /\ v \in PubType /\ v.loading \subseteq v.told
                 /\ \A q \in v.loading : HasLoad(queue'[q], v.id)
      <3>1. CASE v \in pubs
        <4>1. v \in PubType /\ v.loading \subseteq v.told /\ \A q \in v.loading : HasLoad(queue[q], v.id)
          BY <3>1 DEF SystemIInv, PubsInv, PubSound
        <4>2. v.loading \subseteq Procs
          BY <4>1 DEF PubType
        <4> QED  BY <1>8, <4>1, <4>2
      <3>2. CASE v = sent
        BY <1>4, <1>6, <1>8, <3>2
      <3> QED  BY <1>5, <3>1, <3>2
    <2> QED  BY <2>1 DEF PubsInv, PubSound
  <1> QED  BY <1>2, <1>9, <1>10 DEF SystemIInv, Clocks, DocsInv, CopiesInv, Live

\* A load that failed is not waited for any more.
LEMMA UnansweredPubs ==
    ASSUME SystemIInv, NEW p \in Procs, Unanswered(p),
           \A q \in Procs : \A id : HasLoad(queue[q], id) /\ (q = p => id # Head1(p).pub)
                                      => HasLoad(queue'[q], id)
    PROVE  PubsInv'
  <1> DEFINE id == Head1(p).pub
             told == \E u \in pubs : u.id = id /\ p \in u.loading
  <1>1. pubs' = IF told THEN Closed(pubs, p) ELSE pubs
    BY DEF Unanswered
  <1> HIDE DEF id
  <1>2. CASE told
    <2>1. pubs' \subseteq pubs /\ \A u \in pubs' : p \notin u.loading
      BY <1>1, <1>2 DEF Closed
    <2>2. \A q \in Procs \ {p}, i \in Nat : HasLoad(queue[q], i) => HasLoad(queue'[q], i)
      OBVIOUS
    <2> QED  BY <2>1, <2>2, PubsLeft
  <1>3. CASE ~told
    <2>1. ASSUME NEW u \in pubs'
          PROVE  /\ u \in PubType /\ u.loading \subseteq u.told
                 /\ \A q \in u.loading : HasLoad(queue'[q], u.id)
      <3>1. u \in PubType /\ u.loading \subseteq u.told /\ \A q \in u.loading : HasLoad(queue[q], u.id)
        BY <1>1, <1>3 DEF SystemIInv, PubsInv, PubSound
      <3>2. u.loading \subseteq Procs /\ (p \in u.loading => u.id # id)
        BY <1>1, <1>3, <3>1 DEF PubType
      <3> QED  BY <3>1, <3>2 DEF id
    <2> QED  BY <2>1 DEF PubsInv, PubSound
  <1> QED  BY <1>2, <1>3

\* A load fails, before or after it took the time.
LEMMA LoadFailsStep == ASSUME SystemIInv, NEW p \in Procs, LoadFails(p) \/ LoadDrops(p) PROVE SystemIInv'
  <1>1. /\ queue[p] # <<>> /\ Head1(p).type = "load"
        /\ \/ last_update_time' = [last_update_time EXCEPT ![p] = Lowered(p, Head1(p).since)]
           \/ last_update_time' = [last_update_time EXCEPT ![p] = Head1(p).stamp]
        /\ Unanswered(p) /\ Leave(p)
        /\ UNCHANGED <<clock, db, changes, data>>
    BY DEF LoadFails, LoadDrops, At
  <1>2. Head1(p) \in LoadCall /\ data[p] \in [Docs -> Nat]
    BY <1>1, QueueFacts, CallFields DEF SystemIInv, CopiesInv
  <1>3. Head1(p).since \in Times \cup {Undefined} /\ Head1(p).stamp \in Times
    BY <1>2 DEF LoadCall
  <1>4. /\ QueuesInv'
        /\ \A q \in Procs : \A id : HasLoad(queue[q], id) /\ (q = p => id # Head1(p).pub)
                                      => HasLoad(queue'[q], id)
    BY <1>1, <1>2, LoadsLeft
  <1>5. PubsInv'
    BY <1>1, <1>4, UnansweredPubs
  <1>6. Clocks'
    <2>1. last_update_time[p] \in Times /\ last_update_time \in [Procs -> Times] /\ clock \in 0..MaxTime
      BY DEF SystemIInv, Clocks
    <2>2. Lowered(p, Head1(p).since) \in Times
      BY <1>3, <2>1 DEF Lowered
    <2> QED  BY <1>1, <1>3, <2>1, <2>2 DEF Clocks
  <1> QED  BY <1>1, <1>4, <1>5, <1>6 DEF SystemIInv, DocsInv, CopiesInv

\* A load fails whose copy was replaced.
LEMMA LoadThrowsStep == ASSUME SystemIInv, NEW p \in Procs, LoadThrows(p) PROVE SystemIInv'
  <1>1. Merge(p) /\ Unanswered(p)
    BY DEF LoadThrows
  <1> QED  BY <1>1, MergeStep, UnansweredPubs DEF SystemIInv

\* A connection is lost.
LEMMA DisconnectStep == ASSUME SystemIInv, NEW q \in Procs, Disconnect(q) PROVE SystemIInv'
  <1>1. /\ UNCHANGED <<clock, db, changes, queue, data, last_update_time>>
        /\ pubs' \subseteq pubs /\ \A u \in pubs' : q \notin u.loading
    BY DEF Disconnect, Closed
  <1>2. PubsInv'
    BY <1>1, PubsLeft
  <1> QED  BY <1>1, <1>2 DEF SystemIInv, Clocks, DocsInv, CopiesInv, QueuesInv, Live

\* A process restarts with an empty copy and a load.
LEMMA RestartStep == ASSUME SystemIInv, NEW p \in Procs, Restart(p) PROVE SystemIInv'
  <1> DEFINE l == Load(Undefined, 0)
             s == <<l>>
             new == [d \in Docs |-> 0]
  <1>1. /\ UNCHANGED <<clock, db, changes>>
        /\ queue' = [queue EXCEPT ![p] = s]
        /\ data' = [data EXCEPT ![p] = new]
        /\ last_update_time' = [last_update_time EXCEPT ![p] = Epoch]
        /\ pubs' \subseteq pubs /\ \A u \in pubs' : p \notin u.loading
    BY DEF Restart, Closed
  <1>2. l \in CallType /\ l.type = "load" /\ l.stage = "wait" /\ CallSound(l, db)
    BY CallsMade DEF CallSound
  <1> HIDE DEF l
  <1>3. s \in Seq(CallType) /\ Len(s) = 1 /\ s[1] = l
    BY <1>2
  <1> HIDE DEF s
  <1>4. data \in [Procs -> [Docs -> Nat]] /\ db \in [Docs -> Document]
        /\ \A q \in Procs, d \in Docs : data[q][d] <= db[d].ver
    BY DEF SystemIInv, CopiesInv, DocsInv
  <1>5. data' \in [Procs -> [Docs -> Nat]] /\ data'[p] = new /\ \A q \in Procs \ {p} : data'[q] = data[q]
    BY <1>1, <1>4
  <1>6. QueueSound(s, data'[p], db)
    <2>1. \A i \in 1..Len(s) : i = 1
      BY <1>3
    <2>2. 2..Len(s) = {}
      BY <1>3
    <2> QED  BY <1>2, <1>3, <2>1, <2>2 DEF QueueSound
  <1>7. QueuesInv' /\ \A q \in Procs \ {p} : queue'[q] = queue[q]
    BY <1>1, <1>5, <1>6, QueueChanges
  <1>8. PubsInv'
    BY <1>1, <1>7, PubsLeft
  <1>9. CopiesInv'
    <2>1. ASSUME NEW q \in Procs, NEW d \in Docs PROVE data'[q][d] <= db[d].ver
      <3>1. db[d].ver \in Nat
        BY <1>4 DEF Document
      <3>2. CASE q = p
        BY <1>5, <3>1, <3>2
      <3>3. CASE q # p
        BY <1>4, <1>5, <3>3
      <3> QED  BY <3>2, <3>3
    <2> QED  BY <1>1, <1>5, <2>1 DEF CopiesInv
  <1>10. Clocks'
    BY <1>1, Readings DEF SystemIInv, Clocks
  <1> QED  BY <1>1, <1>7, <1>8, <1>9, <1>10 DEF SystemIInv, DocsInv, Live

\* The invariant is inductive.
LEMMA StepSystemIInv == SystemIInv /\ [Next]_vars => SystemIInv'
  <1> SUFFICES ASSUME SystemIInv, [Next]_vars PROVE SystemIInv'
    OBVIOUS
  <1>1. ASSUME Tick \/ (\E p \in Procs : Ages(p)) \/ UNCHANGED vars PROVE SystemIInv'
    <2>1. UNCHANGED <<db, changes, queue, data, last_update_time, pubs>>
      BY <1>1 DEF Tick, Ages, vars
    <2>2. clock' \in 0..MaxTime
      BY <1>1, ClockAssumption DEF Tick, Ages, vars, SystemIInv, Clocks
    <2> QED  BY <2>1, <2>2 DEF SystemIInv, Clocks, DocsInv, CopiesInv, QueuesInv, PubsInv, PubSound,
                               Live
  <1>2. ASSUME NEW p \in Procs,
               \/ Loads(p) \/ Makes(p) \/ Fails(p) \/ Refresh(p) \/ Reconnect(p)
               \/ \E op \in {"insert", "update", "remove"}, d \in Docs : MakeChanges(p, op, d)
        PROVE  SystemIInv'
    BY <1>2, RegisterStep, ReadStep, ApplyStep, PrepareStep, WriteStep, LoadFailsStep, LoadThrowsStep, DisconnectStep,
       RestartStep, CallStep DEF Loads, Makes, Fails
  <1> QED  BY <1>1, <1>2, PublishStep DEF Next

LEMMA SystemInvariance == Spec => []SystemIInv
  BY InitSystemIInv, StepSystemIInv, PTL DEF Spec

-----------------------------------------------------------------------------
(* Theorems                                                                *)

\* Queues, copies and publications are well formed: for any processes, documents, clocks,
\* changes and faults, only the first call of load and make_changes has begun, and a
\* publication waits only for loads that are still to be answered.
THEOREM SystemTypeCorrect == Spec => []TypeOK
  <1>1. SystemIInv => TypeOK
    <2> SUFFICES ASSUME SystemIInv PROVE TypeOK
      OBVIOUS
    <2>1. \A p \in Procs : \A i \in 2..Len(queue[p]) : queue[p][i].stage = "wait"
      BY QueueFacts DEF QueueSound
    <2>2. ASSUME NEW p \in Procs PROVE last_update_time[p] \in Times /\ data[p] \in [Docs -> 0..changes]
      <3>1. \A d \in Docs : data[p][d] \in Nat /\ data[p][d] <= db[d].ver /\ db[d].ver <= changes
                            /\ db[d].ver \in Nat /\ changes \in Nat
        BY DEF SystemIInv, CopiesInv, DocsInv, Document
      <3>2. data[p] \in [Docs -> Nat]
        BY DEF SystemIInv, CopiesInv
      <3>3. \A d \in Docs : data[p][d] \in 0..changes
        BY <3>1
      <3>4. data[p] \in [Docs -> 0..changes]
        BY <3>2, <3>3
      <3> QED  BY <3>4 DEF SystemIInv, Clocks
    <2>3. ASSUME NEW u \in pubs
          PROVE  /\ u.loading \subseteq u.told
                 /\ \A q \in u.loading : \E c \in Calls(q) : c.type = "load" /\ c.pub = u.id
      <3>1. PubSound(u) /\ u.loading \subseteq Procs
        BY DEF SystemIInv, PubsInv, PubType
      <3>2. ASSUME NEW q \in u.loading PROVE \E c \in Calls(q) : c.type = "load" /\ c.pub = u.id
        <4>1. PICK i \in 1..Len(queue[q]) : queue[q][i].type = "load" /\ queue[q][i].pub = u.id
          BY <3>1 DEF PubSound, HasLoad
        <4>2. DOMAIN queue[q] = 1..Len(queue[q])
          BY <3>1, QueueFacts
        <4> QED  BY <4>1, <4>2 DEF Calls
      <3> QED  BY <3>1, <3>2 DEF PubSound
    <2> QED  BY <2>1, <2>2, <2>3 DEF TypeOK
  <1> QED  BY <1>1, SystemInvariance, PTL

\* No load brings back what a load before it had replaced: loads are serialised by
\* _load_serial, and what one has read is no older than the copy it is merged into.
THEOREM LoadsGoForward == Spec => NeverOlder
  <1> DEFINE Older == \A p \in loaded \cap loaded', d \in Docs :
                         \/ data'[p][d] >= data[p][d]
                         \/ data'[p][d] = 0 /\ db[d].deleted
  <1>1. SystemIInv /\ loaded \subseteq Procs /\ [Next]_vars => [Older]_vars
    <2> SUFFICES ASSUME SystemIInv, loaded \subseteq Procs, [Next]_vars PROVE Older
      OBVIOUS
    <2>1. \A p \in Procs, d \in Docs : data[p][d] \in Nat
      BY DEF SystemIInv, CopiesInv
    <2> SUFFICES ASSUME NEW p \in loaded \cap loaded', NEW d \in Docs
                 PROVE  data'[p][d] >= data[p][d] \/ (data'[p][d] = 0 /\ db[d].deleted)
      OBVIOUS
    <2>2. p \in Procs /\ data \in [Procs -> [Docs -> Nat]]
      BY DEF SystemIInv, CopiesInv
    <2>3. CASE data'[p] = data[p]
      BY <2>1, <2>2, <2>3
    <2>4. ASSUME NEW q \in Procs, Merge(q) PROVE data'[p][d] >= data[p][d] \/ (data'[p][d] = 0 /\ db[d].deleted)
      <3>1. At(q, "load", "read") /\ data' = [data EXCEPT ![q] = Merged(data[q], Head1(q).got)]
        BY <2>4 DEF Merge
      <3>2. CASE q = p
        BY <2>2, <3>1, <3>2, MergedIs
      <3>3. CASE q # p
        BY <2>2, <2>3, <3>1, <3>3
      <3> QED  BY <3>2, <3>3
    <2>5. ASSUME NEW q \in Procs, Restart(q) PROVE data'[p] = data[p]
      <3>1. q # p
        BY <2>5 DEF Restart
      <3> QED  BY <2>2, <2>5, <3>1 DEF Restart
    <2>6. (\E q \in Procs : Merge(q) \/ Restart(q)) \/ data' = data
      BY DEF Next, vars, Loads, Makes, Fails, Register, Read, Apply, Prepare, Write, WriteFails, LoadFails,
             LoadDrops, LoadThrows, Disconnect, Refresh, Reconnect, Ages, MakeChanges, Publish, Tick
    <2> QED  BY <2>3, <2>4, <2>5, <2>6
  <1>2. Init => loaded \subseteq Procs
    BY DEF Init
  <1>3. loaded \subseteq Procs /\ [Next]_vars => (loaded \subseteq Procs)'
    BY DEF Next, vars, Loads, Makes, Fails, Register, Read, Apply, Merge, Prepare, Write, WriteFails,
           LoadFails, LoadDrops, LoadThrows, Disconnect, Restart, Refresh, Reconnect, Ages, MakeChanges,
           Publish, Tick
  <1>4. NeverOlder <=> [][Older]_vars
    BY PTL DEF NeverOlder
  <1> QED  BY <1>1, <1>2, <1>3, <1>4, SystemInvariance, PTL DEF Spec

-----------------------------------------------------------------------------
(* What copies are yet to hear of.                                         *)

\* A process is yet to hear of a document: it was never told of the last change, or a
\* publication or a call of load is to take it back to t or before.
Coming(q, d, t) ==
    \/ <<q, d>> \in lost
    \/ \E u \in pubs : u.stage = "sent" /\ u.doc = d /\ u.since <= t
    \/ \E i \in 1..Len(queue[q]) :
          /\ queue[q][i].type = "load" /\ queue[q][i].stage = "wait"
          /\ queue[q][i].pub # 0 /\ queue[q][i].since <= t

\* A copy has the last version of a document, or is yet to hear of it, or the next load
\* reads it.  What a load has read is that version, or the process is yet to hear of it.
UpToDate(q, d) ==
    \/ data[q][d] = Current(d)
    \/ Coming(q, d, db[d].at)
    \/ last_update_time[q] <= db[d].at
WillBe(q, d) ==
    \/ Merged(data[q], Head1(q).got)[d] = Current(d)
    \/ Coming(q, d, db[d].at)

\* The same of the version ver that was published with the stamp t.
SeenIn(copy, d, ver) == copy[d] >= ver \/ (copy[d] = 0 /\ db[d].deleted = TRUE)
Heard(q, d, ver, t) ==
    \/ SeenIn(data[q], d, ver)
    \/ Coming(q, d, t - 1)
    \/ last_update_time[q] <= t
WillHear(q, d, ver, t) ==
    \/ SeenIn(Merged(data[q], Head1(q).got), d, ver)
    \/ Coming(q, d, t - 1)

Connected   == conn \in [Procs -> {"registered", "closed", "open", "new"}] /\ events \in Nat
HasBegun(q) == queue[q] # <<>> /\ Head1(q).type = "load" /\ Head1(q).stage # "wait"
HasRead(q)  == At(q, "load", "read")
CopySound(q) ==
    /\ \A d \in Docs : UpToDate(q, d) /\ (HasRead(q) => WillBe(q, d))
    /\ At(q, "load", "reading") /\ Head1(q).pub # 0 => last_update_time[q] <= Head1(q).since
    /\ conn[q] = "new" => last_update_time[q] = 0 /\ ~HasBegun(q)

\* Publications and the loads that they called carry the number of their change.
LoadSound(c) == c.type = "load" =>
    /\ c.pub <= changes
    /\ c.pub # 0 => c.since # Undefined
    /\ \A u \in pubs : c.pub = u.id => u.stage = "published" /\ c.since = u.since
Numbered ==
    /\ \A u \in pubs : u.id > 0 /\ u.id <= db[u.doc].ver
    /\ \A u \in pubs : u.stage = "sent" => u.loading = {} /\ u.told = {}
    /\ \A u, v \in pubs : u.id = v.id => u = v
    /\ \A q \in Procs : \A i \in 1..Len(queue[q]) : LoadSound(queue[q][i])

\* Who answered a publication has seen the change, or will.
Answers(q, u) ==
    /\ q \notin u.loading => Heard(q, u.doc, u.id, u.since)
    /\ HasRead(q) /\ (q \notin u.loading \/ Head1(q).pub = u.id) => WillHear(q, u.doc, u.id, u.since)

SeenInv ==
    /\ Connected
    /\ \A q \in Procs : CopySound(q)
    /\ Numbered
    /\ \A u \in pubs : u.stage = "published" => \A q \in u.told : Answers(q, u)

-----------------------------------------------------------------------------
(* Queues.                                                                 *)

\* A call of load that waits, the calls that wait, the call that has begun, and the loads.
Waits(s, c) == \E i \in 1..Len(s) : s[i] = c /\ c.type = "load" /\ c.stage = "wait"
Keeps(s, r) == \A c \in CallType : Waits(s, c) => Waits(r, c)
SameHead(s, r) == r # <<>> /\ r[1].type = "load" /\ r[1].stage # "wait" => s # <<>> /\ r[1] = s[1]
From(s, r) == \A i \in 1..Len(r) : r[i].type = "load" =>
    \/ r[i].pub = 0
    \/ \E j \in 1..Len(s) : s[j].type = "load" /\ s[j].pub = r[i].pub /\ s[j].since = r[i].since

\* One more call.
LEMMA QueueAppend ==
    ASSUME NEW s \in Seq(CallType), NEW c \in CallType, c.stage = "wait"
    PROVE  LET r == Append(s, c)
           IN  /\ Keeps(s, r) /\ SameHead(s, r) /\ (c.type = "load" => Waits(r, c))
               /\ (c.type = "load" => c.pub = 0) => From(s, r)
               /\ \A i \in 1..Len(r) : r[i] = c \/ \E j \in 1..Len(s) : r[i] = s[j]
  <1> DEFINE r == Append(s, c)
  <1>1. /\ r \in Seq(CallType) /\ Len(r) = Len(s) + 1 /\ Len(s) \in Nat
        /\ \A i \in 1..Len(s) : r[i] = s[i]
        /\ r[Len(s) + 1] = c
    BY Queues
  <1> HIDE DEF r
  <1>2. /\ \A i \in 1..Len(s) : i \in 1..Len(r)
        /\ Len(s) + 1 \in 1..Len(r)
        /\ \A i \in 1..Len(r) : i \in 1..Len(s) \/ i = Len(s) + 1
        /\ s = <<>> \/ 1 \in 1..Len(s)
    BY <1>1
  <1>3. Keeps(s, r)
    BY <1>1, <1>2 DEF Keeps, Waits
  <1>4. SameHead(s, r)
    BY <1>1, <1>2 DEF SameHead
  <1>5. c.type = "load" => Waits(r, c)
    BY <1>1, <1>2 DEF Waits
  <1>6. \A i \in 1..Len(r) : r[i] = c \/ \E j \in 1..Len(s) : r[i] = s[j]
    BY <1>1, <1>2
  <1>7. (c.type = "load" => c.pub = 0) => From(s, r)
    BY <1>6 DEF From
  <1> QED  BY <1>3, <1>4, <1>5, <1>6, <1>7 DEF r

\* The first call leaves.
LEMMA QueueTail ==
    ASSUME NEW s \in Seq(CallType), s # <<>>, \A i \in 2..Len(s) : s[i].stage = "wait"
    PROVE  LET r == Tail(s)
           IN  /\ r \in Seq(CallType) /\ From(s, r)
               /\ r # <<>> => r[1].stage = "wait"
               /\ \A c \in CallType : Waits(s, c) => Waits(r, c) \/ c = s[1]
  <1> DEFINE r == Tail(s)
  <1>1. /\ r \in Seq(CallType) /\ Len(r) = Len(s) - 1 /\ Len(s) \in Nat
        /\ \A i \in 1..Len(r) : r[i] = s[i + 1]
    BY Queues
  <1> HIDE DEF r
  <1>2. /\ \A i \in 1..Len(r) : i + 1 \in 1..Len(s) /\ i + 1 \in 2..Len(s)
        /\ \A i \in 1..Len(s) : i # 1 => i - 1 \in 1..Len(r) /\ (i - 1) + 1 = i
        /\ r # <<>> => 1 \in 1..Len(r)
    BY <1>1
  <1>3. From(s, r)
    BY <1>1, <1>2 DEF From
  <1>4. r # <<>> => r[1].stage = "wait"
    BY <1>1, <1>2
  <1>5. ASSUME NEW c \in CallType, Waits(s, c), c # s[1] PROVE Waits(r, c)
    <2>1. PICK i \in 1..Len(s) : s[i] = c
      BY <1>5 DEF Waits
    <2>2. i # 1 /\ r[i - 1] = c /\ i - 1 \in 1..Len(r)
      BY <1>1, <1>2, <1>5, <2>1
    <2> QED  BY <1>5, <2>2 DEF Waits
  <1> QED  BY <1>1, <1>3, <1>4, <1>5 DEF r

\* The first call goes on.
LEMMA QueueHead ==
    ASSUME NEW s \in Seq(CallType), s # <<>>, NEW n \in CallType, n.type = s[1].type,
           n.type = "load" => n.pub = s[1].pub /\ n.since = s[1].since
    PROVE  LET r == [s EXCEPT ![1] = n]
           IN  /\ r \in Seq(CallType) /\ r # <<>> /\ r[1] = n /\ From(s, r)
               /\ \A c \in CallType : Waits(s, c) => Waits(r, c) \/ c = s[1]
  <1> DEFINE r == [s EXCEPT ![1] = n]
  <1>1. /\ r \in Seq(CallType) /\ Len(r) = Len(s) /\ Len(s) \in Nat /\ 1 \in 1..Len(s)
        /\ r[1] = n
        /\ \A i \in 2..Len(s) : r[i] = s[i]
    BY Queues
  <1> HIDE DEF r
  <1>2. \A i \in 1..Len(s) : i = 1 \/ i \in 2..Len(s)
    BY <1>1
  <1>3. r # <<>>
    BY <1>1
  <1>4. From(s, r)
    BY <1>1, <1>2 DEF From
  <1>5. \A c \in CallType : Waits(s, c) => Waits(r, c) \/ c = s[1]
    BY <1>1, <1>2 DEF Waits
  <1> QED  BY <1>1, <1>3, <1>4, <1>5 DEF r

\* One change of a queue after another.
LEMMA QueueTwice ==
    ASSUME NEW s, NEW r, NEW q, Keeps(s, r), SameHead(s, r), From(s, r),
           Keeps(r, q), SameHead(r, q), From(r, q)
    PROVE  Keeps(s, q) /\ SameHead(s, q) /\ From(s, q)
  <1>1. Keeps(s, q)
    BY DEF Keeps
  <1>2. SameHead(s, q)
    BY DEF SameHead
  <1>3. From(s, q)
    BY DEF From
  <1> QED  BY <1>1, <1>2, <1>3
\* Nothing changes.
LEMMA QueueSame == ASSUME NEW s PROVE Keeps(s, s) /\ SameHead(s, s) /\ From(s, s)
  BY DEF Keeps, SameHead, From

-----------------------------------------------------------------------------
(* What a step does to a process.                                          *)

\* It leaves the copy alone, perhaps with another call that waits;
Calm(q) ==
    /\ data'[q] = data[q] /\ last_update_time'[q] = last_update_time[q]
    /\ Keeps(queue[q], queue'[q]) /\ SameHead(queue[q], queue'[q])
\* or a load begins or fails, and the next reading goes back as far as it was to;
Lowers(q) ==
    /\ data'[q] = data[q] /\ last_update_time'[q] <= last_update_time[q]
    /\ HasBegun(q)' => At(q, "load", "reading")' /\ conn'[q] = "registered"
    /\ \A c \in CallType : Waits(queue[q], c) /\ c.pub # 0 =>
          Waits(queue'[q], c) \/ last_update_time'[q] <= c.since
    /\ At(q, "load", "reading")' /\ Head1(q)'.pub # 0 => last_update_time'[q] <= Head1(q)'.since
\* or the process starts again;
Fresh(q) == last_update_time'[q] = 0 /\ ~HasBegun(q)'
\* or a load reads, or ends, or drops what it has read.
Reads(q) ==
    /\ Read(q) /\ data'[q] = data[q] /\ last_update_time'[q] = last_update_time[q]
    /\ Keeps(queue[q], queue'[q]) /\ HasRead(q)'
    /\ Head1(q)'.pub = Head1(q).pub
    /\ Head1(q)'.got = [d \in Docs |-> IF Newer(q, d) THEN [ver |-> db[d].ver, deleted |-> db[d].deleted]
                                       ELSE None]
Ends(q) ==
    /\ Merge(q) /\ data'[q] = Merged(data[q], Head1(q).got)
    /\ Keeps(queue[q], queue'[q]) /\ ~HasBegun(q)'
Drops(q) ==
    /\ HasRead(q) /\ data'[q] = data[q] /\ db' = db
    /\ Keeps(queue[q], queue'[q]) /\ ~HasBegun(q)'
    /\ \A d \in Docs : Merged(data[q], Head1(q).got)[d] # data[q][d] => <<q, d>> \in lost'
Kind(q) == Calm(q) \/ Lowers(q) \/ Fresh(q) \/ Reads(q) \/ Ends(q) \/ Drops(q)
Sourced(q) == From(queue[q], queue'[q])

\* The queues are what the invariant says.
LEMMA QueueIs ==
    ASSUME SystemIInv, NEW q \in Procs
    PROVE  /\ queue[q] \in Seq(CallType) /\ \A i \in 2..Len(queue[q]) : queue[q][i].stage = "wait"
           /\ Head1(q) = queue[q][1]
           /\ queue[q] # <<>> => /\ Head1(q) \in CallType
                                 /\ Head1(q).type = "load" => Head1(q) \in LoadCall
                                 /\ Head1(q).type = "change" => Head1(q) \in ChangeCall
  BY QueueFacts, CallFields DEF QueueSound, Head1

\* Clocks, copies and documents are numbers.
LEMMA Numbers ==
    ASSUME SystemIInv
    PROVE  /\ Times \subseteq Nat /\ changes \in Nat
           /\ \A q \in Procs : last_update_time[q] \in Nat /\ data[q] \in [Docs -> Nat]
           /\ \A d \in Docs : /\ db[d].ver \in Nat /\ db[d].at \in Nat /\ db[d].deleted \in BOOLEAN
                              /\ db[d].ver <= changes
           /\ \A q \in Procs, d \in Docs : data[q][d] \in Nat /\ data[q][d] <= db[d].ver
           /\ \A u \in pubs : /\ u \in PubType /\ u.id \in Nat /\ u.doc \in Docs /\ u.since \in Nat
                              /\ u.told \subseteq Procs /\ u.loading \subseteq u.told
  <1>1. Times \subseteq Nat
    BY ClockAssumption DEF Times, Epoch
  <1>2. \A u \in pubs : u \in PubType /\ u.loading \subseteq u.told
    BY DEF SystemIInv, PubsInv, PubSound
  <1>3. \A u \in PubType : u.id \in Nat /\ u.doc \in Docs /\ u.since \in Times /\ u.told \subseteq Procs
    BY DEF PubType
  <1> QED  BY <1>1, <1>2, <1>3 DEF SystemIInv, Clocks, DocsInv, CopiesInv, Document

\* A reading of the clock after a step is a number.
LEMMA ReadingsAfter ==
    ASSUME SystemIInv, SystemIInv', NEW q \in Procs
    PROVE  last_update_time'[q] \in Nat
  <1>1. last_update_time' \in [Procs -> Times]
    BY DEF SystemIInv, Clocks
  <1> QED  BY <1>1, Numbers

\* A process that is not the one that a step is about.
LEMMA OneQueue ==
    ASSUME SystemIInv, NEW p \in Procs, NEW s, queue' = [queue EXCEPT ![p] = s]
    PROVE  queue'[p] = s /\ \A q \in Procs \ {p} : queue'[q] = queue[q]
  BY DEF SystemIInv, QueuesInv
\* Its queue and its copy stay as they are.
LEMMA OthersCalm ==
    ASSUME SystemIInv, NEW q \in Procs, queue'[q] = queue[q],
           data'[q] = data[q], last_update_time'[q] = last_update_time[q]
    PROVE  Calm(q) /\ Sourced(q)
  BY QueueSame DEF Calm, Sourced

\* Calls come, changes begin and end.
LEMMA KindCall ==
    ASSUME SystemIInv, NEW p \in Procs,
           \/ Refresh(p) \/ Reconnect(p)
           \/ \E op \in {"insert", "update", "remove"}, d \in Docs : MakeChanges(p, op, d),
           NEW q \in Procs
    PROVE  Calm(q) /\ Sourced(q)
  <1>1. /\ UNCHANGED <<data, last_update_time>>
        /\ \E c \in CallType : /\ c.stage = "wait" /\ (c.type = "load" => c.pub = 0)
                               /\ queue' = [queue EXCEPT ![p] = Append(queue[p], c)]
    <2>1. queue \in [Procs -> Seq(CallType)]
      BY DEF SystemIInv, QueuesInv
    <2>2. CASE Refresh(p) \/ Reconnect(p)
      <3> DEFINE c == Load(Undefined, 0)
      <3>1. c \in CallType /\ c.pub = 0 /\ c.stage = "wait"
        BY CallsMade
      <3>2. /\ UNCHANGED <<data, last_update_time>>
            /\ queue' = [queue EXCEPT ![p] = Append(queue[p], c)]
        BY <2>1, <2>2 DEF Refresh, Reconnect
      <3> HIDE DEF c
      <3> QED  BY <3>1, <3>2
    <2>3. ASSUME NEW op \in {"insert", "update", "remove"}, NEW d \in Docs, MakeChanges(p, op, d)
          PROVE  <1>1
      <3> DEFINE c == Change(op, d)
      <3>1. c \in CallType /\ c.type = "change" /\ c.stage = "wait"
        BY CallsMade
      <3>2. /\ UNCHANGED <<data, last_update_time>>
            /\ queue' = [queue EXCEPT ![p] = Append(queue[p], c)]
        BY <2>1, <2>3 DEF MakeChanges
      <3> HIDE DEF c
      <3> QED  BY <3>1, <3>2
    <2> QED  BY <2>2, <2>3
  <1>2. PICK c \in CallType : /\ c.stage = "wait" /\ (c.type = "load" => c.pub = 0)
                              /\ queue' = [queue EXCEPT ![p] = Append(queue[p], c)]
    BY <1>1
  <1> DEFINE s == queue[p]
             r == Append(s, c)
  <1>3. /\ queue'[p] = r /\ \A x \in Procs \ {p} : queue'[x] = queue[x]
        /\ s \in Seq(CallType)
    BY <1>2, OneQueue, QueueIs
  <1>4. Keeps(s, r) /\ SameHead(s, r) /\ From(s, r)
    BY <1>2, <1>3, QueueAppend
  <1> HIDE DEF r
  <1>5. CASE q = p
    BY <1>1, <1>3, <1>4, <1>5 DEF Calm, Sourced
  <1>6. CASE q # p
    BY <1>1, <1>3, <1>6, OthersCalm
  <1> QED  BY <1>5, <1>6

\* A queue whose first call, a change, goes on or leaves.
LEMMA ChangeCalm ==
    ASSUME NEW s \in Seq(CallType), s # <<>>, s[1].type = "change",
           \A i \in 2..Len(s) : s[i].stage = "wait"
    PROVE  /\ Keeps(s, Tail(s)) /\ SameHead(s, Tail(s)) /\ From(s, Tail(s))
           /\ \A n \in ChangeCall : LET r == [s EXCEPT ![1] = n]
                                    IN  Keeps(s, r) /\ SameHead(s, r) /\ From(s, r)
  <1>1. \A c \in CallType : Waits(s, c) => c # s[1]
    BY DEF Waits
  <1>2. Keeps(s, Tail(s)) /\ SameHead(s, Tail(s)) /\ From(s, Tail(s))
    BY <1>1, QueueTail DEF Keeps, SameHead
  <1>3. ASSUME NEW n \in ChangeCall
        PROVE  LET r == [s EXCEPT ![1] = n] IN Keeps(s, r) /\ SameHead(s, r) /\ From(s, r)
    <2>1. n \in CallType /\ n.type = "change"
      BY CallFields DEF CallType, ChangeCall
    <2> DEFINE r == [s EXCEPT ![1] = n]
    <2>2. /\ r # <<>> /\ r[1] = n /\ From(s, r)
          /\ \A c \in CallType : Waits(s, c) => Waits(r, c) \/ c = s[1]
      BY <2>1, QueueHead
    <2> HIDE DEF r
    <2>3. Keeps(s, r) /\ SameHead(s, r) /\ From(s, r)
      BY <1>1, <2>1, <2>2 DEF Keeps, SameHead
    <2> QED  BY <2>3 DEF r
  <1> QED  BY <1>2, <1>3

\* A change that was written, or failed, leaves.
LEMMA KindWrite ==
    ASSUME SystemIInv, NEW p \in Procs, Write(p) \/ WriteFails(p), NEW q \in Procs
    PROVE  Calm(q) /\ Sourced(q)
  <1>1. /\ UNCHANGED <<data, last_update_time>> /\ queue' = [queue EXCEPT ![p] = Tail(queue[p])]
        /\ queue[p] # <<>> /\ Head1(p).type = "change"
    BY DEF Write, WriteFails, Leave, At, SystemIInv, QueuesInv
  <1>2. CASE q = p
    BY <1>1, <1>2, OneQueue, QueueIs, ChangeCalm DEF Calm, Sourced
  <1>3. CASE q # p
    BY <1>1, <1>3, OneQueue, OthersCalm
  <1> QED  BY <1>2, <1>3

\* A change begins, or leaves when its name is taken.
LEMMA KindPrepare ==
    ASSUME SystemIInv, NEW p \in Procs, Prepare(p), NEW q \in Procs
    PROVE  Calm(q) /\ Sourced(q)
  <1> DEFINE c == Head1(p)
             st == IF p \notin loaded \/ age[p] = "expired" THEN "refreshing" ELSE "writing"
             n == [c EXCEPT !.stage = st, !.stamp = Now(p)]
             l == Load(Undefined, 0)
             s == queue[p]
             t == Tail(s)
             h == [s EXCEPT ![1] = n]
  <1>1. /\ s # <<>> /\ c.type = "change"
        /\ UNCHANGED <<data, last_update_time>>
        /\ \E reload \in {<<>>, <<l>>}, rest \in {t, <<n>> \o t} :
              queue' = [queue EXCEPT ![p] = rest \o reload]
    BY DEF Prepare, At, SystemIInv, QueuesInv
  <1>2. s \in Seq(CallType) /\ c \in ChangeCall /\ c = s[1] /\ \A i \in 2..Len(s) : s[i].stage = "wait"
    BY <1>1, QueueIs
  <1>3. n \in ChangeCall
    <2>1. Now(p) \in Times /\ st \in {"refreshing", "writing"}
      BY Readings DEF SystemIInv, Clocks
    <2> HIDE DEF st, c
    <2>2. c \in ChangeCall
      BY <1>2
    <2> DEFINE m == Now(p)
    <2>3. m \in Times
      BY <2>1
    <2> HIDE DEF m
    <2>4. LET k == [c EXCEPT !.stage = st, !.stamp = m]
          IN  k \in ChangeCall /\ k.type = "change" /\ k.doc = c.doc /\ k.op = c.op
      BY <2>1, <2>2, <2>3, ChangeGoesOn
    <2> QED  BY <2>4 DEF m
  <1>4. n \in CallType /\ l \in CallType /\ l.pub = 0 /\ l.stage = "wait"
    BY <1>3, CallsMade DEF CallType
  <1> HIDE DEF n, l, c
  <1>5. t \in Seq(CallType) /\ h \in Seq(CallType) /\ <<n>> \o t = h
        /\ t \o <<>> = t /\ h \o <<>> = h /\ t \o <<l>> = Append(t, l) /\ h \o <<l>> = Append(h, l)
    <2>1. t \in Seq(CallType) /\ h \in Seq(CallType)
      BY <1>1, <1>2, <1>4, Queues
    <2>2. <<n>> \o t = h
      <3> HIDE DEF CallType
      <3> QED  BY <1>1, <1>2, <1>4
    <2> HIDE DEF t, h, CallType
    <2> QED  BY <1>4, <2>1, <2>2
  <1>6. /\ Keeps(s, t) /\ SameHead(s, t) /\ From(s, t)
        /\ Keeps(s, h) /\ SameHead(s, h) /\ From(s, h)
    BY <1>1, <1>2, <1>3, ChangeCalm
  <1> HIDE DEF t, h, s
  <1>7. ASSUME NEW r \in {t, h}
        PROVE  Keeps(s, Append(r, l)) /\ SameHead(s, Append(r, l)) /\ From(s, Append(r, l))
    <2>1. r \in Seq(CallType) /\ Keeps(s, r) /\ SameHead(s, r) /\ From(s, r)
      BY <1>5, <1>6
    <2>2. Keeps(r, Append(r, l)) /\ SameHead(r, Append(r, l)) /\ From(r, Append(r, l))
      BY <1>4, <2>1, QueueAppend
    <2> QED  BY <2>1, <2>2, QueueTwice
  <1>8. PICK r : /\ queue' = [queue EXCEPT ![p] = r]
                 /\ Keeps(s, r) /\ SameHead(s, r) /\ From(s, r)
    <2>1. PICK reload \in {<<>>, <<l>>}, rest \in {t, h} : queue' = [queue EXCEPT ![p] = rest \o reload]
      BY <1>1, <1>5
    <2>2. rest \o reload \in {t, h, Append(t, l), Append(h, l)}
      BY <1>5, <2>1
    <2> QED  BY <1>6, <1>7, <2>1, <2>2
  <1>9. CASE q = p
    BY <1>1, <1>8, <1>9, OneQueue DEF Calm, Sourced, s
  <1>10. CASE q # p
    BY <1>1, <1>8, <1>10, OneQueue, OthersCalm
  <1> QED  BY <1>9, <1>10

\* A reading that goes back goes back to where it was to.
LEMMA LoweredIs ==
    ASSUME SystemIInv, Numbered, NEW p \in Procs, queue[p] # <<>>, Head1(p).type = "load"
    PROVE  LET t == Lowered(p, Head1(p).since)
           IN  t \in Nat /\ t <= last_update_time[p] /\ (Head1(p).pub # 0 => t <= Head1(p).since)
  <1>1. Head1(p) \in LoadCall /\ 1 \in 1..Len(queue[p]) /\ Head1(p) = queue[p][1]
    BY QueueIs
  <1>2. Head1(p).since \in Times \cup {Undefined} /\ (Head1(p).pub # 0 => Head1(p).since # Undefined)
    BY <1>1 DEF LoadCall, Numbered, LoadSound
  <1>3. Times \subseteq Nat /\ last_update_time[p] \in Nat
    BY Numbers
  <1> DEFINE since == Head1(p).since
             here  == last_update_time[p]
  <1>4. since \in Nat \/ since = Undefined
    BY <1>2, <1>3
  <1>5. Lowered(p, since) = IF since # Undefined /\ since < here THEN since ELSE here
    BY DEF Lowered
  <1> HIDE DEF since, here
  <1>6. Lowered(p, since) \in Nat /\ Lowered(p, since) <= here
        /\ (since # Undefined => Lowered(p, since) <= since)
    BY <1>3, <1>4, <1>5 DEF here
  <1> QED  BY <1>2, <1>6 DEF since, here

\* A load begins: the reading goes back as far as the load is to go.
LEMMA KindRegister ==
    ASSUME SystemIInv, Connected, Numbered, NEW p \in Procs, Register(p), NEW q \in Procs
    PROVE  Kind(q) /\ Sourced(q)
  <1> DEFINE s == queue[p]
             c == [Head1(p) EXCEPT !.stage = "reading", !.stamp = Now(p)]
             t == Lowered(p, Head1(p).since)
             r == [s EXCEPT ![1] = c]
  <1>1. /\ s # <<>> /\ Head1(p).type = "load" /\ Head1(p) \in LoadCall /\ Head1(p) = s[1]
        /\ s \in Seq(CallType)
    BY QueueIs DEF Register, At
  <1>2. queue' = [queue EXCEPT ![p] = r] /\ data' = data /\ conn'[p] = "registered"
    BY DEF Register, SetHead, SystemIInv, QueuesInv, Connected
  <1>3. last_update_time'[p] = t /\ \A x \in Procs \ {p} : last_update_time'[x] = last_update_time[x]
    BY DEF Register, SystemIInv, Clocks
  <1>4. c \in LoadCall /\ c.type = "load" /\ c.pub = Head1(p).pub /\ c.stage = "reading"
        /\ c.since = Head1(p).since
    <2>1. Now(p) \in Times
      BY Readings DEF SystemIInv, Clocks
    <2>2. c.since = Head1(p).since
      BY <1>1 DEF LoadCall
    <2> QED  BY <1>1, <2>1, <2>2, CallGoesOn
  <1>5. t <= last_update_time[p] /\ (Head1(p).pub # 0 => t <= Head1(p).since)
    BY <1>1, LoweredIs
  <1> HIDE DEF t, c
  <1>6. /\ r # <<>> /\ r[1] = c /\ From(s, r)
        /\ \A x \in CallType : Waits(s, x) => Waits(r, x) \/ x = s[1]
    BY <1>1, <1>4, QueueHead DEF CallType
  <1>7. queue'[p] = r /\ \A x \in Procs \ {p} : queue'[x] = queue[x]
    BY <1>2, OneQueue
  <1> HIDE DEF r
  <1>8. CASE q = p
    <2>1. Head1(p)' = c
      BY <1>6, <1>7 DEF Head1
    <2>2. Lowers(p)
      BY <1>1, <1>2, <1>3, <1>4, <1>5, <1>6, <1>7, <2>1 DEF Lowers, HasBegun, At
    <2> QED  BY <1>6, <1>7, <1>8, <2>2 DEF Kind, Sourced
  <1>9. CASE q # p
    BY <1>2, <1>3, <1>7, <1>9, OthersCalm DEF Kind
  <1> QED  BY <1>8, <1>9

\* A load reads.
LEMMA KindRead ==
    ASSUME SystemIInv, NEW p \in Procs, Read(p), NEW q \in Procs
    PROVE  (IF q = p THEN Reads(q) ELSE Calm(q)) /\ Sourced(q)
  <1> DEFINE s == queue[p]
             g == [d \in Docs |-> IF Newer(p, d) THEN [ver |-> db[d].ver, deleted |-> db[d].deleted]
                                  ELSE None]
             c == [Head1(p) EXCEPT !.stage = "read", !.got = g]
             r == [s EXCEPT ![1] = c]
  <1>1. /\ s # <<>> /\ Head1(p).type = "load" /\ Head1(p) \in LoadCall /\ Head1(p) = s[1]
        /\ s \in Seq(CallType) /\ s[1].stage = "reading"
    BY QueueIs DEF Read, At
  <1>2. queue' = [queue EXCEPT ![p] = r] /\ data' = data /\ last_update_time' = last_update_time
    BY DEF Read, SetHead, SystemIInv, QueuesInv
  <1>3. g \in [Docs -> GotType]
    BY Numbers DEF GotType, None
  <1> HIDE DEF g
  <1>4. c \in LoadCall /\ c.type = "load" /\ c.pub = Head1(p).pub /\ c.got = g /\ c.since = Head1(p).since
        /\ c.stage = "read"
    <2>1. c.since = Head1(p).since /\ c.stage = "read"
      BY <1>1 DEF LoadCall
    <2> QED  BY <1>1, <1>3, <2>1, CallGoesOn
  <1> HIDE DEF c
  <1>5. /\ r # <<>> /\ r[1] = c /\ From(s, r)
        /\ \A x \in CallType : Waits(s, x) => Waits(r, x) \/ x = s[1]
    BY <1>1, <1>4, QueueHead DEF CallType
  <1>6. queue'[p] = r /\ \A x \in Procs \ {p} : queue'[x] = queue[x]
    BY <1>2, OneQueue
  <1> HIDE DEF r
  <1>7. Keeps(s, r)
    BY <1>1, <1>5 DEF Keeps, Waits
  <1>8. CASE q = p
    <2>1. Head1(p)' = c
      BY <1>5, <1>6 DEF Head1
    <2>2. HasRead(p)'
      BY <1>4, <1>5, <1>6, <2>1 DEF HasRead, At
    <2>3. Reads(p)
      BY <1>2, <1>4, <1>6, <1>7, <2>1, <2>2 DEF Reads, g
    <2> QED  BY <1>5, <1>6, <1>8, <2>3 DEF Sourced
  <1>9. CASE q # p
    BY <1>2, <1>6, <1>9, OthersCalm
  <1> QED  BY <1>8, <1>9

\* A load ends.
LEMMA KindMerge ==
    ASSUME SystemIInv, NEW p \in Procs, Merge(p), NEW q \in Procs
    PROVE  (IF q = p THEN Ends(q) ELSE Calm(q)) /\ Sourced(q)
  <1> DEFINE s == queue[p]
             r == Tail(s)
             new == Merged(data[p], Head1(p).got)
  <1>1. /\ s # <<>> /\ Head1(p) = s[1] /\ s[1].stage = "read" /\ s \in Seq(CallType)
        /\ \A i \in 2..Len(s) : s[i].stage = "wait"
    BY QueueIs DEF Merge, At
  <1>2. queue' = [queue EXCEPT ![p] = r]
    BY DEF Merge, Leave, SystemIInv, QueuesInv
  <1>3. /\ data'[p] = new /\ \A x \in Procs \ {p} : data'[x] = data[x]
        /\ \A x \in Procs \ {p} : last_update_time'[x] = last_update_time[x]
    BY DEF Merge, SystemIInv, CopiesInv, Clocks
  <1> HIDE DEF new
  <1>4. /\ From(s, r) /\ (r # <<>> => r[1].stage = "wait")
        /\ \A x \in CallType : Waits(s, x) => Waits(r, x) \/ x = s[1]
    BY <1>1, QueueTail
  <1>5. queue'[p] = r /\ \A x \in Procs \ {p} : queue'[x] = queue[x]
    BY <1>2, OneQueue
  <1> HIDE DEF r
  <1>6. Keeps(s, r)
    BY <1>1, <1>4 DEF Keeps, Waits
  <1>7. CASE q = p
    <2>1. Ends(p)
      BY <1>3, <1>4, <1>5, <1>6 DEF Ends, HasBegun, Head1, new
    <2> QED  BY <1>4, <1>5, <1>7, <2>1 DEF Sourced
  <1>8. CASE q # p
    BY <1>3, <1>5, <1>8, OthersCalm
  <1> QED  BY <1>7, <1>8

\* A load that fails leaves the reading as far back as it was to go.
LEMMA KindLoadFails ==
    ASSUME SystemIInv, Numbered, NEW p \in Procs, LoadFails(p), NEW q \in Procs
    PROVE  Kind(q) /\ Sourced(q)
  <1> DEFINE s == queue[p]
             r == Tail(s)
             t == Lowered(p, Head1(p).since)
  <1>1. /\ s # <<>> /\ Head1(p) = s[1] /\ Head1(p).type = "load" /\ s \in Seq(CallType)
        /\ \A i \in 2..Len(s) : s[i].stage = "wait"
    BY QueueIs DEF LoadFails, At
  <1>2. queue' = [queue EXCEPT ![p] = r] /\ data' = data
    BY DEF LoadFails, Leave, SystemIInv, QueuesInv
  <1>3. last_update_time'[p] = t /\ \A x \in Procs \ {p} : last_update_time'[x] = last_update_time[x]
    BY DEF LoadFails, SystemIInv, Clocks
  <1>4. t <= last_update_time[p] /\ (Head1(p).pub # 0 => t <= Head1(p).since)
    BY <1>1, LoweredIs
  <1> HIDE DEF t
  <1>5. /\ From(s, r) /\ (r # <<>> => r[1].stage = "wait")
        /\ \A x \in CallType : Waits(s, x) => Waits(r, x) \/ x = s[1]
    BY <1>1, QueueTail
  <1>6. queue'[p] = r /\ \A x \in Procs \ {p} : queue'[x] = queue[x]
    BY <1>2, OneQueue
  <1> HIDE DEF r
  <1>7. CASE q = p
    <2>1. ~HasBegun(p)' /\ ~At(p, "load", "reading")'
      BY <1>5, <1>6 DEF HasBegun, At, Head1
    <2>2. Lowers(p)
      BY <1>1, <1>2, <1>3, <1>4, <1>5, <1>6, <2>1 DEF Lowers
    <2> QED  BY <1>5, <1>6, <1>7, <2>2 DEF Kind, Sourced
  <1>8. CASE q # p
    BY <1>2, <1>3, <1>6, <1>8, OthersCalm DEF Kind
  <1> QED  BY <1>7, <1>8

\* Or it drops what it has read.
LEMMA KindLoadDrops ==
    ASSUME SystemIInv, NEW p \in Procs, LoadDrops(p), NEW q \in Procs
    PROVE  (IF q = p THEN Drops(q) ELSE Calm(q)) /\ Sourced(q)
  <1> DEFINE s == queue[p]
             r == Tail(s)
  <1>1. /\ s # <<>> /\ Head1(p) = s[1] /\ s[1].stage = "read" /\ s \in Seq(CallType)
        /\ \A i \in 2..Len(s) : s[i].stage = "wait"
    BY QueueIs DEF LoadDrops, At
  <1>2. queue' = [queue EXCEPT ![p] = r]
    BY DEF LoadDrops, Leave, SystemIInv, QueuesInv
  <1>3. /\ data' = data /\ db' = db
        /\ \A x \in Procs \ {p} : last_update_time'[x] = last_update_time[x]
    BY DEF LoadDrops, SystemIInv, Clocks
  <1>4. /\ From(s, r) /\ (r # <<>> => r[1].stage = "wait")
        /\ \A x \in CallType : Waits(s, x) => Waits(r, x) \/ x = s[1]
    BY <1>1, QueueTail
  <1>5. queue'[p] = r /\ \A x \in Procs \ {p} : queue'[x] = queue[x]
    BY <1>2, OneQueue
  <1> HIDE DEF r
  <1>6. Keeps(s, r)
    BY <1>1, <1>4 DEF Keeps, Waits
  <1>7. HasRead(p) /\ \A d \in Docs : Merged(data[p], Head1(p).got)[d] # data[p][d] => <<p, d>> \in lost'
    BY DEF LoadDrops, HasRead
  <1>8. CASE q = p
    <2>1. Drops(p)
      BY <1>3, <1>4, <1>5, <1>6, <1>7 DEF Drops, HasBegun, Head1
    <2> QED  BY <1>4, <1>5, <1>8, <2>1 DEF Sourced
  <1>9. CASE q # p
    BY <1>3, <1>5, <1>9, OthersCalm
  <1> QED  BY <1>8, <1>9

\* A process that starts again reads everything.
LEMMA KindRestart ==
    ASSUME SystemIInv, NEW p \in Procs, Restart(p), NEW q \in Procs
    PROVE  (IF q = p THEN Fresh(q) ELSE Calm(q)) /\ Sourced(q)
  <1> DEFINE l == Load(Undefined, 0)
             s == <<l>>
  <1>1. l \in CallType /\ l.pub = 0 /\ l.stage = "wait"
    BY CallsMade
  <1>2. queue' = [queue EXCEPT ![p] = s]
    BY DEF Restart
  <1>3. /\ \A x \in Procs \ {p} : data'[x] = data[x] /\ last_update_time'[x] = last_update_time[x]
        /\ last_update_time'[p] = 0
    BY DEF Restart, SystemIInv, CopiesInv, Clocks, Epoch
  <1> HIDE DEF l
  <1>4. queue'[p] = s /\ \A x \in Procs \ {p} : queue'[x] = queue[x]
    BY <1>2, OneQueue
  <1>5. CASE q = p
    <2>1. ~HasBegun(p)'
      BY <1>1, <1>4 DEF HasBegun, Head1
    <2>2. Sourced(p)
      BY <1>1, <1>4 DEF Sourced, From
    <2> QED  BY <1>3, <1>5, <2>1, <2>2 DEF Fresh
  <1>6. CASE q # p
    BY <1>3, <1>4, <1>6, OthersCalm
  <1> QED  BY <1>5, <1>6

\* A publication calls load of everybody who is registered.
LEMMA KindPublish ==
    ASSUME SystemIInv, Connected, NEW u \in pubs, Publish(u), NEW q \in Procs
    PROVE  /\ Calm(q)
           /\ \A i \in 1..Len(queue'[q]) :
                 \/ queue'[q][i] = Load(u.since, u.id)
                 \/ \E j \in 1..Len(queue[q]) : queue'[q][i] = queue[q][j]
           /\ \/ Waits(queue'[q], Load(u.since, u.id))
              \/ <<q, u.doc>> \in lost'
              \/ conn[q] = "new"
  <1> DEFINE l == Load(u.since, u.id)
             s == queue[q]
             r == Append(s, l)
  <1>1. l \in CallType /\ l.type = "load" /\ l.stage = "wait"
    BY CallsMade DEF SystemIInv, PubsInv, PubType
  <1>2. PICK broken \in {{}} \cup {{x} : x \in Registered} :
            /\ queue'[q] = IF q \in Registered \ broken THEN Call(q, u) ELSE s
            /\ lost' = lost \cup {<<x, u.doc>> : x \in broken \cup
                                      {y \in Procs : conn[y] \in {"closed", "open"}}}
    BY DEF Publish
  <1>3. data'[q] = data[q] /\ last_update_time'[q] = last_update_time[q] /\ s \in Seq(CallType)
    BY QueueIs DEF Publish
  <1>4. Call(q, u) = r
    BY DEF Call
  <1> HIDE DEF l
  <1>5. CASE q \in Registered \ broken
    <2>1. /\ Keeps(s, r) /\ SameHead(s, r) /\ Waits(r, l)
          /\ \A i \in 1..Len(r) : r[i] = l \/ \E j \in 1..Len(s) : r[i] = s[j]
      BY <1>1, <1>3, QueueAppend
    <2>2. queue'[q] = r
      BY <1>2, <1>4, <1>5
    <2> HIDE DEF r
    <2> QED  BY <1>3, <2>1, <2>2 DEF Calm, l
  <1>6. CASE q \notin Registered \ broken
    <2>1. queue'[q] = s
      BY <1>2, <1>6
    <2>2. Calm(q)
      BY <1>3, <2>1, QueueSame DEF Calm
    <2>3. conn[q] \in {"registered", "closed", "open", "new"}
      BY DEF Connected
    <2>4. <<q, u.doc>> \in lost' \/ conn[q] = "new"
      BY <1>2, <1>6, <2>3 DEF Registered
    <2> QED  BY <2>1, <2>2, <2>4
  <1> QED  BY <1>5, <1>6

\* Nothing happens to queues and copies.
LEMMA KindOther ==
    ASSUME SystemIInv, Tick \/ (\E p \in Procs : Ages(p) \/ Disconnect(p)) \/ UNCHANGED vars,
           NEW q \in Procs
    PROVE  Calm(q) /\ Sourced(q)
  <1>1. UNCHANGED <<queue, data, last_update_time>>
    BY DEF Tick, Ages, Disconnect, vars
  <1> QED  BY <1>1, OthersCalm

\* Every step is of one of these kinds for every process.
LEMMA Kinds ==
    ASSUME SystemIInv, Connected, Numbered, [Next]_vars, NEW q \in Procs
    PROVE  Kind(q)
  <1>1. ASSUME NEW p \in Procs, Loads(p) \/ Makes(p) \/ Fails(p) PROVE Kind(q)
    <2>1. ASSUME Apply(p) \/ LoadThrows(p) PROVE Kind(q)
      <3>1. Merge(p)
        BY <2>1 DEF Apply, LoadThrows
      <3> QED  BY <3>1, KindMerge DEF Kind
    <2> QED  BY <1>1, <2>1, KindRegister, KindRead, KindPrepare, KindWrite, KindLoadFails, KindLoadDrops,
                KindOther, KindRestart DEF Kind, Loads, Makes, Fails
  <1>2. ASSUME NEW p \in Procs,
               \/ Refresh(p) \/ Reconnect(p) \/ Ages(p)
               \/ \E op \in {"insert", "update", "remove"}, d \in Docs : MakeChanges(p, op, d)
        PROVE Kind(q)
    BY <1>2, KindCall, KindOther DEF Kind
  <1>3. ASSUME NEW u \in pubs, Publish(u) PROVE Kind(q)
    BY <1>3, KindPublish DEF Kind
  <1>4. ASSUME Tick \/ UNCHANGED vars PROVE Kind(q)
    BY <1>4, KindOther DEF Kind
  <1> QED  BY <1>1, <1>2, <1>3, <1>4 DEF Next

-----------------------------------------------------------------------------
(* What a step does to publications, and to what was lost.                 *)

\* What is to be published is published, or lost, or not for a process that starts.
SentKept(q) == \A u \in pubs : u.stage = "sent" =>
    \/ u \in pubs'
    \/ <<q, u.doc>> \in lost'
    \/ Waits(queue'[q], Load(u.since, u.id))
    \/ conn[q] = "new" /\ Calm(q)
    \/ Fresh(q)
\* What was lost stays so until a load brings it.
LostKept(q) == \A d \in Docs : <<q, d>> \in lost =>
    \/ <<q, d>> \in lost'
    \/ Ends(q) /\ data'[q][d] = Current(d)'
    \/ Fresh(q)
\* Only a process that starts has a new connection.
NewKept(q) == conn'[q] = "new" => conn[q] = "new" \/ Fresh(q)
TalkKept(q) == SentKept(q) /\ LostKept(q) /\ NewKept(q)

\* Nothing is lost where publications stay.
LEMMA TalkSame ==
    ASSUME SystemIInv, NEW q \in Procs, pubs \subseteq pubs', lost \subseteq lost',
           conn'[q] = "new" => conn[q] = "new"
    PROVE  TalkKept(q)
  BY DEF TalkKept, SentKept, LostKept, NewKept

\* Steps of calls keep publications and what was lost.
LEMMA TalkCall ==
    ASSUME SystemIInv, Connected, NEW p \in Procs,
           \/ Register(p) \/ Read(p) \/ Makes(p) \/ Refresh(p) \/ Reconnect(p) \/ Ages(p)
           \/ \E op \in {"insert", "update", "remove"}, d \in Docs : MakeChanges(p, op, d),
           NEW q \in Procs
    PROVE  TalkKept(q)
  <1>1. pubs \subseteq pubs' /\ lost \subseteq lost'
    BY DEF Register, Read, Makes, Prepare, Write, WriteFails, Refresh, Reconnect, Ages, MakeChanges
  <1>2. conn' \in {conn, [conn EXCEPT ![p] = "registered"], [conn EXCEPT ![p] = "open"]}
    BY DEF Register, Read, Makes, Prepare, Write, WriteFails, Refresh, Reconnect, Ages, MakeChanges
  <1>3. conn'[q] = "new" => conn[q] = "new"
    BY <1>2 DEF Connected
  <1> QED  BY <1>1, <1>3, TalkSame

\* The end of a load takes from what was lost only what it brought.
LEMMA TalkMerge ==
    ASSUME SystemIInv, NEW p \in Procs, Merge(p), NEW q \in Procs
    PROVE  LostKept(q)
  <1> DEFINE new == Merged(data[p], Head1(p).got)
  <1>1. lost' = lost \ {<<p, d>> : d \in {e \in Docs : new[e] = Current(e)}}
    BY DEF Merge
  <1>2. \A d \in Docs : Current(d)' = Current(d)
    BY DEF Merge, Current, Live
  <1>3. q = p => Ends(q) /\ data'[q] = new
    BY KindMerge DEF Ends
  <1> HIDE DEF new
  <1> QED  BY <1>1, <1>2, <1>3 DEF LostKept

\* And it answers the publication that called it.
LEMMA TalkApply ==
    ASSUME SystemIInv, Numbered, NEW p \in Procs, Apply(p), NEW q \in Procs
    PROVE  TalkKept(q)
  <1>1. SentKept(q)
    <2> SUFFICES ASSUME NEW u \in pubs, u.stage = "sent" PROVE u \in pubs'
      BY DEF SentKept
    <2> DEFINE id == Head1(p).pub
               w == [u EXCEPT !.loading = IF u.id = id THEN @ \ {p} ELSE @]
    <2>1. u \in PubType /\ u.loading = {}
      BY Numbers DEF Numbered
    <2>2. w = [u EXCEPT !.loading = u.loading]
      BY <2>1
    <2>3. w = u
      BY <2>1, <2>2 DEF PubType
    <2>4. w \in {[v EXCEPT !.loading = IF v.id = id THEN @ \ {p} ELSE @] : v \in pubs}
      OBVIOUS
    <2>5. pubs' = Answered(p, id)
      BY DEF Apply
    <2> HIDE DEF w
    <2> QED  BY <2>3, <2>4, <2>5 DEF Answered
  <1>2. LostKept(q) /\ NewKept(q)
    BY TalkMerge DEF Apply, NewKept
  <1> QED  BY <1>1, <1>2 DEF TalkKept

\* A load that fails closes no publication that is still to be sent.
LEMMA TalkLoadFails ==
    ASSUME SystemIInv, Connected, Numbered, NEW p \in Procs,
           LoadFails(p) \/ LoadDrops(p) \/ LoadThrows(p), NEW q \in Procs
    PROVE  TalkKept(q)
  <1>1. Unanswered(p)
    BY DEF LoadFails, LoadDrops, LoadThrows
  <1>2. ASSUME NEW u \in pubs, u.stage = "sent" PROVE u \in pubs'
    <2>1. u.loading = {}
      BY <1>2 DEF Numbered
    <2> QED  BY <1>1, <2>1 DEF Unanswered, Closed
  <1>3. LostKept(q)
    <2>1. CASE LoadThrows(p)
      BY <2>1, TalkMerge DEF LoadThrows
    <2>2. CASE LoadFails(p) \/ LoadDrops(p)
      BY <2>2 DEF LoadFails, LoadDrops, LostKept
    <2> QED  BY <2>1, <2>2
  <1>4. conn'[q] = "new" => conn[q] = "new"
    BY <1>1 DEF Unanswered, Connected
  <1> QED  BY <1>2, <1>3, <1>4 DEF TalkKept, SentKept, NewKept

\* What a lost connection takes along is lost.
LEMMA TalkDisconnect ==
    ASSUME SystemIInv, Connected, Numbered, NEW p \in Procs, Disconnect(p), NEW q \in Procs
    PROVE  TalkKept(q)
  <1>1. PICK gone \in SUBSET pubs : /\ pubs' = Closed(pubs \ gone, p)
                                    /\ lost' = lost \cup (Procs \X {u.doc : u \in gone})
    BY DEF Disconnect
  <1>2. ASSUME NEW u \in pubs, u.stage = "sent" PROVE u \in pubs' \/ <<q, u.doc>> \in lost'
    <2>1. u.loading = {}
      BY <1>2 DEF Numbered
    <2> QED  BY <1>1, <2>1 DEF Closed
  <1>3. conn'[q] = "new" => conn[q] = "new"
    BY DEF Disconnect, Connected
  <1> QED  BY <1>1, <1>2, <1>3 DEF TalkKept, SentKept, LostKept, NewKept

\* What a process that ends was to publish is lost for the others.
LEMMA TalkRestart ==
    ASSUME SystemIInv, Connected, Numbered, NEW p \in Procs, Restart(p), NEW q \in Procs
    PROVE  TalkKept(q)
  <1>1. CASE q = p
    <2>1. Fresh(q)
      BY <1>1, KindRestart
    <2> QED  BY <2>1 DEF TalkKept, SentKept, LostKept, NewKept
  <1>2. CASE q # p
    <2> DEFINE gone == {u \in pubs : u.by = p /\ u.stage = "sent"}
    <2>1. /\ pubs' = Closed(pubs \ gone, p)
          /\ lost' = {l \in lost : l[1] # p} \cup ((Procs \ {p}) \X {u.doc : u \in gone})
      BY DEF Restart
    <2> HIDE DEF gone
    <2>2. ASSUME NEW u \in pubs, u.stage = "sent" PROVE u \in pubs' \/ <<q, u.doc>> \in lost'
      <3>1. u.loading = {}
        BY <2>2 DEF Numbered
      <3> QED  BY <1>2, <2>1, <3>1 DEF Closed
    <2>3. conn'[q] = "new" => conn[q] = "new"
      BY <1>2 DEF Restart, Connected
    <2>4. \A d \in Docs : <<q, d>> \in lost => <<q, d>> \in lost'
      BY <1>2, <2>1
    <2> QED  BY <2>2, <2>3, <2>4 DEF TalkKept, SentKept, LostKept, NewKept
  <1> QED  BY <1>1, <1>2

\* Who is not told is one that starts, or it is lost.
LEMMA TalkPublish ==
    ASSUME SystemIInv, Connected, Numbered, NEW u \in pubs, Publish(u), NEW q \in Procs
    PROVE  TalkKept(q)
  <1>1. PICK broken \in {{}} \cup {{x} : x \in Registered} :
            LET reached == Registered \ broken
                sent == [u EXCEPT !.stage = "published", !.told = reached, !.loading = reached]
                rest == pubs \ {u}
            IN  /\ conn' = [x \in Procs |-> IF x \in broken THEN "closed" ELSE conn[x]]
                /\ pubs' = IF broken # {} THEN {v \in rest : v.loading \cap broken = {}}
                           ELSE IF reached # {} THEN rest \cup {sent} ELSE rest
                /\ lost' = lost \cup {<<x, u.doc>> : x \in broken \cup
                                          {r \in Procs : conn[r] \in {"closed", "open"}}}
    BY DEF Publish
  <1>2. ASSUME NEW v \in pubs, v.stage = "sent", v # u PROVE v \in pubs'
    <2>1. v.loading = {}
      BY <1>2 DEF Numbered
    <2> QED  BY <1>1, <1>2, <2>1
  <1>3. /\ Calm(q)
        /\ \/ Waits(queue'[q], Load(u.since, u.id))
           \/ <<q, u.doc>> \in lost'
           \/ conn[q] = "new"
    BY KindPublish
  <1>4. SentKept(q)
    BY <1>2, <1>3 DEF SentKept
  <1>5. LostKept(q) /\ NewKept(q)
    BY <1>1 DEF LostKept, NewKept
  <1> QED  BY <1>4, <1>5 DEF TalkKept

\* Every step keeps publications, and what was lost.
LEMMA Talk ==
    ASSUME SystemIInv, Connected, Numbered, [Next]_vars, NEW q \in Procs
    PROVE  TalkKept(q)
  <1>1. ASSUME NEW p \in Procs, Loads(p) \/ Makes(p) \/ Fails(p) PROVE TalkKept(q)
    BY <1>1, TalkCall, TalkApply, TalkLoadFails, TalkDisconnect, TalkRestart DEF Loads, Fails
  <1>2. ASSUME NEW p \in Procs,
               \/ Refresh(p) \/ Reconnect(p) \/ Ages(p)
               \/ \E op \in {"insert", "update", "remove"}, d \in Docs : MakeChanges(p, op, d)
        PROVE TalkKept(q)
    BY <1>2, TalkCall
  <1>3. ASSUME Tick \/ UNCHANGED vars PROVE TalkKept(q)
    <2>1. UNCHANGED <<pubs, lost, conn>>
      BY <1>3 DEF Tick, vars
    <2> QED  BY <2>1, TalkSame
  <1> QED  BY <1>1, <1>2, <1>3, TalkPublish DEF Next

-----------------------------------------------------------------------------
(* What a step does to documents, and to what a process is yet to hear of. *)

\* Who changes a document has it published, or it is lost.
DbMoves ==
    /\ NewerDocs(db, db')
    /\ \A d \in Docs : db'[d] = db[d] \/ \A q \in Procs : Coming(q, d, db[d].at)'

\* Documents that stay.
LEMMA DbSame == ASSUME SystemIInv, db' = db PROVE DbMoves
  BY Numbers DEF DbMoves, NewerDocs

\* Every step moves documents only so.
LEMMA DbChanges ==
    ASSUME SystemIInv, [Next]_vars
    PROVE  DbMoves /\ changes <= changes'
  <1>1. ASSUME NEW p \in Procs, Write(p) \/ WriteFails(p), Written(Head1(p)),
               ~(Head1(p).op = "insert" /\ Taken(Head1(p).doc))
        PROVE  DbMoves /\ changes <= changes'
    <2> DEFINE c == Head1(p)
    <2>1. c \in ChangeCall /\ CallSound(c, db)
      BY <1>1, QueueFacts, QueueIs DEF Write, WriteFails, At
    <2>2. NewerDocs(db, db') /\ changes \in Nat /\ changes' = changes + 1
      BY <1>1, <2>1, WrittenDocs, Numbers
    <2>3. c.doc \in Docs /\ c.stamp \in Nat
      BY <2>1, Numbers DEF ChangeCall
    <2>4. /\ db'[c.doc].at = c.stamp
          /\ \A d \in Docs \ {c.doc} : db'[d] = db[d]
      BY <1>1, <2>3 DEF Written, SystemIInv, DocsInv
    <2>5. ASSUME NEW d \in Docs, d = c.doc, NEW q \in Procs PROVE Coming(q, d, db[d].at)'
      <3>1. CASE Write(p)
        <4> DEFINE u == [id |-> changes + 1, by |-> p, doc |-> c.doc, since |-> c.stamp,
                         stage |-> "sent", told |-> {}, loading |-> {}]
        <4>1. u \in pubs' /\ u.stage = "sent" /\ u.doc = c.doc /\ u.since = c.stamp
          BY <3>1 DEF Write
        <4> HIDE DEF u
        <4>2. u.doc = d /\ u.since <= db'[d].at
          BY <2>3, <2>4, <2>5, <4>1
        <4> QED  BY <4>1, <4>2 DEF Coming
      <3>2. CASE WriteFails(p)
        <4>1. changes' # changes
          BY <2>2
        <4>2. <<q, d>> \in lost'
          BY <2>3, <2>5, <3>2, <4>1 DEF WriteFails
        <4> QED  BY <4>2 DEF Coming
      <3> QED  BY <1>1, <3>1, <3>2
    <2> QED  BY <2>2, <2>3, <2>4, <2>5 DEF DbMoves
  <1>2. \/ db' = db /\ changes' = changes
        \/ \E p \in Procs : /\ Write(p) \/ WriteFails(p)
                            /\ Written(Head1(p)) /\ ~(Head1(p).op = "insert" /\ Taken(Head1(p).doc))
    BY DEF Next, vars, Loads, Makes, Fails, Register, Read, Apply, Merge, Prepare, Write, WriteFails,
           LoadFails, LoadDrops, LoadThrows, Disconnect, Restart, Refresh, Reconnect, Ages, MakeChanges,
           Publish, Tick
  <1>3. changes \in Nat
    BY Numbers
  <1> QED  BY <1>1, <1>2, <1>3, DbSame

\* What a process is yet to hear of it is still to hear of, unless a load brought it, or
\* the next load is to go back to it.
LEMMA ComingKept ==
    ASSUME SystemIInv, SystemIInv', Connected, Numbered, [Next]_vars, NEW q \in Procs, CopySound(q),
           NEW d \in Docs, NEW t \in Int, Coming(q, d, t)
    PROVE  \/ Coming(q, d, t)'
           \/ Ends(q) /\ data'[q][d] = Current(d)'
           \/ ~HasRead(q)' /\ (last_update_time'[q] <= t \/ last_update_time'[q] = 0)
  <1>1. Kind(q) /\ SentKept(q) /\ LostKept(q)
    BY Kinds, Talk DEF TalkKept
  <1>2. /\ ~HasBegun(q)' => ~HasRead(q)'
        /\ Fresh(q) => last_update_time'[q] = 0 /\ ~HasRead(q)'
        /\ conn[q] = "new" /\ Calm(q) => last_update_time'[q] = 0 /\ ~HasRead(q)'
    <2>1. ~HasBegun(q)' => ~HasRead(q)'
      BY DEF HasBegun, HasRead, At
    <2>2. ASSUME conn[q] = "new", Calm(q) PROVE last_update_time'[q] = 0 /\ ~HasBegun(q)'
      <3>1. last_update_time[q] = 0 /\ ~HasBegun(q)
        BY <2>2 DEF CopySound
      <3> QED  BY <2>2, <3>1 DEF Calm, SameHead, HasBegun, Head1
    <2> QED  BY <2>1, <2>2 DEF Fresh
  <1>3. ASSUME NEW c \in CallType, Waits(queue'[q], c), c.pub # 0, c.since <= t
        PROVE  Coming(q, d, t)'
    BY <1>3 DEF Coming, Waits
  <1>4. CASE <<q, d>> \in lost
    BY <1>1, <1>2, <1>4 DEF LostKept, Coming
  <1>5. ASSUME NEW u \in pubs, u.stage = "sent", u.doc = d, u.since <= t
        PROVE  \/ Coming(q, d, t)'
               \/ ~HasRead(q)' /\ (last_update_time'[q] <= t \/ last_update_time'[q] = 0)
    <2> DEFINE l == Load(u.since, u.id)
    <2>1. l \in CallType /\ l.pub = u.id /\ l.since = u.since /\ u.id # 0
      <3>1. u.id \in Nat /\ u.since \in Times /\ u.id > 0
        BY Numbers DEF Numbered, PubType
      <3> QED  BY <3>1, CallsMade DEF Load
    <2>2. Waits(queue'[q], l) => Coming(q, d, t)'
      BY <1>3, <1>5, <2>1
    <2>3. u \in pubs' \/ <<q, d>> \in lost' => Coming(q, d, t)'
      BY <1>5 DEF Coming
    <2> HIDE DEF l
    <2> QED  BY <1>1, <1>2, <1>5, <2>2, <2>3 DEF SentKept, l
  <1>6. ASSUME NEW i \in 1..Len(queue[q]), queue[q][i].type = "load", queue[q][i].stage = "wait",
               queue[q][i].pub # 0, queue[q][i].since <= t
        PROVE  \/ Coming(q, d, t)'
               \/ ~HasRead(q)' /\ (last_update_time'[q] <= t \/ last_update_time'[q] = 0)
    <2> DEFINE c == queue[q][i]
    <2>1. c \in CallType /\ Waits(queue[q], c)
      BY <1>6, QueueFacts DEF Waits
    <2>2. c.since \in Int /\ last_update_time'[q] \in Int
      <3>1. c.since \in Times \cup {Undefined} /\ Times \subseteq Nat
        BY <1>6, <2>1, CallFields, Numbers
      <3>3. last_update_time'[q] \in Int
        BY ReadingsAfter
      <3>4. c.since \in Nat \/ c.since = -1
        BY <3>1 DEF Undefined
      <3> QED  BY <3>3, <3>4
    <2> HIDE DEF c
    <2>3. c.since <= t /\ c.pub # 0
      BY <1>6 DEF c
    <2>4. Waits(queue'[q], c) => Coming(q, d, t)'
      BY <1>3, <2>1, <2>3
    <2>5. CASE Calm(q) \/ Reads(q) \/ Ends(q) \/ Drops(q)
      BY <2>1, <2>4, <2>5 DEF Calm, Reads, Ends, Drops, Keeps
    <2>6. CASE Lowers(q)
      <3>1. ~HasRead(q)'
        BY <2>6 DEF Lowers, HasBegun, HasRead, At
      <3>2. Waits(queue'[q], c) \/ last_update_time'[q] <= c.since
        BY <2>1, <2>3, <2>6 DEF Lowers
      <3> QED  BY <2>2, <2>3, <2>4, <3>1, <3>2
    <2>7. CASE Fresh(q)
      BY <1>2, <2>7
    <2> QED  BY <1>1, <2>5, <2>6, <2>7 DEF Kind
  <1> QED  BY <1>4, <1>5, <1>6 DEF Coming

-----------------------------------------------------------------------------
(* Copies.                                                                 *)

\* What a load has just read.
LEMMA ReadIs ==
    ASSUME SystemIInv, NEW q \in Procs, Reads(q), NEW d \in Docs
    PROVE  /\ Merged(data'[q], Head1(q)'.got)[d] = IF Newer(q, d) THEN Current(d) ELSE data[q][d]
           /\ db' = db /\ At(q, "load", "reading")
  <1> DEFINE g == Head1(q)'.got
  <1>1. g[d] = IF Newer(q, d) THEN [ver |-> db[d].ver, deleted |-> db[d].deleted] ELSE None
    BY DEF Reads
  <1>2. data'[q] = data[q] /\ db' = db /\ At(q, "load", "reading")
    BY DEF Reads, Read
  <1>3. db[d].ver \in Nat /\ db[d].deleted \in BOOLEAN
    BY Numbers
  <1>4. Merged(data[q], g)[d] = IF g[d] = None THEN data[q][d]
                                ELSE IF g[d].deleted THEN 0 ELSE g[d].ver
    BY DEF Merged
  <1> HIDE DEF g
  <1>5. CASE Newer(q, d)
    <2>1. g[d].ver = db[d].ver /\ g[d].deleted = db[d].deleted /\ db[d].ver > 0
      BY <1>1, <1>5 DEF Newer
    <2>2. g[d] # None
      BY <1>3, <2>1 DEF None
    <2> QED  BY <1>2, <1>4, <1>5, <2>1, <2>2 DEF Current, Live, g
  <1>6. CASE ~Newer(q, d)
    BY <1>1, <1>2, <1>4, <1>6 DEF g
  <1> QED  BY <1>2, <1>5, <1>6

\* What a calm step leaves of a load that has read.
LEMMA CalmRead ==
    ASSUME SystemIInv, NEW q \in Procs, Kind(q), HasRead(q)'
    PROVE  \/ Calm(q) /\ HasRead(q) /\ Head1(q)' = Head1(q) /\ data'[q] = data[q]
           \/ Reads(q)
  <1>1. HasBegun(q)'
    BY DEF HasBegun, HasRead, At
  <1>2. ~Ends(q) /\ ~Fresh(q) /\ ~Drops(q)
    BY <1>1 DEF Ends, Fresh, Drops
  <1>3. ~Lowers(q)
    BY <1>1 DEF Lowers, HasRead, At
  <1>4. CASE Calm(q)
    BY <1>4 DEF Calm, SameHead, HasRead, At, Head1
  <1> QED  BY <1>2, <1>3, <1>4 DEF Kind

\* A copy stays up to date in this sense.
LEMMA UpToDateKept ==
    ASSUME SystemIInv, SystemIInv', Connected, Numbered, [Next]_vars, NEW q \in Procs, CopySound(q),
           NEW d \in Docs
    PROVE  UpToDate(q, d)'
  <1>1. CASE Coming(q, d, db[d].at)'
    BY <1>1 DEF UpToDate
  <1>2. CASE db'[d] = db[d]
    <2>1. Current(d)' = Current(d)
      BY <1>2 DEF Current, Live
    <2>2. /\ db[d].at \in Nat /\ last_update_time[q] \in Nat
          /\ Kind(q) /\ UpToDate(q, d) /\ (HasRead(q) => WillBe(q, d))
      BY Numbers, Kinds DEF CopySound
    <2>3. last_update_time'[q] \in Nat
      BY ReadingsAfter
    <2>4. CASE Coming(q, d, db[d].at)
      <3>1. \/ Coming(q, d, db[d].at)'
            \/ data'[q][d] = Current(d)'
            \/ last_update_time'[q] <= db[d].at \/ last_update_time'[q] = 0
        <4> DEFINE t == db[d].at
        <4>1. t \in Int /\ Coming(q, d, t)
          BY <2>2, <2>4
        <4>2. t' = t
          BY <1>2
        <4> QED  BY <4>1, <4>2, <2>2, <2>4, ComingKept
      <3> QED  BY <1>2, <2>2, <3>1 DEF UpToDate
    <2>5. CASE Ends(q)
      <3>1. HasRead(q) /\ data'[q] = Merged(data[q], Head1(q).got)
        BY <2>5 DEF Ends, Merge, HasRead
      <3> QED  BY <2>1, <2>2, <2>4, <3>1 DEF WillBe, UpToDate
    <2>8. CASE Drops(q)
      <3>1. HasRead(q) /\ data'[q] = data[q]
        BY <2>8 DEF Drops
      <3>2. CASE Merged(data[q], Head1(q).got)[d] = data[q][d]
        BY <2>1, <2>2, <2>4, <3>1, <3>2 DEF WillBe, UpToDate
      <3>3. CASE <<q, d>> \in lost'
        BY <3>3 DEF UpToDate, Coming
      <3> QED  BY <2>8, <3>2, <3>3 DEF Drops
    <2>6. CASE Fresh(q)
      BY <1>2, <2>2, <2>6 DEF Fresh, UpToDate
    <2>7. CASE Calm(q) \/ Lowers(q) \/ Reads(q)
      <3>1. data'[q] = data[q] /\ last_update_time'[q] <= last_update_time[q]
        BY <2>2, <2>7 DEF Calm, Lowers, Reads
      <3>2. last_update_time[q] <= db[d].at => last_update_time'[q] <= db'[d].at
        BY <1>2, <2>2, <2>3, <3>1
      <3> QED  BY <2>1, <2>2, <2>4, <3>1, <3>2 DEF UpToDate
    <2> QED  BY <2>2, <2>5, <2>6, <2>7, <2>8 DEF Kind
  <1>3. DbMoves
    BY DbChanges
  <1> QED  BY <1>1, <1>2, <1>3 DEF DbMoves

\* So does what a load has read.
LEMMA WillBeKept ==
    ASSUME SystemIInv, SystemIInv', Connected, Numbered, [Next]_vars, NEW q \in Procs, CopySound(q),
           NEW d \in Docs, HasRead(q)'
    PROVE  WillBe(q, d)'
  <1>1. CASE Coming(q, d, db[d].at)'
    BY <1>1 DEF WillBe
  <1>2. CASE db'[d] = db[d]
    <2>1. Current(d)' = Current(d)
      BY <1>2 DEF Current, Live
    <2>2. /\ db[d].at \in Nat /\ db[d].ver \in Nat /\ last_update_time[q] \in Nat
          /\ data[q][d] \in Nat /\ data[q][d] <= db[d].ver
          /\ Kind(q) /\ UpToDate(q, d) /\ (HasRead(q) => WillBe(q, d))
      BY Numbers, Kinds DEF CopySound
    <2>3. CASE Coming(q, d, db[d].at)
      <3>1. Coming(q, d, db[d].at)'
        <4> DEFINE t == db[d].at
        <4>1. t \in Int /\ Coming(q, d, t)
          BY <2>2, <2>3
        <4>2. t' = t
          BY <1>2
        <4>3. ~Ends(q)
          BY DEF Ends, HasBegun, HasRead, At
        <4> QED  BY <4>1, <4>2, <4>3, <2>2, <2>3, ComingKept
      <3> QED  BY <1>1, <3>1
    <2>4. CASE Calm(q) /\ HasRead(q) /\ Head1(q)' = Head1(q) /\ data'[q] = data[q]
      BY <2>1, <2>2, <2>3, <2>4 DEF WillBe
    <2>5. CASE Reads(q)
      <3> DEFINE new == Merged(data'[q], Head1(q)'.got)
      <3>1. new[d] = IF Newer(q, d) THEN Current(d) ELSE data[q][d]
        BY <2>5, ReadIs
      <3> HIDE DEF new
      <3>2. new[d] = Current(d) \/ Coming(q, d, db[d].at)
        BY <2>2, <3>1 DEF UpToDate, Newer, Current, Live
      <3> QED  BY <2>1, <2>3, <3>2 DEF WillBe, new
    <2> QED  BY <2>2, <2>4, <2>5, CalmRead
  <1>3. DbMoves
    BY DbChanges
  <1> QED  BY <1>1, <1>2, <1>3 DEF DbMoves

\* The same of all that is said of a copy.
LEMMA CopyKept ==
    ASSUME SystemIInv, SystemIInv', Connected, Numbered, [Next]_vars, NEW q \in Procs, CopySound(q)
    PROVE  CopySound(q)'
  <1>1. ASSUME NEW d \in Docs PROVE UpToDate(q, d)' /\ (HasRead(q)' => WillBe(q, d)')
    BY UpToDateKept, WillBeKept
  <1>2. Kind(q) /\ NewKept(q) /\ last_update_time[q] \in Nat
    BY Kinds, Talk, Numbers DEF TalkKept
  <1>3. last_update_time'[q] \in Nat
    BY ReadingsAfter
  <1>4. ASSUME At(q, "load", "reading")', Head1(q)'.pub # 0
        PROVE  last_update_time'[q] <= Head1(q)'.since
    <2>1. HasBegun(q)' /\ ~HasRead(q)'
      BY <1>4 DEF HasBegun, HasRead, At
    <2>2. CASE Calm(q)
      <3>1. At(q, "load", "reading") /\ Head1(q)' = Head1(q) /\ last_update_time'[q] = last_update_time[q]
        BY <1>4, <2>2 DEF Calm, SameHead, At, Head1
      <3> QED  BY <1>4, <3>1 DEF CopySound
    <2>3. CASE Lowers(q)
      BY <1>4, <2>3 DEF Lowers
    <2>4. ~Fresh(q) /\ ~Ends(q) /\ ~Drops(q)
      BY <2>1 DEF Fresh, Ends, Drops
    <2>5. ~Reads(q)
      BY <2>1 DEF Reads
    <2> QED  BY <1>2, <2>2, <2>3, <2>4, <2>5 DEF Kind
  <1>5. ASSUME conn'[q] = "new"
        PROVE  last_update_time'[q] = 0 /\ ~HasBegun(q)'
    <2>1. CASE Fresh(q)
      BY <2>1 DEF Fresh
    <2>2. CASE conn[q] = "new"
      <3>1. last_update_time[q] = 0 /\ ~HasBegun(q)
        BY <2>2 DEF CopySound
      <3>2. ~Reads(q) /\ ~Ends(q) /\ ~Drops(q)
        BY <3>1 DEF Reads, Ends, Drops, Read, Merge, HasRead, HasBegun, At
      <3>3. CASE Calm(q)
        BY <3>1, <3>3 DEF Calm, SameHead, HasBegun, Head1
      <3>4. CASE Lowers(q)
        BY <1>3, <1>5, <3>1, <3>4 DEF Lowers
      <3> QED  BY <1>2, <2>1, <3>2, <3>3, <3>4 DEF Kind
    <2> QED  BY <1>2, <1>5, <2>1, <2>2 DEF NewKept
  <1> QED  BY <1>1, <1>4, <1>5 DEF CopySound

-----------------------------------------------------------------------------
(* Answers.                                                                *)

\* Who has the last version of a document has seen those before it.
LEMMA CurrentSeen ==
    ASSUME SystemIInv, NEW d \in Docs, NEW copy, copy[d] = Current(d),
           NEW ver \in Nat, ver > 0, ver <= db[d].ver
    PROVE  SeenIn(copy, d, ver)
  <1>1. db[d].ver \in Nat /\ db[d].deleted \in BOOLEAN
    BY Numbers
  <1> QED  BY <1>1 DEF SeenIn, Current, Live

\* What is to be taken back further is taken back.
LEMMA ComingLater ==
    ASSUME SystemIInv, NEW q \in Procs, NEW d, NEW a \in Nat, NEW b \in Int, a <= b, Coming(q, d, a)
    PROVE  Coming(q, d, b)
  <1>1. \A u \in pubs : u.since \in Nat
    BY Numbers
  <1>2. \A i \in 1..Len(queue[q]) : queue[q][i].type = "load" => queue[q][i].since \in Nat \cup {-1}
    <2>1. \A i \in 1..Len(queue[q]) : queue[q][i] \in CallType
      BY QueueFacts
    <2>2. \A c \in CallType : c.type = "load" => c.since \in Times \cup {Undefined}
      BY CallFields
    <2> QED  BY <2>1, <2>2, Numbers DEF Undefined
  <1>3. \A x \in Nat \cup {-1} : x <= a => x <= b
    OBVIOUS
  <1> QED  BY <1>1, <1>2, <1>3 DEF Coming

\* A copy is to be read from a stamp that is not after that of the publication.
LEMMA ReadsBack ==
    ASSUME SystemIInv, NEW q \in Procs, CopySound(q), Reads(q), NEW d \in Docs,
           NEW ver \in Nat, ver > 0, ver <= db[d].ver, NEW t \in Nat, last_update_time[q] <= t
    PROVE  /\ SeenIn(Merged(data'[q], Head1(q)'.got), d, ver) \/ Coming(q, d, t - 1)
           /\ db' = db
  <1> DEFINE new == Merged(data'[q], Head1(q)'.got)
  <1>1. new[d] = (IF Newer(q, d) THEN Current(d) ELSE data[q][d]) /\ db' = db
    BY ReadIs
  <1>2. /\ db[d].at \in Nat /\ last_update_time[q] \in Nat /\ db[d].ver \in Nat /\ UpToDate(q, d)
        /\ data[q][d] \in Nat
    BY Numbers DEF CopySound
  <1> HIDE DEF new
  <1>3. CASE new[d] = Current(d)
    <2>1. SeenIn(new, d, ver)
      BY <1>3, CurrentSeen
    <2> QED  BY <1>1, <2>1 DEF new
  <1>4. CASE new[d] # Current(d)
    <2>1. ~Newer(q, d) /\ data[q][d] # Current(d)
      BY <1>1, <1>4
    <2>2. db[d].at < last_update_time[q] /\ db[d].at <= t - 1
      BY <1>2, <2>1 DEF Newer
    <2>3. Coming(q, d, db[d].at)
      BY <1>2, <2>1, <2>2 DEF UpToDate
    <2>4. Coming(q, d, t - 1)
      BY <1>2, <2>2, <2>3, ComingLater
    <2> QED  BY <1>1, <2>4
  <1> QED  BY <1>3, <1>4

\* Who has heard of a version has heard of it after a step.
LEMMA HeardKept ==
    ASSUME SystemIInv, SystemIInv', Connected, Numbered, [Next]_vars, NEW q \in Procs, CopySound(q),
           NEW d \in Docs, NEW ver \in Nat, ver > 0, ver <= db[d].ver, NEW t \in Nat,
           ~Ends(q) => Heard(q, d, ver, t),
           Ends(q) \/ Drops(q) => WillHear(q, d, ver, t)
    PROVE  Heard(q, d, ver, t)'
  <1>1. DbMoves /\ Kind(q) /\ last_update_time[q] \in Nat /\ last_update_time'[q] \in Nat /\ t - 1 \in Int
    BY DbChanges, Kinds, Numbers, ReadingsAfter
  <1>2. ver <= db'[d].ver
    <2>1. db[d].ver \in Nat /\ db[d].ver <= db'[d].ver
      BY <1>1, Numbers DEF DbMoves, NewerDocs
    <2>2. db'[d].ver \in Nat
      BY DEF SystemIInv, DocsInv, Document
    <2> QED  BY <2>1, <2>2
  <1>3. CASE Coming(q, d, t - 1)
    <2>1. CASE Ends(q) /\ data'[q][d] = Current(d)'
      <3>1. db' = db
        BY <2>1 DEF Ends, Merge
      <3>2. data'[q][d] = Current(d)
        BY <2>1, <3>1 DEF Current, Live
      <3>3. SeenIn(data'[q], d, ver)
        BY <3>2, CurrentSeen
      <3> QED  BY <3>1, <3>3 DEF SeenIn, Heard
    <2>2. CASE Coming(q, d, t - 1)'
      BY <2>2 DEF Heard
    <2>3. CASE last_update_time'[q] <= t - 1 \/ last_update_time'[q] = 0
      <3>1. last_update_time'[q] <= t
        BY <1>1, <2>3
      <3> QED  BY <3>1 DEF Heard
    <2> QED  BY <1>1, <1>3, <2>1, <2>2, <2>3, ComingKept
  <1>4. CASE Ends(q)
    <2>1. /\ data'[q] = Merged(data[q], Head1(q).got) /\ db' = db
          /\ SeenIn(Merged(data[q], Head1(q).got), d, ver) \/ Coming(q, d, t - 1)
      BY <1>4 DEF Ends, Merge, WillHear
    <2> QED  BY <1>3, <2>1 DEF Heard, SeenIn
  <1>7. CASE Drops(q)
    <2>1. /\ data'[q] = data[q] /\ db' = db
          /\ SeenIn(Merged(data[q], Head1(q).got), d, ver) \/ Coming(q, d, t - 1)
      BY <1>7 DEF Drops, WillHear
    <2>2. CASE Merged(data[q], Head1(q).got)[d] = data[q][d]
      BY <1>3, <2>1, <2>2 DEF Heard, SeenIn
    <2>3. CASE <<q, d>> \in lost'
      BY <2>3 DEF Heard, Coming
    <2> QED  BY <1>7, <2>2, <2>3 DEF Drops
  <1>5. CASE Fresh(q)
    BY <1>5 DEF Fresh, Heard
  <1>6. CASE ~Ends(q) /\ (Calm(q) \/ Lowers(q) \/ Reads(q))
    <2>1. data'[q] = data[q] /\ last_update_time'[q] <= last_update_time[q]
      BY <1>1, <1>6 DEF Calm, Lowers, Reads
    <2>2. CASE SeenIn(data[q], d, ver)
      <3>1. data'[q][d] >= ver \/ (data'[q][d] = 0 /\ db'[d].deleted = TRUE)
        BY <1>1, <2>1, <2>2 DEF SeenIn, DbMoves, NewerDocs
      <3> QED  BY <3>1 DEF Heard, SeenIn
    <2>3. CASE last_update_time[q] <= t
      <3>1. last_update_time'[q] <= t
        BY <1>1, <2>1, <2>3
      <3> QED  BY <3>1 DEF Heard
    <2> QED  BY <1>3, <1>6, <2>2, <2>3 DEF Heard
  <1> QED  BY <1>1, <1>4, <1>5, <1>6, <1>7 DEF Kind

\* And so has a load that has read.
LEMMA WillHearKept ==
    ASSUME SystemIInv, SystemIInv', Connected, Numbered, [Next]_vars, NEW q \in Procs, CopySound(q),
           NEW d \in Docs, NEW ver \in Nat, ver > 0, ver <= db[d].ver, NEW t \in Nat, HasRead(q)',
           ~Reads(q) => WillHear(q, d, ver, t),
           Reads(q) => Heard(q, d, ver, t) \/ last_update_time[q] <= t
    PROVE  WillHear(q, d, ver, t)'
  <1>1. DbMoves /\ Kind(q) /\ t - 1 \in Int /\ ~Ends(q)
    <2>1. ~Ends(q)
      BY DEF Ends, HasBegun, HasRead, At
    <2> QED  BY <2>1, DbChanges, Kinds
  <1>2. CASE Coming(q, d, t - 1)
    <2>1. Coming(q, d, t - 1)'
      BY <1>1, <1>2, ComingKept
    <2> QED  BY <2>1 DEF WillHear
  <1>3. CASE ~Reads(q) /\ Head1(q)' = Head1(q) /\ data'[q] = data[q]
    <2> DEFINE new == Merged(data[q], Head1(q).got)
    <2>1. new' = new
      BY <1>3 DEF Merged
    <2>2. SeenIn(new, d, ver) \/ Coming(q, d, t - 1)
      BY <1>3 DEF WillHear
    <2> HIDE DEF new
    <2>3. SeenIn(new, d, ver) => SeenIn(new, d, ver)'
      BY <1>1, <2>1 DEF SeenIn, DbMoves, NewerDocs
    <2> QED  BY <1>2, <2>2, <2>3 DEF WillHear, new
  <1>4. CASE Reads(q)
    <2>1. CASE last_update_time[q] <= t
      <3> DEFINE new == Merged(data'[q], Head1(q)'.got)
      <3>1. (SeenIn(new, d, ver) \/ Coming(q, d, t - 1)) /\ db' = db
        BY <1>4, <2>1, ReadsBack
      <3> HIDE DEF new
      <3> QED  BY <1>2, <3>1 DEF SeenIn, WillHear, new
    <2>2. CASE SeenIn(data[q], d, ver)
      <3> DEFINE new == Merged(data'[q], Head1(q)'.got)
      <3>1. new[d] = (IF Newer(q, d) THEN Current(d) ELSE data[q][d]) /\ db' = db
        BY <1>4, ReadIs
      <3> HIDE DEF new
      <3>2. SeenIn(new, d, ver)
        <4>1. CASE new[d] = Current(d)
          BY <4>1, CurrentSeen
        <4>2. CASE new[d] = data[q][d]
          BY <2>2, <4>2 DEF SeenIn
        <4> QED  BY <3>1, <4>1, <4>2
      <3> QED  BY <3>1, <3>2 DEF SeenIn, WillHear, new
    <2> QED  BY <1>2, <1>4, <2>1, <2>2 DEF Heard
  <1> QED  BY <1>1, <1>3, <1>4, CalmRead

\* A process that a publication told answers, or has answered.
LEMMA AnswersKept ==
    ASSUME SystemIInv, SystemIInv', Connected, Numbered, [Next]_vars,
           NEW u \in pubs, u.stage = "published", NEW q \in u.told, CopySound(q), Answers(q, u)
    PROVE  /\ q \notin u.loading \/ (Ends(q) /\ Head1(q).pub = u.id)
                 => Heard(q, u.doc, u.id, u.since)'
           /\ HasRead(q)' /\ (q \notin u.loading \/ Head1(q)'.pub = u.id)
                 => WillHear(q, u.doc, u.id, u.since)'
  <1>1. /\ q \in Procs /\ u.doc \in Docs /\ u.id \in Nat /\ u.id > 0 /\ u.id <= db[u.doc].ver
        /\ u.since \in Nat
    BY Numbers DEF Numbered
  <1>2. Ends(q) \/ Drops(q) => HasRead(q)
    BY DEF Ends, Drops, Merge, HasRead
  <1>3. ASSUME q \notin u.loading \/ (Ends(q) /\ Head1(q).pub = u.id)
        PROVE  Heard(q, u.doc, u.id, u.since)'
    <2>1. /\ ~Ends(q) => Heard(q, u.doc, u.id, u.since)
          /\ Ends(q) \/ Drops(q) => WillHear(q, u.doc, u.id, u.since)
      BY <1>2, <1>3 DEF Answers
    <2> QED  BY <1>1, <2>1, HeardKept
  <1>4. ASSUME HasRead(q)', q \notin u.loading \/ Head1(q)'.pub = u.id
        PROVE  WillHear(q, u.doc, u.id, u.since)'
    <2>1. ~Reads(q) => WillHear(q, u.doc, u.id, u.since)
      <3>1. Kind(q)
        BY <1>1, Kinds
      <3> QED  BY <1>1, <1>4, <3>1, CalmRead DEF Answers
    <2>2. Reads(q) => Heard(q, u.doc, u.id, u.since) \/ last_update_time[q] <= u.since
      <3> SUFFICES ASSUME Reads(q), q \in u.loading PROVE last_update_time[q] <= u.since
        BY DEF Answers
      <3>1. At(q, "load", "reading") /\ Head1(q).pub = u.id
        BY <1>4 DEF Reads, Read
      <3>2. last_update_time[q] <= Head1(q).since
        BY <1>1, <3>1 DEF CopySound
      <3>3. LoadSound(Head1(q))
        <4>1. 1 \in 1..Len(queue[q])
          BY <1>1, <3>1, QueueIs DEF At
        <4> QED  BY <1>1, <4>1 DEF Numbered, Head1
      <3> QED  BY <3>1, <3>2, <3>3 DEF LoadSound, At
    <2> QED  BY <1>1, <1>4, <2>1, <2>2, WillHearKept
  <1> QED  BY <1>3, <1>4

\* What becomes of a publication: nothing but that a load which it waits for ends.
Stays(v, u) ==
    /\ v.id = u.id /\ v.doc = u.doc /\ v.since = u.since /\ v.told = u.told /\ v.stage = u.stage
    /\ v.loading \subseteq u.loading
    /\ \A q \in u.told : q \notin v.loading => q \notin u.loading \/ (Ends(q) /\ Head1(q).pub = u.id)
PubsStay ==
    /\ \A v \in pubs' : \E u \in pubs : Stays(v, u)
    /\ \A v, w \in pubs' : v.id = w.id => v = w
    /\ \A q \in Procs : Sourced(q)

\* Publications that stay or go.
LEMMA PubsFewer ==
    ASSUME Numbered, pubs' \subseteq pubs, \A q \in Procs : Sourced(q)
    PROVE  PubsStay
  BY DEF PubsStay, Stays, Numbered

\* The end of a load.
LEMMA PubsApply ==
    ASSUME SystemIInv, Numbered, NEW p \in Procs, Apply(p)
    PROVE  PubsStay
  <1> DEFINE id == Head1(p).pub
             one(v) == [v EXCEPT !.loading = IF v.id = id THEN @ \ {p} ELSE @]
  <1>1. pubs' \subseteq {one(v) : v \in pubs}
    BY DEF Apply, Answered
  <1>2. Ends(p) /\ \A q \in Procs : Sourced(q)
    BY KindMerge DEF Apply
  <1> HIDE DEF id
  <1>3. ASSUME NEW u \in pubs
        PROVE  /\ one(u).id = u.id /\ one(u).doc = u.doc /\ one(u).since = u.since
               /\ one(u).told = u.told /\ one(u).stage = u.stage
               /\ one(u).loading = IF u.id = id THEN u.loading \ {p} ELSE u.loading
    <2>1. u \in PubType
      BY Numbers
    <2> QED  BY <2>1 DEF PubType
  <1> HIDE DEF one
  <1>4. ASSUME NEW u \in pubs PROVE Stays(one(u), u)
    <2>1. one(u).loading \subseteq u.loading
      BY <1>3
    <2>2. \A q \in u.told : q \notin one(u).loading => q \notin u.loading \/ (q = p /\ u.id = id)
      BY <1>3
    <2> QED  BY <1>2, <1>3, <2>1, <2>2 DEF Stays, id
  <1>5. ASSUME NEW v \in pubs', NEW w \in pubs', v.id = w.id PROVE v = w
    <2>1. PICK a \in pubs : v = one(a)
      BY <1>1
    <2>2. PICK b \in pubs : w = one(b)
      BY <1>1
    <2>3. one(a).id = a.id /\ one(b).id = b.id
      BY <1>3
    <2>4. a.id = b.id
      BY <1>5, <2>1, <2>2, <2>3
    <2>5. a = b
      BY <2>4 DEF Numbered
    <2> QED  BY <2>1, <2>2, <2>5
  <1> QED  BY <1>1, <1>2, <1>4, <1>5 DEF PubsStay

\* Only a change that is written adds a publication, and only the redirector sends it.
LEMMA PubsChange ==
    ASSUME SystemIInv, Connected, Numbered, [Next]_vars
    PROVE  \/ PubsStay
           \/ \E p \in Procs : Write(p)
           \/ \E u \in pubs : Publish(u)
  <1>1. ASSUME NEW p \in Procs, Register(p) \/ Read(p) \/ Prepare(p) \/ WriteFails(p) PROVE PubsStay
    <2>1. pubs' = pubs
      BY <1>1 DEF Register, Read, Prepare, WriteFails
    <2> QED  BY <1>1, <2>1, PubsFewer, KindRegister, KindRead, KindPrepare, KindWrite
  <1>2. ASSUME NEW p \in Procs, Fails(p) PROVE PubsStay
    <2>1. pubs' \subseteq pubs
      BY <1>2 DEF Fails, LoadFails, LoadDrops, LoadThrows, Unanswered, Disconnect, Restart, Closed
    <2>2. ASSUME LoadThrows(p) PROVE \A q \in Procs : Sourced(q)
      BY <2>2, KindMerge DEF LoadThrows
    <2> QED  BY <1>2, <2>1, <2>2, PubsFewer, KindLoadFails, KindLoadDrops, KindOther, KindRestart DEF Fails
  <1>3. ASSUME NEW p \in Procs,
               \/ Refresh(p) \/ Reconnect(p) \/ Ages(p)
               \/ \E op \in {"insert", "update", "remove"}, d \in Docs : MakeChanges(p, op, d)
        PROVE PubsStay
    <2>1. pubs' = pubs
      BY <1>3 DEF Refresh, Reconnect, Ages, MakeChanges
    <2> QED  BY <1>3, <2>1, PubsFewer, KindCall, KindOther
  <1>4. ASSUME Tick \/ UNCHANGED vars PROVE PubsStay
    <2>1. pubs' = pubs
      BY <1>4 DEF Tick, vars
    <2> QED  BY <1>4, <2>1, PubsFewer, KindOther
  <1> QED  BY <1>1, <1>2, <1>3, <1>4, PubsApply DEF Next, Loads, Makes

\* Loads that were called before carry the number of their change.
LEMMA LoadsOld ==
    ASSUME Numbered, NEW q \in Procs, NEW c, c.type = "load",
           \E j \in 1..Len(queue[q]) : /\ queue[q][j].type = "load"
                                       /\ queue[q][j].pub = c.pub /\ queue[q][j].since = c.since
    PROVE  /\ c.pub <= changes /\ (c.pub # 0 => c.since # Undefined)
           /\ \A u \in pubs : c.pub = u.id => u.stage = "published" /\ c.since = u.since
  BY DEF Numbered, LoadSound

\* Numbers stay while publications stay or go.
LEMMA NumberedStays ==
    ASSUME SystemIInv, SystemIInv', Numbered, [Next]_vars, PubsStay
    PROVE  Numbered'
  <1>1. DbMoves /\ changes \in Nat /\ changes' \in Nat /\ changes <= changes'
    BY DbChanges, Numbers DEF SystemIInv, DocsInv
  <1>2. ASSUME NEW v \in pubs' PROVE v.id > 0 /\ v.id <= db'[v.doc].ver
    <2>1. PICK u \in pubs : v.id = u.id /\ v.doc = u.doc
      BY <1>2 DEF PubsStay, Stays
    <2>2. u.id \in Nat /\ u.id > 0 /\ u.doc \in Docs /\ u.id <= db[u.doc].ver /\ db[u.doc].ver \in Nat
      BY Numbers DEF Numbered
    <2>3. db[u.doc].ver <= db'[u.doc].ver /\ db'[u.doc].ver \in Nat
      BY <1>1, <2>2 DEF DbMoves, NewerDocs, SystemIInv, DocsInv, Document
    <2> QED  BY <2>1, <2>2, <2>3
  <1>3. \A v \in pubs' : v.stage = "sent" => v.loading = {} /\ v.told = {}
    BY DEF PubsStay, Stays, Numbered
  <1>4. \A v, w \in pubs' : v.id = w.id => v = w
    BY DEF PubsStay
  <1>5. ASSUME NEW q \in Procs, NEW i \in 1..Len(queue'[q]) PROVE LoadSound(queue[q][i])'
    <2> DEFINE c == queue'[q][i]
    <2> SUFFICES ASSUME c.type = "load"
                 PROVE  /\ c.pub <= changes' /\ (c.pub # 0 => c.since # Undefined)
                        /\ \A v \in pubs' : c.pub = v.id => v.stage = "published" /\ c.since = v.since
      BY DEF LoadSound
    <2>1. \/ c.pub = 0
          \/ \E j \in 1..Len(queue[q]) : /\ queue[q][j].type = "load"
                                         /\ queue[q][j].pub = c.pub /\ queue[q][j].since = c.since
      BY <1>5 DEF PubsStay, Sourced, From
    <2>2. queue'[q] \in Seq(CallType) /\ c \in CallType
      BY <1>5 DEF SystemIInv, QueuesInv
    <2> HIDE DEF c
    <2>3. c.pub \in Nat
      BY <2>2, CallFields
    <2>4. CASE c.pub = 0
      <3>1. \A v \in pubs' : v.id # 0
        BY <1>2
      <3> QED  BY <1>1, <2>4, <3>1
    <2>5. CASE c.pub # 0
      <3>1. /\ c.pub <= changes /\ c.since # Undefined
            /\ \A u \in pubs : c.pub = u.id => u.stage = "published" /\ c.since = u.since
        BY <2>1, <2>5, LoadsOld
      <3>2. \A v \in pubs' : c.pub = v.id => v.stage = "published" /\ c.since = v.since
        BY <3>1 DEF PubsStay, Stays
      <3> QED  BY <1>1, <2>3, <3>1, <3>2
    <2> QED  BY <2>4, <2>5
  <1> QED  BY <1>2, <1>3, <1>4, <1>5 DEF Numbered

\* A change that is written takes a new number.
LEMMA NumberedWrite ==
    ASSUME SystemIInv, SystemIInv', Numbered, [Next]_vars, NEW p \in Procs, Write(p)
    PROVE  Numbered'
  <1> DEFINE n == changes + 1
             e == Head1(p).doc
             u == [id |-> n, by |-> p, doc |-> e, since |-> Head1(p).stamp,
                   stage |-> "sent", told |-> {}, loading |-> {}]
  <1>1. DbMoves /\ changes \in Nat /\ n \in Nat /\ n > changes
    BY DbChanges, Numbers
  <1>2. changes' = n /\ pubs' = pubs \cup {u} /\ e \in Docs /\ db'[e].ver = n
    <2>1. Head1(p) \in ChangeCall
      BY QueueIs DEF Write, At
    <2>2. e \in Docs
      BY <2>1 DEF ChangeCall
    <2> QED  BY <2>2 DEF Write, Written, SystemIInv, DocsInv
  <1>3. u.id = n /\ u.doc = e /\ u.stage = "sent" /\ u.loading = {} /\ u.told = {}
    OBVIOUS
  <1> HIDE DEF n, e, u
  <1>4. \A v \in pubs : /\ v.id \in Nat /\ v.id > 0 /\ v.doc \in Docs /\ v.id <= db[v.doc].ver
                         /\ db[v.doc].ver \in Nat /\ db[v.doc].ver <= changes /\ v.id < n
    BY <1>1, Numbers DEF Numbered
  <1>5. ASSUME NEW v \in pubs' PROVE v.id > 0 /\ v.id <= db'[v.doc].ver
    <2>1. CASE v = u
      BY <1>1, <1>2, <1>3, <2>1
    <2>2. CASE v \in pubs
      <3>1. db[v.doc].ver <= db'[v.doc].ver /\ db'[v.doc].ver \in Nat
        BY <1>1, <1>4, <2>2 DEF DbMoves, NewerDocs, SystemIInv, DocsInv, Document
      <3> QED  BY <1>4, <2>2, <3>1
    <2> QED  BY <1>2, <2>1, <2>2
  <1>6. \A v \in pubs' : v.stage = "sent" => v.loading = {} /\ v.told = {}
    BY <1>2, <1>3 DEF Numbered
  <1>7. \A v, w \in pubs' : v.id = w.id => v = w
    <2>1. \A v \in pubs : v.id # u.id
      BY <1>1, <1>3, <1>4
    <2> QED  BY <1>2, <2>1 DEF Numbered
  <1>8. ASSUME NEW q \in Procs, NEW i \in 1..Len(queue'[q]) PROVE LoadSound(queue[q][i])'
    <2> DEFINE c == queue'[q][i]
    <2> SUFFICES ASSUME c.type = "load"
                 PROVE  /\ c.pub <= changes' /\ (c.pub # 0 => c.since # Undefined)
                        /\ \A v \in pubs' : c.pub = v.id => v.stage = "published" /\ c.since = v.since
      BY DEF LoadSound
    <2>1. \/ c.pub = 0
          \/ \E j \in 1..Len(queue[q]) : /\ queue[q][j].type = "load"
                                         /\ queue[q][j].pub = c.pub /\ queue[q][j].since = c.since
      BY <1>8, KindWrite DEF Sourced, From
    <2>2. queue'[q] \in Seq(CallType) /\ c \in CallType
      BY <1>8 DEF SystemIInv, QueuesInv
    <2> HIDE DEF c
    <2>3. c.pub \in Nat
      BY <2>2, CallFields
    <2>4. CASE c.pub = 0
      <3>1. \A v \in pubs' : v.id # 0
        BY <1>5
      <3> QED  BY <1>1, <1>2, <2>4, <3>1
    <2>5. CASE c.pub # 0
      <3>1. /\ c.pub <= changes /\ c.since # Undefined
            /\ \A v \in pubs : c.pub = v.id => v.stage = "published" /\ c.since = v.since
        BY <2>1, <2>5, LoadsOld
      <3>2. c.pub # u.id /\ c.pub <= changes'
        BY <1>1, <1>2, <1>3, <2>3, <3>1
      <3> QED  BY <1>2, <3>1, <3>2
    <2> QED  BY <2>4, <2>5
  <1> QED  BY <1>5, <1>6, <1>7, <1>8 DEF Numbered

\* A publication that calls load.
LEMMA PublishIs ==
    ASSUME SystemIInv, NEW u \in pubs, Publish(u)
    PROVE  \E s : /\ pubs' \subseteq (pubs \ {u}) \cup {s}
                  /\ s.id = u.id /\ s.doc = u.doc /\ s.since = u.since /\ s.stage = "published"
                  /\ s.loading = s.told /\ s.told \subseteq Procs
                  /\ u.stage = "sent" /\ UNCHANGED <<db, changes>>
                  /\ pubs \ {u} \subseteq pubs' \/ events' = events + 1
  <1>1. PICK broken \in {{}} \cup {{x} : x \in Registered} :
            LET reached == Registered \ broken
                sent == [u EXCEPT !.stage = "published", !.told = reached, !.loading = reached]
                rest == pubs \ {u}
            IN  /\ IF broken = {} THEN UNCHANGED events ELSE Event
                /\ pubs' = IF broken # {} THEN {v \in rest : v.loading \cap broken = {}}
                           ELSE IF reached # {} THEN rest \cup {sent} ELSE rest
    BY DEF Publish
  <1> DEFINE reached == Registered \ broken
             sent == [u EXCEPT !.stage = "published", !.told = reached, !.loading = reached]
  <1>2. u \in PubType /\ reached \subseteq Procs
    BY Numbers DEF Registered
  <1>3. /\ sent.id = u.id /\ sent.doc = u.doc /\ sent.since = u.since /\ sent.stage = "published"
        /\ sent.loading = reached /\ sent.told = reached
    BY <1>2 DEF PubType
  <1>4. pubs' \subseteq (pubs \ {u}) \cup {sent}
    BY <1>1
  <1>5. pubs \ {u} \subseteq pubs' \/ events' = events + 1
    BY <1>1 DEF Event
  <1> HIDE DEF sent
  <1> QED  BY <1>2, <1>3, <1>4, <1>5 DEF Publish

\* The loads that a publication calls carry its number.
LEMMA NumberedPublish ==
    ASSUME SystemIInv, SystemIInv', Connected, Numbered, NEW u \in pubs, Publish(u)
    PROVE  Numbered'
  <1>1. PICK s : /\ pubs' \subseteq (pubs \ {u}) \cup {s}
                 /\ s.id = u.id /\ s.doc = u.doc /\ s.since = u.since /\ s.stage = "published"
                 /\ u.stage = "sent" /\ UNCHANGED <<db, changes>>
    BY PublishIs
  <1>2. \A v \in pubs : /\ v.id \in Nat /\ v.id > 0 /\ v.doc \in Docs /\ v.id <= db[v.doc].ver
                         /\ v.since \in Nat /\ db[v.doc].ver \in Nat /\ db[v.doc].ver <= changes
    BY Numbers DEF Numbered
  <1>3. changes \in Nat
    BY Numbers
  <1>4. \A v \in pubs' : v.id > 0 /\ v.id <= db'[v.doc].ver
    BY <1>1, <1>2
  <1>5. \A v \in pubs' : v.stage = "sent" => v.loading = {} /\ v.told = {}
    BY <1>1 DEF Numbered
  <1>6. \A v \in pubs \ {u} : v.id # u.id
    BY DEF Numbered
  <1>7. \A v, w \in pubs' : v.id = w.id => v = w
    BY <1>1, <1>6 DEF Numbered
  <1>8. ASSUME NEW q \in Procs, NEW i \in 1..Len(queue'[q]) PROVE LoadSound(queue[q][i])'
    <2> DEFINE c == queue'[q][i]
    <2> SUFFICES ASSUME c.type = "load"
                 PROVE  /\ c.pub <= changes' /\ (c.pub # 0 => c.since # Undefined)
                        /\ \A v \in pubs' : c.pub = v.id => v.stage = "published" /\ c.since = v.since
      BY DEF LoadSound
    <2>1. c = Load(u.since, u.id) \/ \E j \in 1..Len(queue[q]) : c = queue[q][j]
      BY <1>8, KindPublish
    <2> HIDE DEF c
    <2>2. CASE c = Load(u.since, u.id)
      <3>1. c.pub = u.id /\ c.since = u.since
        BY <2>2 DEF Load
      <3>2. u.since # Undefined /\ u.id <= changes
        BY <1>2, <1>3 DEF Undefined
      <3> QED  BY <1>1, <1>6, <3>1, <3>2
    <2>3. CASE \E j \in 1..Len(queue[q]) : c = queue[q][j]
      <3>1. /\ c.pub <= changes /\ (c.pub # 0 => c.since # Undefined)
            /\ \A v \in pubs : c.pub = v.id => v.stage = "published" /\ c.since = v.since
        BY <2>3, LoadsOld
      <3>2. c.pub # u.id
        BY <1>1, <3>1
      <3> QED  BY <1>1, <3>1, <3>2
    <2> QED  BY <2>1, <2>2, <2>3
  <1> QED  BY <1>4, <1>5, <1>7, <1>8 DEF Numbered

-----------------------------------------------------------------------------
(* Success means seen.                                                     *)

\* Hence in every step.
LEMMA NumberedKept ==
    ASSUME SystemIInv, SystemIInv', Connected, Numbered, [Next]_vars
    PROVE  Numbered'
  BY PubsChange, NumberedStays, NumberedWrite, NumberedPublish

\* Connections are in one of their states.
LEMMA ConnectedKept ==
    ASSUME Connected, [Next]_vars
    PROVE  Connected'
  <1>1. ASSUME NEW p \in Procs,
               Register(p) \/ Unanswered(p) \/ Disconnect(p) \/ Reconnect(p) \/ Restart(p)
        PROVE  Connected'
    BY <1>1 DEF Connected, Register, Unanswered, Disconnect, Reconnect, Restart, Event
  <1>2. ASSUME NEW u \in pubs, Publish(u) PROVE Connected'
    <2>1. /\ events' = events \/ events' = events + 1
          /\ \E broken : conn' = [x \in Procs |-> IF x \in broken THEN "closed" ELSE conn[x]]
      BY <1>2 DEF Publish, Event
    <2> QED  BY <2>1 DEF Connected
  <1>3. \/ conn' = conn /\ (events' = events \/ events' = events + 1)
        \/ \E u \in pubs : Publish(u)
        \/ \E p \in Procs : Register(p) \/ Unanswered(p) \/ Disconnect(p) \/ Reconnect(p) \/ Restart(p)
    BY DEF Next, vars, Loads, Makes, Fails, LoadFails, LoadDrops, LoadThrows, Read, Apply, Prepare, Write, WriteFails, Refresh, Ages,
           MakeChanges, Tick, Event
  <1> QED  BY <1>1, <1>2, <1>3 DEF Connected

\* Publications that were answered, after a step.
LEMMA AnswersStay ==
    ASSUME SystemIInv, SystemIInv', SeenInv, [Next]_vars, NEW u \in pubs, u.stage = "published",
           NEW v, Stays(v, u), NEW q \in v.told
    PROVE  Answers(q, v)'
  <1>1. q \in u.told /\ q \in Procs
    BY Numbers DEF Stays
  <1>2. Connected /\ Numbered /\ CopySound(q) /\ Answers(q, u)
    BY <1>1 DEF SeenInv
  <1>3. /\ q \notin u.loading \/ (Ends(q) /\ Head1(q).pub = u.id)
              => Heard(q, u.doc, u.id, u.since)'
        /\ HasRead(q)' /\ (q \notin u.loading \/ Head1(q)'.pub = u.id)
              => WillHear(q, u.doc, u.id, u.since)'
    BY <1>1, <1>2, AnswersKept
  <1>4. Ends(q) => ~HasRead(q)'
    BY DEF Ends, HasBegun, HasRead, At
  <1>5. q \notin v.loading => q \notin u.loading \/ (Ends(q) /\ Head1(q).pub = u.id)
    BY <1>1 DEF Stays
  <1>6. v.id = u.id /\ v.doc = u.doc /\ v.since = u.since
    BY DEF Stays
  <1> QED  BY <1>3, <1>4, <1>5, <1>6 DEF Answers

\* The invariant is inductive ...
LEMMA NextSeenInv == SystemIInv /\ SystemIInv' /\ SeenInv /\ [Next]_vars => SeenInv'
  <1> SUFFICES ASSUME SystemIInv, SystemIInv', SeenInv, [Next]_vars PROVE SeenInv'
    OBVIOUS
  <1>1. Connected' /\ Numbered'
    BY ConnectedKept, NumberedKept DEF SeenInv
  <1>2. \A q \in Procs : CopySound(q)'
    BY CopyKept DEF SeenInv
  <1>3. ASSUME NEW v \in pubs', v.stage = "published", NEW q \in v.told
        PROVE  Answers(q, v)'
    <2>1. CASE PubsStay
      <3>1. PICK u \in pubs : Stays(v, u)
        BY <1>3, <2>1 DEF PubsStay
      <3> QED  BY <1>3, <3>1, AnswersStay DEF Stays
    <2>2. ASSUME v \in pubs PROVE Answers(q, v)'
      <3>1. Stays(v, v)
        BY DEF Stays
      <3> QED  BY <1>3, <2>2, <3>1, AnswersStay
    <2>3. ASSUME NEW p \in Procs, Write(p) PROVE Answers(q, v)'
      <3>1. v \in pubs
        BY <1>3, <2>3 DEF Write
      <3> QED  BY <2>2, <3>1
    <2>4. ASSUME NEW u \in pubs, Publish(u) PROVE Answers(q, v)'
      <3>1. PICK s : /\ pubs' \subseteq (pubs \ {u}) \cup {s}
                     /\ s.id = u.id /\ s.loading = s.told /\ s.told \subseteq Procs /\ u.stage = "sent"
        BY <2>4, PublishIs
      <3>2. CASE v \in pubs
        BY <2>2, <3>2
      <3>3. CASE v = s
        <4>1. q \in v.loading /\ v.id = u.id /\ q \in Procs
          BY <1>3, <3>1, <3>3
        <4>2. ASSUME HasRead(q)' PROVE Head1(q)'.pub # v.id
          <5>1. Calm(q)
            BY <2>4, <4>1, KindPublish DEF SeenInv
          <5>2. Head1(q)' = Head1(q) /\ HasRead(q)
            BY <4>2, <5>1 DEF Calm, SameHead, HasRead, At, Head1
          <5>3. LoadSound(Head1(q))
            <6>1. 1 \in 1..Len(queue[q])
              BY <4>1, <5>2, QueueIs DEF HasRead, At
            <6> QED  BY <4>1, <6>1 DEF SeenInv, Numbered, Head1
          <5> QED  BY <3>1, <4>1, <5>2, <5>3 DEF LoadSound, HasRead, At
        <4> QED  BY <4>1, <4>2 DEF Answers
      <3> QED  BY <1>3, <3>1, <3>2, <3>3
    <2> QED  BY <2>1, <2>3, <2>4, PubsChange DEF SeenInv
  <1> QED  BY <1>1, <1>2, <1>3 DEF SeenInv

\* ... and begins with copies that are equal to the database.
LEMMA InitSeenInv == Init => SeenInv
  <1> SUFFICES ASSUME Init PROVE SeenInv
    OBVIOUS
  <1>1. PICK old \in SUBSET Docs :
           /\ db = [d \in Docs |-> [ver |-> IF d \in old THEN 1 ELSE 0, at |-> 0, deleted |-> FALSE]]
           /\ data = [p \in Procs |-> [d \in Docs |-> IF d \in old THEN 1 ELSE 0]]
    BY DEF Init
  <1>2. /\ conn = [p \in Procs |-> "registered"] /\ queue = [p \in Procs |-> <<>>] /\ pubs = {}
        /\ events = 0
    BY DEF Init
  <1>3. Connected
    BY <1>2 DEF Connected
  <1>4. \A q \in Procs, d \in Docs : data[q][d] = Current(d)
    BY <1>1 DEF Current, Live
  <1>5. \A q \in Procs : CopySound(q)
    BY <1>2, <1>4 DEF CopySound, UpToDate, HasRead, At
  <1>6. Numbered
    BY <1>2 DEF Numbered
  <1> QED  BY <1>2, <1>3, <1>5, <1>6 DEF SeenInv

\* Always, with what always holds of queues, copies and publications.
LEMMA SeenInvariance == Spec => [](SystemIInv /\ SeenInv)
  <1>1. Init => SystemIInv /\ SeenInv
    BY InitSystemIInv, InitSeenInv
  <1>2. SystemIInv /\ SeenInv /\ [Next]_vars => (SystemIInv /\ SeenInv)'
    BY StepSystemIInv, NextSeenInv
  <1> QED  BY <1>1, <1>2, PTL DEF Spec

\* A copy that is not up to date is yet to hear of it, whoever changes what at once, by
\* whatever clocks, and whichever calls, loads and connections fail: a publication or a call
\* goes back far enough, or the next load does, unless the process was never told of the
\* change or dropped what it had read of it (system_store.js, redirector.js).
THEOREM CopiesHear == Spec => []StaleIsDue
  <1>1. ASSUME SystemIInv, SeenInv, NEW q \in Procs, NEW d \in Docs, data[q][d] # Current(d)
        PROVE  Due(q, d)
    <2>1. UpToDate(q, d)
      BY <1>1 DEF SeenInv, CopySound
    <2>2. \A i \in 1..Len(queue[q]) : queue[q][i] \in Calls(q)
      <3>1. DOMAIN queue[q] = 1..Len(queue[q])
        BY <1>1, QueueFacts
      <3> QED  BY <3>1 DEF Calls
    <2> QED  BY <1>1, <2>1, <2>2 DEF UpToDate, Coming, Due
  <1>2. SystemIInv /\ SeenInv => StaleIsDue
    BY <1>1 DEF StaleIsDue
  <1> QED  BY <1>2, SeenInvariance, PTL

\* Who is yet to hear of a document was never told, or is taken back.
LEMMA BackOrLost ==
    ASSUME SystemIInv, NEW q \in Procs, NEW u \in pubs, Coming(q, u.doc, u.since - 1)
    PROVE  <<q, u.doc>> \in lost \/ GoesBack(q, u)
  <1>1. \A v \in pubs : v.since \in Nat
    BY Numbers
  <1>2. ASSUME NEW i \in 1..Len(queue[q]), queue[q][i].type = "load"
        PROVE  queue[q][i] \in Calls(q) /\ queue[q][i].since \in Nat \cup {-1}
    <2>1. queue[q] \in Seq(CallType) /\ queue[q][i] \in CallType
      BY <1>2, QueueFacts
    <2>2. queue[q][i].since \in Times \cup {Undefined}
      BY <1>2, <2>1, CallFields
    <2>3. i \in DOMAIN queue[q]
      BY <1>2, <2>1
    <2> QED  BY <2>2, <2>3, Numbers DEF Calls, Undefined
  <1>3. \A a \in Nat \cup {-1}, b \in Nat : a <= b - 1 => a < b
    OBVIOUS
  <1> QED  BY <1>1, <1>2, <1>3 DEF Coming, GoesBack

\* The step that answers make_changes.
LEMMA SeenAtEnd ==
    ASSUME SystemIInv, SeenInv, [Next]_vars, NEW u \in pubs, u.stage = "published",
           u.id \notin {v.id : v \in pubs'}, events' = events, NEW q \in u.told \cap loaded
    PROVE  \/ Seen(q, u.doc, u.id)'
           \/ GoesBack(q, u) \/ Newer(q, u.doc)' \/ <<q, u.doc>> \in lost
  <1>1. events' # events + 1
    BY DEF SeenInv, Connected
  <1>2. PICK p \in Procs : Apply(p)
    <2>1. u \notin pubs'
      OBVIOUS
    <2>2. ASSUME NEW v \in pubs, Publish(v) PROVE FALSE
      <3>1. u # v /\ pubs \ {v} \subseteq pubs'
        BY <1>1, <2>2, PublishIs
      <3> QED  BY <2>1, <3>1
    <2>3. (\E p \in Procs : Apply(p)) \/ pubs \subseteq pubs' \/ events' = events + 1
          \/ \E v \in pubs : Publish(v)
      BY DEF Next, vars, Loads, Makes, Fails, Register, Read, Prepare, Write, WriteFails, LoadFails,
             LoadDrops, LoadThrows, Unanswered, Disconnect, Restart, Refresh, Reconnect, Ages, MakeChanges,
             Tick, Event
    <2> QED  BY <1>1, <2>1, <2>2, <2>3
  <1>3. /\ q \in Procs /\ u \in PubType /\ u.doc \in Docs /\ u.id \in Nat /\ u.id > 0
        /\ u.id <= db[u.doc].ver /\ u.since \in Nat
        /\ Connected /\ Numbered /\ CopySound(q) /\ Answers(q, u)
    BY Numbers DEF SeenInv, Numbered
  <1> DEFINE id == Head1(p).pub
             one == [u EXCEPT !.loading = IF u.id = id THEN @ \ {p} ELSE @]
  <1>4. q \notin u.loading \/ (q = p /\ u.id = id)
    <2>1. one.id = u.id /\ one.loading = IF u.id = id THEN u.loading \ {p} ELSE u.loading
      BY <1>3 DEF PubType
    <2>2. one \in pubs' \/ one.loading = {}
      BY <1>2 DEF Apply, Answered
    <2>3. one.loading = {}
      BY <2>1, <2>2
    <2> QED  BY <2>1, <2>3
  <1> HIDE DEF one
  <1>5. Coming(q, u.doc, u.since - 1) => <<q, u.doc>> \in lost \/ GoesBack(q, u)
    BY <1>3, BackOrLost
  <1>6. db' = db /\ db[u.doc].deleted \in BOOLEAN /\ data[q][u.doc] \in Nat
    BY <1>2, <1>3, Numbers DEF Apply, Merge
  <1>7. CASE q = p
    <2>1. Ends(q) /\ HasRead(q)
      BY <1>2, <1>7, KindMerge DEF Apply, Merge, HasRead
    <2>2. WillHear(q, u.doc, u.id, u.since)
      BY <1>3, <1>4, <1>7, <2>1 DEF Answers
    <2>3. data'[q] = Merged(data[q], Head1(q).got)
      BY <2>1 DEF Ends
    <2>4. SeenIn(data'[q], u.doc, u.id) => Seen(q, u.doc, u.id)'
      BY <1>6 DEF SeenIn, Seen
    <2> QED  BY <1>5, <2>2, <2>3, <2>4 DEF WillHear
  <1>8. CASE q # p
    <2>1. data'[q] = data[q] /\ last_update_time'[q] = last_update_time[q]
      BY <1>2, <1>3, <1>8, KindMerge DEF Calm, Apply
    <2>2. Heard(q, u.doc, u.id, u.since)
      BY <1>4, <1>8 , <1>3 DEF Answers
    <2>3. SeenIn(data[q], u.doc, u.id) => Seen(q, u.doc, u.id)'
      BY <1>6, <2>1 DEF SeenIn, Seen
    <2>4. CASE last_update_time[q] <= u.since
      <3> DEFINE a == db[u.doc].at
      <3>1. a \in Nat /\ last_update_time[q] \in Nat /\ db[u.doc].ver \in Nat
        BY <1>3, Numbers
      <3>2. CASE last_update_time[q] <= a
        <4>1. Newer(q, u.doc)'
          BY <1>3, <1>6, <2>1, <3>1, <3>2 DEF Newer
        <4> QED  BY <4>1
      <3>3. CASE ~(last_update_time[q] <= a)
        <4>1. a <= u.since - 1 /\ u.since - 1 \in Int
          BY <1>3, <2>4, <3>1, <3>3
        <4>2. data[q][u.doc] = Current(u.doc) \/ Coming(q, u.doc, a)
          BY <1>3, <3>3 DEF CopySound, UpToDate
        <4>3. data[q][u.doc] = Current(u.doc) => SeenIn(data[q], u.doc, u.id)
          BY <1>3, CurrentSeen
        <4> HIDE DEF a
        <4>4. Coming(q, u.doc, a) => Coming(q, u.doc, u.since - 1)
          BY <1>3, <3>1, <4>1, ComingLater
        <4> QED  BY <1>5, <2>3, <4>2, <4>3, <4>4
      <3> QED  BY <3>2, <3>3
    <2> QED  BY <1>5, <2>2, <2>3, <2>4 DEF Heard
  <1> QED  BY <1>7, <1>8

\* When make_changes succeeds, every process that was told has the change or a later one,
\* unless who wrote later had taken an earlier stamp (system_store.js, redirector.js).
THEOREM SuccessSeen == Spec => SuccessMeansSeen
  <1> DEFINE Told == \A u \in pubs :
                u.stage = "published" /\ u.id \notin {v.id : v \in pubs'} /\ events' = events =>
                   \A q \in u.told \cap loaded :
                      \/ Seen(q, u.doc, u.id)'
                      \/ GoesBack(q, u) \/ Newer(q, u.doc)' \/ <<q, u.doc>> \in lost
  <1>1. SystemIInv /\ SeenInv /\ [Next]_vars => [Told]_vars
    BY SeenAtEnd
  <1>2. SuccessMeansSeen <=> [][Told]_vars
    BY PTL DEF SuccessMeansSeen
  <1> QED  BY <1>1, <1>2, SeenInvariance, PTL DEF Spec

=============================================================================

------------------------ MODULE BackgroundTasksProofs ------------------------
(***************************************************************************)
(* That the model is never told of a task whose notice was suppressed, nor *)
(* of one it has waited for itself, for any number of tasks and occasions: *)
(* writes that fail and any number of crashes and restarts among them.     *)
(* Neither is inductive.  A suppression is in the live entry before it is  *)
(* on disk, a notice is on its way before it is among the records, and a   *)
(* later process decides from the record it has loaded; Inv says how these *)
(* agree.                                                                  *)
(* And that it is told the end of a task at most once.  A notice moves from*)
(* where it is built through a turn or the steer buffer to the records, and*)
(* is built again from a record after a restart; OnceInv says that it is in*)
(* one of these places, of the one end its task has, and known to whoever  *)
(* might build it again.                                                   *)
(***************************************************************************)
EXTENDS BackgroundTasks, TLAPS, SequenceTheorems, FiniteSetTheorems

Stages    == {None, "running", "grace", "writing", "over"}
Modes     == {"new", "background", "foreground", "moved", "spilled"}
Statuses  == {None, "running", "completed", "killed", "timed_out", "lost", "call", "result"}
Waiters   == {None, "taskStop", "end", "close"}
EntrySet  == [at : Stages, status : Statuses, why : {None, "timeout", "stop"},
              suppressed : BOOLEAN]
InfoSet   == [status : Statuses, detached : BOOLEAN, suppressed : BOOLEAN]
WriteSet  == [info : InfoSet, by : Waiters]
NoticeSet == [task : Task \cup {None}, status : Statuses]
TurnSet   == [at : {"idle", "launched", "running", "ending"}, input : NoticeSet]

Types ==
  /\ task \in [Task -> EntrySet]
  /\ mode \in [Task -> Modes]
  /\ writes \in [Task -> Seq(WriteSet)]
  /\ disk \in [Task -> InfoSet] /\ ghosts \in [Task -> InfoSet]
  /\ building \subseteq NoticeSet /\ orphans \subseteq NoticeSet
  /\ turn \in TurnSet
  /\ steerBuffer \in Seq(NoticeSet) /\ log \in Seq(NoticeSet)
  /\ durable \in Nat

(* What the queued writes of a task will leave on disk.                    *)
Infos(w) == {w[i].info : i \in 1..Len(w)}
Recorded(t) == Infos(writes[t]) \cup {disk[t]}

(* A task leaves no trace before it is registered, and no live entry       *)
(* outlasts the process.                                                   *)
NothingBefore(t) ==
  /\ mode[t] = "new" => task[t].at = None /\ disk[t] = NoInfo
  /\ proc \in {"down", "resuming"} => task[t].at = None
  /\ task[t].at = None => writes[t] = <<>>

(* A suppression on its way to the disk is in the live entry.              *)
SuppressedFirst(t) ==
  task[t].at # None => \A x \in Recorded(t) : x.suppressed => task[t].suppressed

DetachedFirst(t) == \A x \in Recorded(t) : x.detached => IsDetached(t)

ForegroundIsQuiet(t) ==
  mode[t] = "foreground" => \A x \in Recorded(t) : x # NoInfo => x.suppressed

GhostIsRecord(t) ==
  proc = "resuming" => /\ ghosts[t].suppressed = disk[t].suppressed
                       /\ ghosts[t].detached = disk[t].detached
                       /\ ghosts[t] # NoInfo => disk[t] # NoInfo

TaskInv(t) == /\ NothingBefore(t) /\ SuppressedFirst(t) /\ DetachedFirst(t)
              /\ ForegroundIsQuiet(t) /\ GhostIsRecord(t)

(* The notices on their way to the model, and those it has got.            *)
Elems(s) == {s[i] : i \in 1..Len(s)}
Sent == building \cup orphans \cup {turn.input} \cup Elems(steerBuffer) \cup Elems(log)

(* A task the model may be told of has ended in this process or in an      *)
(* earlier one, and nothing of it is suppressed nor will be.               *)
MayBeTold(t) == /\ task[t].at \in {None, "over"} /\ IsDetached(t)
                /\ \A x \in Recorded(t) : ~x.suppressed

NoticesInv == \A n \in Sent : n.task \in Task => MayBeTold(n.task)

Inv == Types /\ (\A t \in Task : TaskInv(t)) /\ NoticesInv

-----------------------------------------------------------------------------

LEMMA InfosOfAppend ==
  ASSUME NEW w \in Seq(WriteSet), NEW x \in WriteSet
  PROVE  Append(w, x) \in Seq(WriteSet) /\ Infos(Append(w, x)) = Infos(w) \cup {x.info}
<1>1. /\ Append(w, x) \in Seq(WriteSet) /\ Len(Append(w, x)) = Len(w) + 1
      /\ \A i \in 1..Len(w) : Append(w, x)[i] = w[i]
      /\ Append(w, x)[Len(w) + 1] = x
  OBVIOUS
<1>2. Len(w) \in Nat OBVIOUS
<1>3. 1..(Len(w) + 1) = 1..Len(w) \cup {Len(w) + 1} BY <1>2
<1> QED BY <1>1, <1>3 DEF Infos

LEMMA InfosOfTail ==
  ASSUME NEW w \in Seq(WriteSet), w # <<>>
  PROVE  /\ Tail(w) \in Seq(WriteSet) /\ Head(w) \in WriteSet
         /\ Head(w).info \in Infos(w) /\ Infos(Tail(w)) \subseteq Infos(w)
<1>1. /\ Tail(w) \in Seq(WriteSet) /\ Head(w) \in WriteSet /\ Len(Tail(w)) = Len(w) - 1
      /\ \A i \in 1..Len(Tail(w)) : Tail(w)[i] = w[i + 1]
  BY HeadTailProperties
<1>2. Len(w) \in Nat \ {0} /\ Head(w) = w[1] OBVIOUS
<1>3. \A i \in 1..Len(Tail(w)) : i + 1 \in 1..Len(w) BY <1>1, <1>2
<1> QED BY <1>1, <1>2, <1>3 DEF Infos

LEMMA InfosOfNone == Infos(<<>>) = {}
BY DEF Infos

LEMMA ElemsOfAppend ==
  ASSUME NEW S, NEW s \in Seq(S), NEW x \in S
  PROVE  Append(s, x) \in Seq(S) /\ Elems(Append(s, x)) = Elems(s) \cup {x}
<1>1. /\ Append(s, x) \in Seq(S) /\ Len(Append(s, x)) = Len(s) + 1
      /\ \A i \in 1..Len(s) : Append(s, x)[i] = s[i]
      /\ Append(s, x)[Len(s) + 1] = x
  OBVIOUS
<1>2. Len(s) \in Nat OBVIOUS
<1>3. 1..(Len(s) + 1) = 1..Len(s) \cup {Len(s) + 1} BY <1>2
<1> QED BY <1>1, <1>3 DEF Elems

LEMMA ElemsOfConcat ==
  ASSUME NEW S, NEW s \in Seq(S), NEW r \in Seq(S)
  PROVE  s \o r \in Seq(S) /\ Elems(s \o r) \subseteq Elems(s) \cup Elems(r)
<1>1. /\ s \o r \in Seq(S) /\ Len(s \o r) = Len(s) + Len(r)
      /\ \A i \in 1..(Len(s) + Len(r)) :
           (s \o r)[i] = IF i <= Len(s) THEN s[i] ELSE r[i - Len(s)]
  BY ConcatProperties
<1>2. Len(s) \in Nat /\ Len(r) \in Nat OBVIOUS
<1>3. ASSUME NEW i \in 1..(Len(s) + Len(r))
      PROVE  (s \o r)[i] \in Elems(s) \cup Elems(r)
  <2>1. CASE i <= Len(s)
    <3>1. i \in 1..Len(s) BY <1>2, <2>1
    <3> QED BY <1>1, <2>1, <3>1 DEF Elems
  <2>2. CASE ~(i <= Len(s))
    <3>1. i - Len(s) \in 1..Len(r) BY <1>2, <2>2
    <3> QED BY <1>1, <2>2, <3>1 DEF Elems
  <2> QED BY <2>1, <2>2
<1>4. Elems(s \o r) = {(s \o r)[i] : i \in 1..(Len(s) + Len(r))} BY <1>1 DEF Elems
<1> QED BY <1>1, <1>3, <1>4

LEMMA ElemsOfPrefix ==
  ASSUME NEW S, NEW s \in Seq(S), NEW n \in Nat, n <= Len(s)
  PROVE  SubSeq(s, 1, n) \in Seq(S) /\ Elems(SubSeq(s, 1, n)) \subseteq Elems(s)
<1>1. Len(s) \in Nat /\ \A i \in 1..n : i \in 1..Len(s) /\ s[i] \in S OBVIOUS
<1>2. /\ SubSeq(s, 1, n) \in Seq(S)
      /\ Len(SubSeq(s, 1, n)) = IF 1 <= n THEN n - 1 + 1 ELSE 0
      /\ \A i \in 1..(n - 1 + 1) : SubSeq(s, 1, n)[i] = s[1 + i - 1]
  BY <1>1, SubSeqProperties
<1>3. Len(SubSeq(s, 1, n)) = n BY <1>2
<1>4. \A i \in 1..n : SubSeq(s, 1, n)[i] = s[i] BY <1>2
<1> QED BY <1>1, <1>2, <1>3, <1>4 DEF Elems

LEMMA ElemsOfNone == Elems(<<>>) = {}
BY DEF Elems

LEMMA InitInv == Init => Inv
<1> SUFFICES ASSUME Init PROVE Inv OBVIOUS
<1> USE BackgroundConstants DEF Init, Fresh, NoInfo, NoNotice, Notice, NoTurn
<1>1. Types
  <2>1. NoInfo \in InfoSet BY DEF InfoSet, Statuses
  <2>2. NoNotice \in NoticeSet BY DEF NoticeSet, Statuses
  <2>3. task \in [Task -> EntrySet] /\ mode \in [Task -> Modes]
    BY DEF EntrySet, Stages, Statuses, Modes
  <2>4. writes \in [Task -> Seq(WriteSet)] OBVIOUS
  <2>5. turn \in TurnSet BY <2>2 DEF TurnSet
  <2>6. disk \in [Task -> InfoSet] /\ ghosts \in [Task -> InfoSet] BY <2>1
  <2>7. /\ building \subseteq NoticeSet /\ orphans \subseteq NoticeSet
        /\ steerBuffer \in Seq(NoticeSet) /\ log \in Seq(NoticeSet) /\ durable \in Nat
    OBVIOUS
  <2> HIDE DEF Init
  <2> QED BY <2>3, <2>4, <2>5, <2>6, <2>7 DEF Types
<1>2. ASSUME NEW t \in Task PROVE TaskInv(t)
  <2>1. Recorded(t) = {NoInfo} BY InfosOfNone DEF Recorded
  <2> QED BY <2>1 DEF TaskInv, NothingBefore, SuppressedFirst, DetachedFirst,
                      ForegroundIsQuiet, GhostIsRecord
<1>3. NoticesInv BY ElemsOfNone DEF NoticesInv, Sent
<1> QED BY <1>1, <1>2, <1>3 DEF Inv

(* A step that leaves the tasks and their records alone, and sends no      *)
(* notice of a task of which none was sent.                                *)
LEMMA TurnStep ==
  ASSUME Inv, Types', UNCHANGED manager, proc' = proc \/ proc' = "up",
         \A n \in Sent' : n \in Sent \/ n.task \notin Task
  PROVE  Inv'
<1>1. \A t \in Task : Recorded(t)' = Recorded(t) BY DEF manager, Recorded
<1>2. ASSUME NEW t \in Task PROVE TaskInv(t)'
  BY <1>1 DEF Inv, TaskInv, NothingBefore, SuppressedFirst, DetachedFirst,
              ForegroundIsQuiet, GhostIsRecord, IsDetached, manager
<1>3. NoticesInv'
  BY <1>1 DEF Inv, NoticesInv, MayBeTold, IsDetached, manager
<1> QED BY <1>2, <1>3 DEF Inv

(* A step on the entry and the records of one task that is not over, of    *)
(* which no notice was sent.                                               *)
LEMMA TaskStep ==
  ASSUME Inv, Types', NEW t \in Task,
         UNCHANGED <<proc, ghosts, turns, log, building>>,
         \A u \in Task \ {t} : /\ task'[u] = task[u] /\ mode'[u] = mode[u]
                               /\ writes'[u] = writes[u] /\ disk'[u] = disk[u],
         TaskInv(t)', ~MayBeTold(t) \/ MayBeTold(t)'
  PROVE  Inv'
<1>1. \A u \in Task \ {t} : Recorded(u)' = Recorded(u) BY DEF Recorded
<1>2. ASSUME NEW u \in Task \ {t} PROVE TaskInv(u)'
  BY <1>1 DEF Inv, TaskInv, NothingBefore, SuppressedFirst, DetachedFirst,
              ForegroundIsQuiet, GhostIsRecord, IsDetached
<1>3. Sent' = Sent BY DEF Sent, turns
<1>4. \A u \in Task \ {t} : MayBeTold(u) => MayBeTold(u)'
  BY <1>1 DEF MayBeTold, IsDetached
<1>5. NoticesInv' BY <1>3, <1>4 DEF Inv, NoticesInv
<1> QED BY <1>2, <1>5 DEF Inv

(* A queued write adds its snapshot to what will be on disk.               *)
LEMMA PersistStep ==
  ASSUME Types, NEW t \in Task, NEW m \in Modes, NEW e \in EntrySet, NEW by \in Waiters,
         persistLive(t, m, e, by)
  PROVE  /\ writes' \in [Task -> Seq(WriteSet)]
         /\ writes'[t] # <<>>
         /\ Infos(writes'[t]) = Infos(writes[t]) \cup {toInfo(t, m, e)}
         /\ \A u \in Task \ {t} : writes'[u] = writes[u]
<1> DEFINE x == [info |-> toInfo(t, m, e), by |-> by]
<1>1. x \in WriteSet /\ x.info = toInfo(t, m, e)
  BY DEF WriteSet, InfoSet, EntrySet, toInfo
<1>2. writes[t] \in Seq(WriteSet) /\ writes' = [writes EXCEPT ![t] = Append(@, x)]
  BY DEF Types, persistLive, Persist
<1>3. writes'[t] = Append(writes[t], x) BY <1>2 DEF Types
<1>4. Append(writes[t], x) \in Seq(WriteSet) /\ Infos(Append(writes[t], x)) = Infos(writes[t]) \cup {x.info}
  BY <1>1, <1>2, InfosOfAppend
<1>5. Append(writes[t], x) # <<>> BY <1>2
<1> HIDE DEF x
<1> QED BY <1>1, <1>2, <1>3, <1>4, <1>5 DEF Types

(* registerTask, and what happens to a task while it runs.                 *)
LEMMA RegisterStep ==
  ASSUME Inv, NEW t \in Task, NEW how \in {"background", "foreground"}, registerTask(t, how)
  PROVE  Inv'
<1> DEFINE e == [Fresh[t] EXCEPT !.at = "running"]
<1>1. /\ e \in EntrySet /\ e.at = "running" /\ e.suppressed = FALSE
      /\ task' = [task EXCEPT ![t] = e] /\ mode' = [mode EXCEPT ![t] = how]
      /\ IF how = "background" THEN persistLive(t, how, e, None) ELSE UNCHANGED writes
  BY DEF registerTask, Fresh, EntrySet, Stages, Statuses
<1> HIDE DEF e
<1>2. how \in Modes /\ None \in Waiters BY DEF Modes, Waiters
<1>3. mode[t] = "new" /\ task[t].at = None /\ disk[t] = NoInfo /\ writes[t] = <<>>
  BY DEF registerTask, Inv, TaskInv, NothingBefore
<1>4. UNCHANGED <<proc, disk, ghosts, notices, turns, records>> BY DEF registerTask
<1>5. /\ writes' \in [Task -> Seq(WriteSet)]
      /\ \A u \in Task \ {t} : writes'[u] = writes[u]
      /\ Infos(writes'[t]) = IF how = "background" THEN {toInfo(t, how, e)} ELSE {}
  <2>1. CASE how = "background"
    BY <1>1, <1>2, <1>3, <2>1, PersistStep, InfosOfNone DEF Inv
  <2>2. CASE how # "background"
    BY <1>1, <1>3, <2>2, InfosOfNone DEF Inv, Types
  <2> QED BY <2>1, <2>2
<1>6. Types'
  BY <1>1, <1>2, <1>4, <1>5 DEF Inv, Types, notices, turns, records
<1>7. /\ task'[t] = e /\ mode'[t] = how
      /\ \A u \in Task \ {t} : task'[u] = task[u] /\ mode'[u] = mode[u]
  BY <1>1 DEF Inv, Types
<1>8. TaskInv(t)'
  <2>1. \A x \in Recorded(t)' : x = NoInfo \/ (how = "background" /\ x = toInfo(t, how, e))
    BY <1>3, <1>4, <1>5 DEF Recorded
  <2>2. ~toInfo(t, how, e).suppressed BY <1>1 DEF toInfo
  <2>3. ~NoInfo.suppressed /\ ~NoInfo.detached BY DEF NoInfo
  <2>4. proc = "up" BY DEF registerTask
  <2> QED BY <1>1, <1>2, <1>4, <1>7, <2>1, <2>2, <2>3, <2>4
          DEF TaskInv, NothingBefore, SuppressedFirst, DetachedFirst, ForegroundIsQuiet,
              GhostIsRecord, IsDetached, None
<1>9. ~MayBeTold(t) BY <1>3 DEF MayBeTold, IsDetached
<1> QED BY <1>4, <1>5, <1>6, <1>7, <1>8, <1>9, TaskStep DEF notices, turns, records

LEMMA LiveStep ==
  ASSUME Inv, NEW t \in Task, task[t].at \notin {None, "over"},
         UNCHANGED <<proc, disk, ghosts, notices, turns, records>>,
         NEW e \in EntrySet, task' = [task EXCEPT ![t] = e],
         e.at # None, task[t].suppressed => e.suppressed,
         NEW m \in Modes, mode' = [mode EXCEPT ![t] = m],
         m # "new", IsDetached(t) => m \in {"background", "moved"},
         m = "foreground" => mode[t] = "foreground",
         \/ writes' = writes
         \/ /\ \/ persistLive(t, m, e, None) \/ persistLive(t, m, e, "taskStop")
               \/ persistLive(t, m, e, "end")
            /\ m = "foreground" => e.suppressed
  PROVE  Inv'
<1>1. /\ writes' \in [Task -> Seq(WriteSet)]
      /\ \A u \in Task \ {t} : writes'[u] = writes[u]
      /\ Infos(writes'[t]) \subseteq Infos(writes[t]) \cup {toInfo(t, m, e)}
      /\ m = "foreground" /\ ~e.suppressed => Infos(writes'[t]) = Infos(writes[t])
  <2>1. CASE writes' = writes BY <2>1 DEF Inv, Types
  <2>2. CASE writes' # writes
    BY <2>2, PersistStep DEF Inv, Waiters
  <2> QED BY <2>1, <2>2
<1>2. /\ task'[t] = e /\ mode'[t] = m /\ disk'[t] = disk[t]
      /\ \A u \in Task \ {t} : task'[u] = task[u] /\ mode'[u] = mode[u]
  BY DEF Inv, Types
<1>3. Types' BY <1>1 DEF Inv, Types, notices, turns, records
<1>4. TaskInv(t)'
  <2>1. /\ proc \notin {"down", "resuming"}
        /\ \A x \in Recorded(t) : /\ x.suppressed => task[t].suppressed
                                  /\ x.detached => IsDetached(t)
        /\ mode[t] = "foreground" => \A x \in Recorded(t) : x # NoInfo => x.suppressed
    BY DEF Inv, TaskInv, NothingBefore, SuppressedFirst, DetachedFirst, ForegroundIsQuiet
  <2>2. /\ toInfo(t, m, e).suppressed = e.suppressed
        /\ toInfo(t, m, e).detached <=> m \in {"background", "moved"}
    BY DEF toInfo
  <2>3. Recorded(t)' \subseteq Recorded(t) \cup {toInfo(t, m, e)}
    BY <1>1, <1>2 DEF Recorded
  <2>4. m = "foreground" /\ ~e.suppressed => Recorded(t)' = Recorded(t)
    BY <1>1, <1>2 DEF Recorded
  <2>5. \A x \in Recorded(t)' : x.suppressed => e.suppressed
    BY <2>1, <2>2, <2>3
  <2>6. \A x \in Recorded(t)' : x.detached => IsDetached(t)'
    BY <1>2, <2>1, <2>2, <2>3 DEF IsDetached
  <2>7. m = "foreground" => \A x \in Recorded(t)' : x # NoInfo => x.suppressed
    BY <2>1, <2>2, <2>3, <2>4
  <2> QED BY <1>2, <2>1, <2>5, <2>6, <2>7
          DEF TaskInv, NothingBefore, SuppressedFirst, DetachedFirst, ForegroundIsQuiet,
              GhostIsRecord
<1>5. ~MayBeTold(t) BY DEF MayBeTold
<1>6. \A u \in Task \ {t} : disk'[u] = disk[u] OBVIOUS
<1> QED BY <1>1, <1>2, <1>3, <1>4, <1>5, <1>6, TaskStep DEF notices, turns, records

LEMMA GivenUpIsLive ==
  ASSUME NEW e \in EntrySet, NEW why \in {"timeout", "stop"}
  PROVE  /\ GivenUp(e, why) \in EntrySet /\ GivenUp(e, why).suppressed = e.suppressed
         /\ e.at \in {None, "over"} => GivenUp(e, why) = e
         /\ e.at \notin {None, "over"} => GivenUp(e, why).at \notin {None, "over"}
<1>1. CASE e.at = "running"
  <2>1. GivenUp(e, why) = [e EXCEPT !.at = "grace", !.why = why] BY <1>1 DEF GivenUp
  <2> QED BY <1>1, <2>1 DEF EntrySet, Stages, None
<1>2. CASE e.at # "running"
  BY <1>2 DEF GivenUp
<1> QED BY <1>1, <1>2

LEMMA RunningStep ==
  ASSUME Inv, NEW t \in Task,
         \/ detach(t) \/ persistOutput(t) \/ timeout(t) \/ stop(t) \/ TaskStop(t)
         \/ workerSettles(t) \/ graceTimeout(t)
  PROVE  Inv'
<1> USE DEF None
<1>1. /\ task[t] \in EntrySet /\ mode[t] \in Modes
      /\ task = [task EXCEPT ![t] = task[t]] /\ mode = [mode EXCEPT ![t] = mode[t]]
      /\ task[t].at # None => mode[t] # "new"
  BY DEF Inv, Types, TaskInv, NothingBefore
<1>2. {"foreground", "spilled", "moved"} \subseteq Modes /\ Waiters # {} /\ None \in Waiters
      /\ "end" \in Waiters /\ "taskStop" \in Waiters
  BY DEF Modes, Waiters
<1>3. CASE detach(t)
  <2>1. /\ task[t].at \notin {None, "over"} /\ task' = task /\ mode' = [mode EXCEPT ![t] = "moved"]
        /\ persistLive(t, "moved", task[t], None)
        /\ UNCHANGED <<proc, disk, ghosts, notices, turns, records>>
    BY <1>3 DEF detach, Active
  <2> QED BY <1>1, <1>2, <2>1, LiveStep
<1>4. CASE persistOutput(t)
  <2>1. /\ task[t].at \notin {None, "over"} /\ task' = task /\ mode' = [mode EXCEPT ![t] = "spilled"]
        /\ writes' = writes /\ ~IsDetached(t)
        /\ UNCHANGED <<proc, disk, ghosts, notices, turns, records>>
    BY <1>4 DEF persistOutput, Active, IsDetached
  <2> QED BY <1>1, <1>2, <2>1, LiveStep
<1>5. ASSUME NEW why \in {"timeout", "stop"}, task[t].at = "running",
             task' = [task EXCEPT ![t] = GivenUp(@, why)],
             UNCHANGED <<proc, mode, writes, disk, ghosts, notices, turns, records>>
      PROVE  Inv'
  <2>1. task' = [task EXCEPT ![t] = GivenUp(task[t], why)] BY <1>5
  <2>2. mode' = [mode EXCEPT ![t] = mode[t]] BY <1>1, <1>5
  <2> DEFINE e == GivenUp(task[t], why)
  <2>3. task[t].at \notin {None, "over"} BY <1>5
  <2>4. mode[t] # "new" BY <1>1, <2>3
  <2>5. e \in EntrySet /\ e.at # None /\ e.suppressed = task[t].suppressed
    BY <1>1, <2>3, GivenUpIsLive
  <2>6. task' = [task EXCEPT ![t] = e] BY <2>1
  <2>7. mode[t] \in Modes BY <1>1
  <2>8. writes' = writes /\ UNCHANGED <<proc, disk, ghosts, notices, turns, records>> BY <1>5
  <2>9. IsDetached(t) => mode[t] \in {"background", "moved"} BY DEF IsDetached
  <2> HIDE DEF e
  <2> QED BY <2>2, <2>3, <2>4, <2>5, <2>6, <2>7, <2>8, <2>9, LiveStep
<1>6. CASE timeout(t) BY <1>5, <1>6 DEF timeout
<1>7. CASE stop(t) BY <1>5, <1>7 DEF stop
<1>8. CASE TaskStop(t)
  <2> DEFINE e == [task[t] EXCEPT !.suppressed = TRUE]
  <2>1. /\ task[t].at \notin {None, "over"} /\ task' = [task EXCEPT ![t] = e]
        /\ persistLive(t, mode[t], task'[t], "taskStop")
        /\ UNCHANGED <<proc, mode, disk, ghosts, notices, turns, records>>
    BY <1>8 DEF TaskStop, Active
  <2>2. e \in EntrySet /\ e.at = task[t].at /\ e.suppressed BY <1>1 DEF EntrySet
  <2> HIDE DEF e
  <2>3. persistLive(t, mode[t], e, "taskStop") BY <2>1 DEF Inv, Types
  <2>4. mode' = [mode EXCEPT ![t] = mode[t]] BY <1>1, <2>1
  <2>5. mode[t] \in Modes /\ mode[t] # "new" BY <1>1, <2>1
  <2>6. IsDetached(t) => mode[t] \in {"background", "moved"} BY DEF IsDetached
  <2> QED BY <2>1, <2>2, <2>3, <2>4, <2>5, <2>6, LiveStep
<1>9. ASSUME NEW status \in Statuses, task[t].at \in {"running", "grace"},
             UNCHANGED proc, finalizeTask(t, status)
      PROVE  Inv'
  <2> DEFINE e == [task[t] EXCEPT !.status = status,
                                  !.at = IF mode[t] = "foreground" THEN "over" ELSE "writing"]
  <2>1. /\ task' = [task EXCEPT ![t] = e]
        /\ IF mode[t] = "foreground" THEN UNCHANGED writes ELSE persistLive(t, mode[t], e, "end")
        /\ UNCHANGED <<mode, disk, ghosts, notices, turns, records>>
    BY <1>9 DEF finalizeTask
  <2>2. e \in EntrySet /\ e.at # None /\ e.suppressed = task[t].suppressed
    BY <1>1, <1>9 DEF EntrySet, Stages
  <2> HIDE DEF e
  <2>3. mode' = [mode EXCEPT ![t] = mode[t]] BY <1>1, <2>1
  <2>4. task[t].at \notin {None, "over"} BY <1>9
  <2>5. mode[t] \in Modes /\ mode[t] # "new" BY <1>1, <2>4
  <2>6. \/ writes' = writes
        \/ persistLive(t, mode[t], e, "end") /\ mode[t] # "foreground"
    BY <2>1
  <2>7. UNCHANGED <<proc, disk, ghosts, notices, turns, records>> BY <1>9, <2>1
  <2>8. IsDetached(t) => mode[t] \in {"background", "moved"} BY DEF IsDetached
  <2> QED BY <2>1, <2>2, <2>3, <2>4, <2>5, <2>6, <2>7, <2>8, LiveStep
<1>10. "completed" \in Statuses /\ AfterGrace(t) \in Statuses
  BY DEF Statuses, AfterGrace
<1>11. CASE workerSettles(t)
  BY <1>9, <1>10, <1>11 DEF workerSettles, finalizeTask
<1>12. CASE graceTimeout(t)
  BY <1>9, <1>10, <1>12 DEF graceTimeout, finalizeTask
<1> QED BY <1>3, <1>4, <1>6, <1>7, <1>8, <1>11, <1>12

(* A write reaches the disk or fails, and those who wait for it go on.     *)
LEMMA WriteStep ==
  ASSUME Inv, NEW t \in Task, writeTask(t)
  PROVE  Inv'
<1> DEFINE w == Head(writes[t])
           n == Notice(t, task[t].status)
<1>1. /\ writes[t] # <<>> /\ writes' = [writes EXCEPT ![t] = Tail(@)]
      /\ disk' = [disk EXCEPT ![t] = w.info] \/ disk' = disk
      /\ UNCHANGED <<proc, mode, ghosts, turns, records>>
  BY DEF writeTask
<1>2. /\ w \in WriteSet /\ w.info \in Infos(writes[t]) /\ Tail(writes[t]) \in Seq(WriteSet)
      /\ Infos(Tail(writes[t])) \subseteq Infos(writes[t])
  BY <1>1, InfosOfTail DEF Inv, Types
<1>3. task[t].at # None /\ mode[t] # "new" /\ proc \notin {"down", "resuming"}
  BY <1>1 DEF Inv, TaskInv, NothingBefore
<1>4. /\ task' \in [Task -> EntrySet]
      /\ \A u \in Task \ {t} : task'[u] = task[u]
      /\ task'[t].at # None /\ task'[t].suppressed = task[t].suppressed
      /\ task[t].at = "over" => task'[t].at = "over"
      /\ \/ UNCHANGED notices
         \/ /\ scheduled' = scheduled \cup {n} /\ building' = building \cup {n}
            /\ IsDetached(t) /\ ~task[t].suppressed /\ task'[t].at = "over"
  <2>1. task[t] \in EntrySet /\ task \in [Task -> EntrySet] BY DEF Inv, Types
  <2>2. CASE w.by = "end"
    <3> DEFINE e == [task[t] EXCEPT !.at = "over"]
    <3>1. e \in EntrySet /\ e.at = "over" /\ e.suppressed = task[t].suppressed
      BY <2>1 DEF EntrySet, Stages
    <3>2. task' = [task EXCEPT ![t] = e] /\ fireTerminalEffects(t)
      BY <2>2 DEF writeTask
    <3>3. \/ UNCHANGED notices
          \/ /\ scheduled' = scheduled \cup {n} /\ building' = building \cup {n}
             /\ IsDetached(t) /\ ~task[t].suppressed
      BY <3>2 DEF fireTerminalEffects
    <3> HIDE DEF e
    <3> QED BY <2>1, <3>1, <3>2, <3>3 DEF None
  <2>3. CASE w.by = "taskStop"
    <3> DEFINE e == GivenUp(task[t], "stop")
    <3>1. task' = [task EXCEPT ![t] = e] /\ UNCHANGED notices
      BY <2>3 DEF writeTask
    <3>2. /\ e \in EntrySet /\ e.at # None /\ e.suppressed = task[t].suppressed
          /\ task[t].at = "over" => e.at = "over"
      BY <1>3, <2>1, GivenUpIsLive
    <3> HIDE DEF e
    <3> QED BY <2>1, <3>1, <3>2
  <2>4. CASE w.by \notin {"end", "taskStop"}
    BY <1>3, <2>1, <2>4 DEF writeTask
  <2> QED BY <2>2, <2>3, <2>4
<1> HIDE DEF w
<1>5. /\ writes'[t] = Tail(writes[t]) /\ disk'[t] \in {w.info, disk[t]}
      /\ \A u \in Task \ {t} : writes'[u] = writes[u] /\ disk'[u] = disk[u]
      /\ writes' \in [Task -> Seq(WriteSet)] /\ disk' \in [Task -> InfoSet]
  BY <1>1, <1>2 DEF Inv, Types, WriteSet
<1>6. Recorded(t)' \subseteq Recorded(t) BY <1>2, <1>5 DEF Recorded
<1>7. \A u \in Task \ {t} : Recorded(u)' = Recorded(u) BY <1>5 DEF Recorded
<1>8. mode' = mode /\ proc' = proc /\ ghosts' = ghosts BY <1>1
<1>9. Types'
  <2>1. n \in NoticeSet BY DEF Notice, NoticeSet, Inv, Types, EntrySet
  <2> QED BY <1>1, <1>4, <1>5, <1>8, <2>1 DEF Inv, Types, notices, turns, records
<1>10. ASSUME NEW u \in Task PROVE TaskInv(u)'
  <2>1. CASE u = t
    <3>1. /\ SuppressedFirst(t)' /\ DetachedFirst(t)' /\ ForegroundIsQuiet(t)'
      BY <1>3, <1>4, <1>6, <1>8
         DEF Inv, TaskInv, SuppressedFirst, DetachedFirst, ForegroundIsQuiet, IsDetached
    <3> QED BY <1>3, <1>4, <1>8, <2>1, <3>1 DEF TaskInv, NothingBefore, GhostIsRecord
  <2>2. CASE u # t
    BY <1>4, <1>5, <1>7, <1>8, <2>2
       DEF Inv, TaskInv, NothingBefore, SuppressedFirst, DetachedFirst, ForegroundIsQuiet,
           GhostIsRecord, IsDetached
  <2> QED BY <2>1, <2>2
<1>11. \A u \in Task : MayBeTold(u) => MayBeTold(u)'
  BY <1>3, <1>4, <1>6, <1>7, <1>8 DEF MayBeTold, IsDetached
<1>12. NoticesInv'
  <2>1. Sent' = Sent \/ (Sent' = Sent \cup {n} /\ MayBeTold(t)')
    <3>1. CASE UNCHANGED notices
      BY <1>1, <3>1 DEF Sent, notices, turns, records
    <3>2. CASE /\ building' = building \cup {n} /\ IsDetached(t) /\ ~task[t].suppressed
               /\ task'[t].at = "over"
      <4>1. Sent' = Sent \cup {n} BY <1>1, <3>2 DEF Sent, turns, records
      <4>2. \A x \in Recorded(t) : ~x.suppressed
        BY <1>3, <3>2 DEF Inv, TaskInv, SuppressedFirst
      <4> QED BY <1>6, <1>8, <3>2, <4>1, <4>2 DEF MayBeTold, IsDetached
    <3> QED BY <1>4, <3>1, <3>2
  <2>2. n.task = t BY DEF Notice
  <2> HIDE DEF n
  <2> QED BY <1>11, <2>1, <2>2 DEF Inv, NoticesInv
<1> QED BY <1>9, <1>10, <1>12 DEF Inv

(* The steps of the turns and of the notices.                              *)
LEMMA SentByTurns ==
  ASSUME Inv,
         \/ \E n \in Notices : steer(n) \/ runCancelledTurn(n) \/ restored(n)
         \/ prompt \/ runOneTurn \/ flushSteerBuffer \/ stopsAnswering \/ turnEnds
         \/ finishResume \/ flush
  PROVE  Inv'
<1>0. Types BY DEF Inv
<1>1. \A m \in NoticeSet, s \in Seq(NoticeSet) :
        Append(s, m) \in Seq(NoticeSet) /\ Elems(Append(s, m)) = Elems(s) \cup {m}
  BY ElemsOfAppend
<1>2. turn.input \in NoticeSet BY <1>0 DEF Types, TurnSet
<1>3. /\ NoNotice \in NoticeSet /\ NoNotice.task \notin Task
      /\ Result \in NoticeSet /\ Result.task \notin Task
  BY BackgroundConstants DEF NoNotice, Result, Notice, NoticeSet, Statuses
<1>4. ASSUME NEW n \in Notices, steer(n) PROVE Inv'
  <2>1. /\ n \in building /\ building' = building \ {n}
        /\ UNCHANGED <<proc, manager, orphans, log, durable>>
    BY <1>4 DEF steer, notices, turns, records
  <2>2. \/ UNCHANGED <<turn, steerBuffer>>
        \/ turn' = [at |-> "launched", input |-> n] /\ UNCHANGED steerBuffer
        \/ steerBuffer' = Append(steerBuffer, n) /\ UNCHANGED turn
    BY <1>4 DEF steer, notices, turns, records
  <2>5. n \in NoticeSet /\ turn \in TurnSet /\ steerBuffer \in Seq(NoticeSet)
    BY <1>0, <2>1 DEF Types
  <2>6. /\ steerBuffer' \in Seq(NoticeSet) /\ Elems(steerBuffer') \subseteq Elems(steerBuffer) \cup {n}
    <3>1. steerBuffer' = steerBuffer \/ steerBuffer' = Append(steerBuffer, n) BY <2>2
    <3> QED BY <1>1, <2>5, <3>1
  <2>7. turn' \in TurnSet /\ turn'.input \in {turn.input, n}
    <3>1. turn' = turn \/ turn' = [at |-> "launched", input |-> n] BY <2>2
    <3> QED BY <2>5, <3>1 DEF TurnSet
  <2>3. Types' BY <1>0, <2>1, <2>6, <2>7 DEF Types, manager
  <2>4. \A m \in Sent' : m \in Sent BY <2>1, <2>6, <2>7 DEF Sent
  <2> QED BY <2>1, <2>3, <2>4, TurnStep
<1>5. ASSUME NEW n \in Notices, runCancelledTurn(n) \/ restored(n) PROVE Inv'
  <2>1. /\ n \in orphans \cup building /\ log' = Append(log, n)
        /\ building' \subseteq building /\ orphans' \subseteq orphans
        /\ UNCHANGED <<proc, manager, turn, steerBuffer, durable>>
    BY <1>5 DEF runCancelledTurn, restored, notices, turns, records
  <2>2. Types' BY <1>0, <1>1, <2>1 DEF Types, manager, notices, turns, records
  <2>3. \A m \in Sent' : m \in Sent BY <1>0, <1>1, <2>1, ElemsOfNone
         DEF Types, Sent, notices, turns, records
  <2> QED BY <2>1, <2>2, <2>3, TurnStep
<1>6. ASSUME prompt \/ stopsAnswering \/ turnEnds PROVE Inv'
  <2>1. /\ turn'.input \in {NoNotice, turn.input} /\ turn' \in TurnSet
        /\ UNCHANGED <<proc, manager, notices, orphans, steerBuffer, records>>
    BY <1>0, <1>2, <1>3, <1>6 DEF prompt, stopsAnswering, turnEnds, NoTurn, Types, TurnSet
  <2>2. Types' BY <1>0, <2>1 DEF Types, manager, notices, turns, records
  <2>3. \A m \in Sent' : m \in Sent \/ m.task \notin Task BY <1>0, <1>3, <2>1, ElemsOfNone
         DEF Types, Sent, notices, turns, records
  <2> QED BY <2>1, <2>2, <2>3, TurnStep
<1>7. ASSUME runOneTurn PROVE Inv'
  <2>1. /\ turn'.input = NoNotice /\ turn' \in TurnSet
        /\ log' = log \/ log' = Append(log, turn.input)
        /\ UNCHANGED <<proc, manager, notices, orphans, steerBuffer, durable>>
    BY <1>0, <1>3, <1>7 DEF runOneTurn, Types, TurnSet, notices, turns, records
  <2>4. log' \in Seq(NoticeSet) /\ Elems(log') \subseteq Elems(log) \cup {turn.input}
    BY <1>0, <1>1, <1>2, <2>1 DEF Types
  <2>2. Types' BY <1>0, <2>1, <2>4 DEF Types, manager, notices
  <2>3. \A m \in Sent' : m \in Sent \/ m.task \notin Task
    BY <1>3, <2>1, <2>4 DEF Sent, notices
  <2> QED BY <2>1, <2>2, <2>3, TurnStep
<1>8. ASSUME flushSteerBuffer PROVE Inv'
  <2>1. /\ log' = log \o steerBuffer /\ steerBuffer' = <<>>
        /\ UNCHANGED <<proc, manager, notices, turn, orphans, durable>>
    BY <1>8 DEF flushSteerBuffer, notices, turns, records
  <2>2. log' \in Seq(NoticeSet) /\ Elems(log') \subseteq Elems(log) \cup Elems(steerBuffer)
    BY <1>0, <2>1, ElemsOfConcat DEF Types
  <2>3. Types' BY <1>0, <2>1, <2>2 DEF Types, manager, notices, turns, records
  <2>4. \A m \in Sent' : m \in Sent BY <1>0, <2>1, <2>2, ElemsOfNone
         DEF Types, Sent, notices, turns, records
  <2> QED BY <2>1, <2>3, <2>4, TurnStep
<1>9. ASSUME finishResume PROVE Inv'
  <2>1. /\ log' = log \/ log' = Append(log, Result)
        /\ steerBuffer' = <<>> /\ proc' = "up"
        /\ UNCHANGED <<manager, notices, turn, orphans, durable>>
    BY <1>9 DEF finishResume, notices, turns, records
  <2>4. log' \in Seq(NoticeSet) /\ Elems(log') \subseteq Elems(log) \cup {Result}
    <3>1. log \in Seq(NoticeSet) BY <1>0 DEF Types
    <3>2. Append(log, Result) \in Seq(NoticeSet) /\ Elems(Append(log, Result)) = Elems(log) \cup {Result}
      BY <1>1, <1>3, <3>1
    <3> QED BY <2>1, <3>1, <3>2
  <2>2. Types' BY <1>0, <2>1, <2>4 DEF Types, manager, notices
  <2>3. \A m \in Sent' : m \in Sent \/ m.task \notin Task
    BY <1>3, <2>1, <2>4, ElemsOfNone DEF Sent, notices
  <2> QED BY <2>1, <2>2, <2>3, TurnStep
<1>10. ASSUME flush PROVE Inv'
  <2>1. /\ durable' = Len(log) /\ UNCHANGED <<proc, manager, notices, turns, log>>
    BY <1>10 DEF flush, notices, turns, records
  <2>2. Types' BY <1>0, <2>1 DEF Types, manager, notices, turns, records
  <2>3. \A m \in Sent' : m \in Sent BY <1>0, <2>1, ElemsOfNone
         DEF Types, Sent, notices, turns, records
  <2> QED BY <2>1, <2>2, <2>3, TurnStep
<1> QED BY <1>4, <1>5, <1>6, <1>7, <1>8, <1>9, <1>10

-----------------------------------------------------------------------------
(* The turn and the session are given up.                                  *)

LEMMA AbortStep ==
  ASSUME Inv, proc = "up", proc' \in {"up", "cancelling"}, abortTurn,
         UNCHANGED <<mode, writes, disk, ghosts, notices, steerBuffer, records>>
  PROVE  Inv'
<1>1. /\ task' \in [Task -> EntrySet]
      /\ \A t \in Task : /\ task'[t].suppressed = task[t].suppressed
                         /\ task[t].at \in {None, "over"} => task'[t] = task[t]
                         /\ task[t].at \notin {None, "over"} => task'[t].at \notin {None, "over"}
  <2>1. task' = [t \in Task |-> IF IsDetached(t) THEN task[t] ELSE GivenUp(task[t], "stop")]
    BY DEF abortTurn
  <2>2. task \in [Task -> EntrySet] BY DEF Inv, Types
  <2> QED BY <2>1, <2>2, GivenUpIsLive
<1>2. turn' = NoTurn /\ orphans' \subseteq orphans \cup {turn.input}
  BY DEF abortTurn
<1>3. /\ NoTurn \in TurnSet /\ NoTurn.input = NoNotice /\ NoNotice.task \notin Task
      /\ turn.input \in NoticeSet
  BY BackgroundConstants DEF NoTurn, NoNotice, Notice, TurnSet, NoticeSet, Statuses, Inv, Types
<1>4. Types' BY <1>1, <1>2, <1>3 DEF Inv, Types, notices, records
<1>5. \A t \in Task : Recorded(t)' = Recorded(t) BY DEF Recorded
<1>6. \A t \in Task : TaskInv(t)'
  BY <1>1, <1>5 DEF Inv, TaskInv, NothingBefore, SuppressedFirst, DetachedFirst,
                    ForegroundIsQuiet, GhostIsRecord, IsDetached
<1>7. \A m \in Sent' : m \in Sent \/ m.task \notin Task
  BY <1>2, <1>3 DEF Sent, notices, records
<1>8. \A t \in Task : MayBeTold(t) => MayBeTold(t)'
  BY <1>1, <1>5 DEF MayBeTold, IsDetached
<1> QED BY <1>4, <1>6, <1>7, <1>8 DEF Inv, NoticesInv

LEMMA SuppressStep == Inv /\ stopBackgroundTasksOnExit => Inv'
<1> SUFFICES ASSUME Inv, stopBackgroundTasksOnExit PROVE Inv' OBVIOUS
<1> DEFINE listed == {t \in Task : Active(t) /\ ~task[t].suppressed}
           Quiet(t) == [task[t] EXCEPT !.suppressed = TRUE]
           w(t) == [info |-> toInfo(t, mode[t], Quiet(t)), by |-> "close"]
<1>1. /\ proc = "cancelling" /\ proc' = "suppressing"
      /\ task' = [t \in Task |-> IF t \in listed THEN Quiet(t) ELSE task[t]]
      /\ writes' = [t \in Task |-> IF t \in listed THEN Append(writes[t], w(t)) ELSE writes[t]]
      /\ UNCHANGED <<mode, disk, ghosts, notices, turns, records>>
  BY DEF stopBackgroundTasksOnExit
<1>2. ASSUME NEW t \in listed
      PROVE  /\ Quiet(t) \in EntrySet /\ Quiet(t).at = task[t].at /\ Quiet(t).suppressed
             /\ w(t) \in WriteSet /\ w(t).info.suppressed
             /\ w(t).info.detached <=> IsDetached(t)
  <2>1. task[t] \in EntrySet BY DEF Inv, Types
  <2>2. Quiet(t) \in EntrySet /\ Quiet(t).at = task[t].at /\ Quiet(t).suppressed
    BY <2>1 DEF EntrySet
  <2> HIDE DEF Quiet
  <2>3. /\ toInfo(t, mode[t], Quiet(t)) \in InfoSet
        /\ toInfo(t, mode[t], Quiet(t)).suppressed
        /\ toInfo(t, mode[t], Quiet(t)).detached <=> IsDetached(t)
    <3>1. toInfo(t, mode[t], Quiet(t)) \in InfoSet
      BY <2>2 DEF toInfo, EntrySet, InfoSet
    <3>2. toInfo(t, mode[t], Quiet(t)).suppressed BY <2>2 DEF toInfo
    <3>3. toInfo(t, mode[t], Quiet(t)).detached <=> IsDetached(t) BY DEF toInfo, IsDetached
    <3> QED BY <3>1, <3>2, <3>3
  <2> QED BY <2>2, <2>3 DEF WriteSet, Waiters
<1>3. \A t \in listed : task[t].at \notin {None, "over"} BY DEF Active, None
<1>4. \A t \in listed : /\ Append(writes[t], w(t)) \in Seq(WriteSet)
                        /\ Infos(Append(writes[t], w(t))) = Infos(writes[t]) \cup {w(t).info}
  BY <1>2, InfosOfAppend DEF Inv, Types
<1> HIDE DEF Quiet, w
<1>5. /\ \A t \in listed : task'[t] = Quiet(t) /\ writes'[t] = Append(writes[t], w(t))
      /\ \A t \in Task \ listed : task'[t] = task[t] /\ writes'[t] = writes[t]
  BY <1>1
<1>6. Types'
  BY <1>1, <1>2, <1>4 DEF Inv, Types, notices, turns, records
<1>7. /\ \A t \in listed : Recorded(t)' = Recorded(t) \cup {w(t).info}
      /\ \A t \in Task \ listed : Recorded(t)' = Recorded(t)
  BY <1>1, <1>4, <1>5 DEF Recorded
<1>8. ASSUME NEW t \in Task PROVE TaskInv(t)'
  <2>1. CASE t \in listed
    <3>1. TaskInv(t) BY DEF Inv
    <3>2. task'[t].at = task[t].at /\ task'[t].suppressed /\ task[t].at # None
      BY <1>2, <1>3, <1>5, <2>1
    <3>3. \A x \in Recorded(t)' : x \in Recorded(t) \/ (x.suppressed /\ (x.detached <=> IsDetached(t)))
      BY <1>2, <1>7, <2>1
    <3> HIDE DEF listed
    <3> QED BY <1>1, <3>1, <3>2, <3>3
            DEF TaskInv, NothingBefore, SuppressedFirst, DetachedFirst, ForegroundIsQuiet,
                GhostIsRecord, IsDetached
  <2>2. CASE t \notin listed
    BY <1>1, <1>5, <1>7, <2>2
       DEF Inv, TaskInv, NothingBefore, SuppressedFirst, DetachedFirst, ForegroundIsQuiet,
           GhostIsRecord, IsDetached
  <2> QED BY <2>1, <2>2
<1>9. \A t \in Task : MayBeTold(t) => MayBeTold(t)'
  BY <1>1, <1>3, <1>5, <1>7 DEF MayBeTold, IsDetached
<1>10. Sent' = Sent BY <1>1 DEF Sent, notices, turns, records
<1> QED BY <1>6, <1>8, <1>9, <1>10 DEF Inv, NoticesInv

LEMMA StopAllStep == Inv /\ stopAll => Inv'
<1> SUFFICES ASSUME Inv, stopAll PROVE Inv' OBVIOUS
<1>1. /\ proc = "suppressing" /\ proc' = "stopping"
      /\ task' = [t \in Task |-> GivenUp(task[t], "stop")]
      /\ UNCHANGED <<mode, writes, disk, ghosts, notices, turns, records>>
  BY DEF stopAll
<1>2. /\ task' \in [Task -> EntrySet]
      /\ \A t \in Task : /\ task'[t].suppressed = task[t].suppressed
                         /\ task[t].at \in {None, "over"} => task'[t] = task[t]
                         /\ task[t].at \notin {None, "over"} => task'[t].at \notin {None, "over"}
  <2>1. task \in [Task -> EntrySet] BY DEF Inv, Types
  <2> QED BY <1>1, <2>1, GivenUpIsLive
<1>3. Types' BY <1>1, <1>2 DEF Inv, Types, notices, turns, records
<1>4. \A t \in Task : Recorded(t)' = Recorded(t) BY <1>1 DEF Recorded
<1>5. \A t \in Task : TaskInv(t)'
  BY <1>1, <1>2, <1>4 DEF Inv, TaskInv, NothingBefore, SuppressedFirst, DetachedFirst,
                          ForegroundIsQuiet, GhostIsRecord, IsDetached
<1>6. Sent' = Sent BY <1>1 DEF Sent, notices, turns, records
<1>7. \A t \in Task : MayBeTold(t) => MayBeTold(t)'
  BY <1>1, <1>2, <1>4 DEF MayBeTold, IsDetached
<1> QED BY <1>3, <1>5, <1>6, <1>7 DEF Inv, NoticesInv

-----------------------------------------------------------------------------
(* The process ends with a part of its log on disk, and another resumes.   *)

LEMMA EndStep ==
  ASSUME Inv, NEW l \in Seq(NoticeSet), ProcessEnds(l),
         \A n \in Elems(l) : n \in Sent \/ n.task \notin Task,
         UNCHANGED <<mode, disk>>, ghosts' \in [Task -> InfoSet]
  PROVE  Inv'
<1>1. /\ proc' = "down" /\ task' = Fresh /\ writes' = [t \in Task |-> <<>>]
      /\ building' = {} /\ orphans' = {} /\ steerBuffer' = <<>> /\ turn' = NoTurn
      /\ log' = l /\ durable' = Len(l)
  BY DEF ProcessEnds
<1>2. /\ NoTurn \in TurnSet /\ NoTurn.input = NoNotice /\ NoNotice.task \notin Task
  BY BackgroundConstants DEF NoTurn, NoNotice, Notice, TurnSet, NoticeSet, Statuses
<1>3. Fresh \in [Task -> EntrySet] /\ \A t \in Task : Fresh[t].at = None
  BY DEF Fresh, EntrySet, Stages, Statuses, None
<1>4. /\ writes' \in [Task -> Seq(WriteSet)]
      /\ \A t \in Task : writes'[t] = <<>> /\ task'[t].at = None
  BY <1>1, <1>3
<1>5. Types' BY <1>1, <1>2, <1>3, <1>4 DEF Inv, Types
<1>6. \A t \in Task : Recorded(t)' \subseteq Recorded(t)
  BY <1>4, InfosOfNone DEF Recorded
<1>7. \A t \in Task : TaskInv(t)'
  BY <1>1, <1>4, <1>6 DEF Inv, TaskInv, NothingBefore, SuppressedFirst, DetachedFirst,
                          ForegroundIsQuiet, GhostIsRecord, IsDetached
<1>8. \A n \in Sent' : n \in Sent \/ n.task \notin Task
  BY <1>1, <1>2, ElemsOfNone DEF Sent
<1>9. \A t \in Task : MayBeTold(t) => MayBeTold(t)'
  BY <1>4, <1>6 DEF MayBeTold, IsDetached
<1> QED BY <1>5, <1>7, <1>8, <1>9 DEF Inv, NoticesInv

LEMMA CrashStep == Inv /\ (exit \/ crash) => Inv'
<1> SUFFICES ASSUME Inv, exit \/ crash PROVE Inv' OBVIOUS
<1>1. /\ UNCHANGED <<mode, disk, ghosts>>
      /\ \E n \in durable..Len(log) : \/ ProcessEnds(SubSeq(log, 1, n))
                                      \/ ProcessEnds(Append(SubSeq(log, 1, n), Call))
  BY DEF exit, crash
<1>2. PICK n \in durable..Len(log) : \/ ProcessEnds(SubSeq(log, 1, n))
                                     \/ ProcessEnds(Append(SubSeq(log, 1, n), Call))
  BY <1>1
<1> DEFINE l == SubSeq(log, 1, n)
<1>3. log \in Seq(NoticeSet) /\ durable \in Nat BY DEF Inv, Types
<1>4. n \in Nat /\ n <= Len(log) BY <1>3
<1>5. l \in Seq(NoticeSet) /\ Elems(l) \subseteq Elems(log) BY <1>3, <1>4, ElemsOfPrefix
<1>6. Call \in NoticeSet /\ Call.task \notin Task
  BY BackgroundConstants DEF Call, Notice, NoticeSet, Statuses
<1> HIDE DEF l
<1>7. Append(l, Call) \in Seq(NoticeSet) /\ Elems(Append(l, Call)) = Elems(l) \cup {Call}
  BY <1>5, <1>6, ElemsOfAppend
<1>8. ghosts' \in [Task -> InfoSet] BY <1>1 DEF Inv, Types
<1>9. Elems(log) \subseteq Sent BY DEF Sent
<1>10. CASE ProcessEnds(l) BY <1>1, <1>5, <1>8, <1>9, <1>10, EndStep
<1>11. CASE ProcessEnds(Append(l, Call))
  BY <1>1, <1>5, <1>6, <1>7, <1>8, <1>9, <1>11, EndStep
<1> QED BY <1>2, <1>10, <1>11 DEF l

LEMMA ResumeStep == Inv /\ resume => Inv'
<1> SUFFICES ASSUME Inv, resume PROVE Inv' OBVIOUS
<1>1. /\ proc = "down" /\ proc' = "resuming" /\ ghosts' = disk
      /\ UNCHANGED <<task, mode, writes, disk, notices, turns, records>>
  BY DEF resume
<1>2. Types' BY <1>1 DEF Inv, Types, notices, turns, records
<1>3. \A t \in Task : Recorded(t)' = Recorded(t) BY <1>1 DEF Recorded
<1>4. \A t \in Task : TaskInv(t)'
  BY <1>1, <1>3 DEF Inv, TaskInv, NothingBefore, SuppressedFirst, DetachedFirst,
                    ForegroundIsQuiet, GhostIsRecord, IsDetached
<1>5. Sent' = Sent BY <1>1 DEF Sent, notices, turns, records
<1>6. \A t \in Task : MayBeTold(t) => MayBeTold(t)'
  BY <1>1, <1>3 DEF MayBeTold, IsDetached
<1> QED BY <1>2, <1>4, <1>5, <1>6 DEF Inv, NoticesInv

LEMMA MarkLostStep ==
  ASSUME Inv, NEW t \in Task, markLoadedTasksLost(t)
  PROVE  Inv'
<1> DEFINE g == [ghosts[t] EXCEPT !.status = "lost"]
<1>1. /\ proc = "resuming" /\ ghosts[t].status = "running" /\ ghosts' = [ghosts EXCEPT ![t] = g]
      /\ UNCHANGED mode
      /\ \/ /\ disk' = [disk EXCEPT ![t] = ghosts'[t]]
            /\ UNCHANGED <<proc, task, writes, notices, turns, records>>
         \/ ProcessEnds(log) /\ UNCHANGED disk
  BY DEF markLoadedTasksLost
<1>2. ghosts[t] \in InfoSet /\ ghosts[t] # NoInfo
  BY <1>1 DEF Inv, Types, NoInfo, None
<1>3. /\ g \in InfoSet /\ g.suppressed = ghosts[t].suppressed /\ g.detached = ghosts[t].detached
      /\ g # NoInfo
  BY <1>2 DEF InfoSet, Statuses, NoInfo, None
<1> HIDE DEF g
<1>4. /\ ghosts' \in [Task -> InfoSet] /\ ghosts'[t] = g
      /\ \A u \in Task \ {t} : ghosts'[u] = ghosts[u]
  BY <1>1, <1>3 DEF Inv, Types
<1>5. CASE ProcessEnds(log) /\ UNCHANGED disk
  <2>1. log \in Seq(NoticeSet) BY DEF Inv, Types
  <2>2. \A n \in Elems(log) : n \in Sent BY DEF Sent
  <2> QED BY <1>1, <1>4, <1>5, <2>1, <2>2, EndStep
<1>6. CASE /\ disk' = [disk EXCEPT ![t] = ghosts'[t]]
           /\ UNCHANGED <<proc, task, writes, notices, turns, records>>
  <2>1. /\ disk' \in [Task -> InfoSet] /\ disk'[t] = g
        /\ \A u \in Task \ {t} : disk'[u] = disk[u]
    BY <1>3, <1>4, <1>6 DEF Inv, Types
  <2>2. Types' BY <1>1, <1>4, <1>6, <2>1 DEF Inv, Types, notices, turns, records
  <2>3. task[t].at = None /\ writes[t] = <<>> /\ mode[t] # "new"
    BY <1>1, <1>2 DEF Inv, TaskInv, NothingBefore, GhostIsRecord
  <2>4. /\ disk[t] # NoInfo /\ g.suppressed = disk[t].suppressed
        /\ g.detached = disk[t].detached
    BY <1>1, <1>2, <1>3 DEF Inv, TaskInv, GhostIsRecord
  <2>5. Recorded(t) = {disk[t]} /\ Recorded(t)' = {g}
    BY <1>6, <2>1, <2>3, InfosOfNone DEF Recorded
  <2>6. \A u \in Task \ {t} : Recorded(u)' = Recorded(u) BY <1>6, <2>1 DEF Recorded
  <2>7. ASSUME NEW u \in Task PROVE TaskInv(u)'
    <3>1. CASE u = t
      BY <1>1, <1>3, <1>4, <1>6, <2>1, <2>3, <2>4, <2>5, <3>1
         DEF Inv, TaskInv, NothingBefore, SuppressedFirst, DetachedFirst, ForegroundIsQuiet,
             GhostIsRecord, IsDetached
    <3>2. CASE u # t
      BY <1>1, <1>4, <1>6, <2>1, <2>6, <3>2
         DEF Inv, TaskInv, NothingBefore, SuppressedFirst, DetachedFirst, ForegroundIsQuiet,
             GhostIsRecord, IsDetached
    <3> QED BY <3>1, <3>2
  <2>8. Sent' = Sent BY <1>6 DEF Sent, notices, turns, records
  <2>9. \A u \in Task : MayBeTold(u) => MayBeTold(u)'
    BY <1>1, <1>6, <2>4, <2>5, <2>6 DEF MayBeTold, IsDetached
  <2> QED BY <2>2, <2>7, <2>8, <2>9 DEF Inv, NoticesInv
<1> QED BY <1>1, <1>5, <1>6

(* A resume sends the notices its records call for.                        *)
LEMMA RestoreStep ==
  ASSUME Inv, NEW n \in Notices, restoreBackgroundTaskNotification(n)
  PROVE  Inv'
<1>1. /\ proc = "resuming" /\ n \in ToRestore /\ building' = {n}
      /\ UNCHANGED <<proc, manager, turns, records>>
  BY DEF restoreBackgroundTaskNotification, Reconciled
<1>2. n \in NoticeSet BY DEF Notices, NoticeSet, Statuses
<1>3. n.task \in Task /\ ghosts[n.task] # NoInfo /\ ghosts[n.task].detached
      /\ ~ghosts[n.task].suppressed
  BY <1>1 DEF ToRestore, Notice
<1>4. MayBeTold(n.task)
  <2>1. TaskInv(n.task) BY <1>3 DEF Inv
  <2>2. task[n.task].at = None /\ writes[n.task] = <<>>
    BY <1>1, <2>1 DEF TaskInv, NothingBefore
  <2>3. ~disk[n.task].suppressed /\ disk[n.task].detached
    BY <1>1, <1>3, <2>1 DEF TaskInv, GhostIsRecord
  <2>4. Recorded(n.task) = {disk[n.task]} BY <2>2, InfosOfNone DEF Recorded
  <2> QED BY <2>1, <2>2, <2>3, <2>4 DEF MayBeTold, TaskInv, DetachedFirst
<1>5. Types' BY <1>1, <1>2 DEF Inv, Types, manager, turns, records
<1>6. \A t \in Task : Recorded(t)' = Recorded(t) BY <1>1 DEF Recorded, manager
<1>7. \A t \in Task : TaskInv(t)'
  BY <1>1, <1>6 DEF Inv, TaskInv, NothingBefore, SuppressedFirst, DetachedFirst,
                    ForegroundIsQuiet, GhostIsRecord, IsDetached, manager
<1>8. \A m \in Sent' : m \in Sent \/ m = n BY <1>1 DEF Sent, turns, records
<1>9. \A t \in Task : MayBeTold(t) => MayBeTold(t)'
  BY <1>1, <1>6 DEF MayBeTold, IsDetached, manager
<1> QED BY <1>3, <1>4, <1>5, <1>7, <1>8, <1>9 DEF Inv, NoticesInv

-----------------------------------------------------------------------------

LEMMA NextInv == Inv /\ [Next]_vars => Inv'
<1>1. ASSUME Inv, UNCHANGED vars PROVE Inv'
  <2>1. Types' /\ UNCHANGED manager /\ proc' = proc
    BY <1>1 DEF Inv, Types, vars, manager, notices, turns, records
  <2>2. \A n \in Sent' : n \in Sent BY <1>1 DEF vars, Sent, notices, turns, records
  <2> QED BY <1>1, <2>1, <2>2, TurnStep
<1>2. ASSUME Inv, cancel \/ close PROVE Inv'
  BY <1>2, AbortStep DEF cancel, close
<1>3. ASSUME Inv, Next PROVE Inv'
  BY <1>2, <1>3, RegisterStep, RunningStep, WriteStep, SentByTurns, SuppressStep, StopAllStep,
     CrashStep, ResumeStep, MarkLostStep, RestoreStep DEF Next
<1> QED BY <1>1, <1>3

(* Types, and that a suppression, a detachment and a notice are where the  *)
(* others who decide from them will find them: the invariant of the        *)
(* manager (packages/agent-core/src/agent/background/index.ts).            *)
THEOREM RecordsAgree == Spec => []Inv
BY InitInv, NextInv, PTL DEF Spec

LEMMA ToldIsSent ==
  ASSUME Inv, NEW t \in Task, ~MayBeTold(t)
  PROVE  Told(t) = 0
<1>1. DOMAIN log = 1..Len(log) BY DEF Inv, Types
<1>2. \A i \in 1..Len(log) : log[i] \in Sent BY DEF Sent, Elems
<1>3. \A i \in DOMAIN log : log[i].task # t BY <1>1, <1>2 DEF Inv, NoticesInv
<1>4. {i \in DOMAIN log : log[i].task = t} = {} BY <1>3
<1> QED BY <1>4, FS_EmptySet DEF Told

(* The model is never told of a task whose record says that its notice is  *)
(* suppressed: no process sends it, and none that resumes later does.      *)
THEOREM SuppressedStaysQuiet == Spec => []SuppressedIsQuiet
<1>1. Inv => SuppressedIsQuiet
  BY ToldIsSent DEF SuppressedIsQuiet, MayBeTold, Recorded
<1> QED BY <1>1, RecordsAgree, PTL

(* A foreground task leaves nothing on disk but a suppression, and the     *)
(* model is told of no task that was not detached.                         *)
THEOREM ForegroundStaysQuiet == Spec => []ForegroundLeavesNothing
<1>1. Inv => ForegroundLeavesNothing
  <2> SUFFICES ASSUME Inv, NEW t \in Task
               PROVE  /\ mode[t] = "foreground" /\ IsOnDisk(t) => disk[t].suppressed
                      /\ mode[t] \in {"foreground", "spilled"} => Told(t) = 0
    BY DEF ForegroundLeavesNothing
  <2>1. mode[t] = "foreground" /\ IsOnDisk(t) => disk[t].suppressed
    BY DEF Inv, TaskInv, ForegroundIsQuiet, Recorded, IsOnDisk
  <2>2. mode[t] \in {"foreground", "spilled"} => ~MayBeTold(t)
    BY DEF MayBeTold, IsDetached
  <2> QED BY <2>1, <2>2, ToldIsSent
<1> QED BY <1>1, RecordsAgree, PTL
-----------------------------------------------------------------------------
(* How often a process may still end, but for resumes that fail.           *)
EndsLeft(s) == s["crash"] + s["openCall"] + s["close"]

(* No record is lost before a process ends, and if a process ends in the   *)
(* middle of a tool call no other ends after it.                           *)
Sparing(s) == /\ s["writeFails"] = 0 \/ EndsLeft(s) = 0
              /\ s["openCall"] = 0 \/ EndsLeft(s) = 1

NoCall(l) == \A i \in 1..Len(l) : l[i] # Call

OccasionsLeft ==
  /\ left \in [Occasion -> Nat] /\ Sparing(left)
  /\ left["writeFails"] = 0 \/ proc = "up"
  /\ NoCall(log) \/ (EndsLeft(left) = 0 /\ proc \in {"down", "resuming", "up"})

(* Notices are restored once all records are final.                        *)
ResumeInv ==
  /\ proc = "resuming" => ghosts = disk
  /\ scheduled # {} => proc # "down" /\ (proc = "resuming" => Reconciled)

EndStatuses == {"completed", "killed", "timed_out"}

(* The end of a task is the last that is written of it.                    *)
EndLast(t) ==
  /\ \A i \in 1..Len(writes[t]) : writes[t][i].by = "end" =>
       /\ i = Len(writes[t]) /\ task[t].at = "writing"
       /\ writes[t][i].info.status = task[t].status
  /\ task[t].at = "writing" => task[t].status \in EndStatuses
  /\ task[t].at = "over" /\ IsDetached(t) => writes[t] = <<>>

(* A notice is of the one end its task has, which is on disk if a later    *)
(* process may look for it.                                                *)
OfTheEnd(n) ==
  /\ n.status # "running"
  /\ n.status = IF task[n.task].at = "over" THEN task[n.task].status ELSE disk[n.task].status
  /\ EndsLeft(left) # 0 \/ proc # "up" => n.status = disk[n.task].status

SentOfTheEnd == \A n \in Sent : n.task \in Task => OfTheEnd(n)

OnTheirWay == building \cup orphans \cup {turn.input} \cup Elems(steerBuffer)

(* None is sent without being remembered, in this process or in the log.   *)
Known ==
  /\ \A n \in OnTheirWay : n # Call /\ (n.task \in Task => n \in scheduled)
  /\ \A n \in Elems(log) : n.task \in Task => n \in scheduled \cup Delivered(log)

Once(s) == \A i, j \in 1..Len(s) : s[i] = s[j] /\ s[i].task \in Task => i = j
Apart(X, Y) == \A n \in X \cap Y : n.task \notin Task

InOnePlace ==
  /\ Once(steerBuffer) /\ Once(log)
  /\ Apart(building, orphans) /\ Apart(building, {turn.input})
  /\ Apart(building, Elems(steerBuffer)) /\ Apart(building, Elems(log))
  /\ Apart(orphans, {turn.input}) /\ Apart(orphans, Elems(steerBuffer))
  /\ Apart(orphans, Elems(log))
  /\ Apart({turn.input}, Elems(steerBuffer)) /\ Apart({turn.input}, Elems(log))
  /\ Apart(Elems(steerBuffer), Elems(log))

OnceInv == /\ OccasionsLeft /\ ResumeInv /\ (\A t \in Task : EndLast(t))
           /\ SentOfTheEnd /\ Known /\ InOnePlace

-----------------------------------------------------------------------------
(* Fewer occasions are left after each step.                               *)
LEMMA FewerLeft ==
  ASSUME left \in [Occasion -> Nat], Sparing(left),
         UNCHANGED left \/ \E h \in Occasion : Happens(h)
  PROVE  /\ left' \in [Occasion -> Nat] /\ Sparing(left')
         /\ EndsLeft(left) \in Nat /\ EndsLeft(left') \in Nat
         /\ EndsLeft(left') <= EndsLeft(left)
         /\ left["writeFails"] = 0 => left'["writeFails"] = 0
<1>1. left' \in [Occasion -> Nat] /\ \A g \in Occasion : left'[g] <= left[g]
  <2>1. CASE UNCHANGED left BY <2>1
  <2>2. CASE \E h \in Occasion : Happens(h)
    <3>1. PICK h \in Occasion : left[h] > 0 /\ left' = [left EXCEPT ![h] = @ - 1]
      BY <2>2 DEF Happens
    <3>2. left[h] \in Nat /\ left[h] - 1 \in Nat BY <3>1
    <3>3. left' \in [Occasion -> Nat] BY <3>1, <3>2
    <3>4. \A g \in Occasion : left'[g] = IF g = h THEN left[h] - 1 ELSE left[g] BY <3>1
    <3> QED BY <3>2, <3>3, <3>4
  <2> QED BY <2>1, <2>2
<1>2. {"crash", "openCall", "close", "writeFails"} \subseteq Occasion BY DEF Occasion
<1> DEFINE a == left["crash"]   b == left["openCall"]   c == left["close"]
           d == left["writeFails"]
           aa == left'["crash"]   bb == left'["openCall"]   cc == left'["close"]
           dd == left'["writeFails"]
<1>3. /\ a \in Nat /\ b \in Nat /\ c \in Nat /\ d \in Nat
      /\ aa \in Nat /\ bb \in Nat /\ cc \in Nat /\ dd \in Nat
      /\ aa <= a /\ bb <= b /\ cc <= c /\ dd <= d
  BY <1>1, <1>2
<1>4. /\ EndsLeft(left) = a + b + c /\ EndsLeft(left') = aa + bb + cc
  BY DEF EndsLeft
<1>5. /\ d = 0 \/ EndsLeft(left) = 0
      /\ b = 0 \/ EndsLeft(left) = 1
  BY DEF Sparing
<1>6. Sparing(left') <=> (dd = 0 \/ EndsLeft(left') = 0) /\ (bb = 0 \/ EndsLeft(left') = 1)
  BY DEF Sparing
<1> HIDE DEF a, b, c, d, aa, bb, cc, dd
<1>7. EndsLeft(left) \in Nat /\ EndsLeft(left') \in Nat /\ EndsLeft(left') <= EndsLeft(left)
  BY <1>3, <1>4
<1>8. dd = 0 \/ EndsLeft(left') = 0 BY <1>3, <1>5, <1>7
<1>9. bb = 0 \/ EndsLeft(left') = 1
  <2>1. CASE bb = 0 BY <2>1
  <2>2. CASE bb # 0
    <3>1. EndsLeft(left) = 1 BY <1>3, <1>5, <2>2
    <3>2. EndsLeft(left') >= 1 BY <1>3, <1>4, <2>2
    <3> QED BY <1>7, <3>1, <3>2
  <2> QED BY <2>1, <2>2
<1> QED BY <1>1, <1>3, <1>6, <1>7, <1>8, <1>9 DEF d, dd

(* What the history has stays there when the log grows.                    *)
LEMMA DeliveredStays ==
  ASSUME NEW l \in Seq(NoticeSet), NEW m \in Seq(NoticeSet), Len(l) <= Len(m),
         \A i \in 1..Len(l) : m[i] = l[i]
  PROVE  Delivered(l) \subseteq Delivered(m)
<1>1. /\ DOMAIN l = 1..Len(l) /\ DOMAIN m = 1..Len(m)
      /\ Len(l) \in Nat /\ Len(m) \in Nat
  OBVIOUS
<1>2. ASSUME NEW j \in 1..Len(l), \A k \in 1..j : ~Unanswered(l, k)
      PROVE  l[j] \in Delivered(m)
  <2>1. j \in DOMAIN m /\ m[j] = l[j] BY <1>1
  <2>2. ASSUME NEW k \in 1..j PROVE ~Unanswered(m, k)
    <3>1. k \in 1..Len(l) /\ m[k] = l[k] BY <1>1
    <3>2. l[k] = Call => \E i \in k..Len(l) : l[i] = Result
      BY <1>2 DEF Unanswered
    <3>3. \A i \in k..Len(l) : i \in 1..Len(l) /\ i \in k..Len(m) /\ m[i] = l[i]
      BY <1>1, <3>1
    <3> QED BY <3>1, <3>2, <3>3 DEF Unanswered
  <2> QED BY <2>1, <2>2 DEF Delivered
<1> QED BY <1>1, <1>2 DEF Delivered

LEMMA NoCallDelivers ==
  ASSUME NEW l \in Seq(NoticeSet), NoCall(l)
  PROVE  Elems(l) \subseteq Delivered(l)
<1>1. DOMAIN l = 1..Len(l) OBVIOUS
<1>2. \A j \in 1..Len(l) : \A k \in 1..j : ~Unanswered(l, k)
  <2>1. \A j \in 1..Len(l) : \A k \in 1..j : k \in 1..Len(l) OBVIOUS
  <2> QED BY <2>1 DEF NoCall, Unanswered
<1> QED BY <1>1, <1>2 DEF Delivered, Elems

LEMMA AppendElems ==
  ASSUME NEW s \in Seq(NoticeSet), NEW n \in NoticeSet
  PROVE  /\ Append(s, n) \in Seq(NoticeSet) /\ Elems(Append(s, n)) = Elems(s) \cup {n}
         /\ Once(s) /\ n \notin Elems(s) => Once(Append(s, n))
         /\ Once(s) /\ n.task \notin Task => Once(Append(s, n))
         /\ NoCall(s) /\ n # Call => NoCall(Append(s, n))
         /\ Delivered(s) \subseteq Delivered(Append(s, n))
<1> DEFINE r == Append(s, n)
<1>1. /\ r \in Seq(NoticeSet) /\ Len(r) = Len(s) + 1 /\ Len(s) \in Nat
      /\ \A i \in 1..Len(s) : r[i] = s[i]
      /\ r[Len(s) + 1] = n
  OBVIOUS
<1>2. Elems(r) = Elems(s) \cup {n} BY ElemsOfAppend
<1> HIDE DEF r
<1>3. \A i \in 1..Len(r) : i \in 1..Len(s) \/ i = Len(s) + 1 BY <1>1
<1>4. \A i \in 1..Len(s) : s[i] \in Elems(s) BY DEF Elems
<1>5. ASSUME Once(s), n \notin Elems(s) \/ n.task \notin Task PROVE Once(r)
  <2> SUFFICES ASSUME NEW i \in 1..Len(r), NEW j \in 1..Len(r), r[i] = r[j], r[i].task \in Task
               PROVE  i = j
    BY DEF Once
  <2>1. CASE i \in 1..Len(s) /\ j \in 1..Len(s)
    <3>1. s[i] = s[j] /\ s[i].task \in Task BY <1>1, <2>1
    <3> QED BY <1>5, <2>1, <3>1 DEF Once
  <2>2. CASE i = Len(s) + 1 /\ j \in 1..Len(s) BY <1>1, <1>4, <1>5, <2>2
  <2>3. CASE j = Len(s) + 1 /\ i \in 1..Len(s) BY <1>1, <1>4, <1>5, <2>3
  <2>4. CASE i = Len(s) + 1 /\ j = Len(s) + 1 BY <2>4
  <2> QED BY <1>3, <2>1, <2>2, <2>3, <2>4
<1>6. NoCall(s) /\ n # Call => NoCall(r) BY <1>1, <1>3 DEF NoCall
<1>7. Len(s) <= Len(r) BY <1>1
<1>8. Delivered(s) \subseteq Delivered(r) BY <1>1, <1>7, DeliveredStays
<1> QED BY <1>1, <1>2, <1>5, <1>6, <1>8 DEF r

LEMMA ConcatElems ==
  ASSUME NEW s \in Seq(NoticeSet), NEW r \in Seq(NoticeSet)
  PROVE  /\ s \o r \in Seq(NoticeSet) /\ Elems(s \o r) \subseteq Elems(s) \cup Elems(r)
         /\ Once(s) /\ Once(r) /\ Apart(Elems(s), Elems(r)) => Once(s \o r)
         /\ NoCall(s) /\ NoCall(r) => NoCall(s \o r)
         /\ Delivered(s) \subseteq Delivered(s \o r)
<1> DEFINE q == s \o r
           m == Len(s)
<1>1. /\ q \in Seq(NoticeSet) /\ Len(q) = m + Len(r)
      /\ \A i \in 1..(m + Len(r)) : q[i] = IF i <= m THEN s[i] ELSE r[i - m]
  BY ConcatProperties
<1>2. Elems(q) \subseteq Elems(s) \cup Elems(r) BY ElemsOfConcat
<1>3. m \in Nat /\ Len(r) \in Nat OBVIOUS
<1> HIDE DEF q
<1>4. ASSUME NEW i \in 1..Len(q)
      PROVE  \/ i \in 1..m /\ q[i] = s[i] /\ s[i] \in Elems(s)
             \/ i - m \in 1..Len(r) /\ q[i] = r[i - m] /\ r[i - m] \in Elems(r)
  <2>1. CASE i <= m
    <3>1. i \in 1..m BY <1>1, <1>3, <2>1
    <3>2. s[i] \in Elems(s) BY <3>1 DEF Elems
    <3> QED BY <1>1, <2>1, <3>1, <3>2
  <2>2. CASE ~(i <= m)
    <3>1. i - m \in 1..Len(r) BY <1>1, <1>3, <2>2
    <3>2. r[i - m] \in Elems(r) BY <3>1 DEF Elems
    <3> QED BY <1>1, <2>2, <3>1, <3>2
  <2> QED BY <2>1, <2>2
<1>5. ASSUME Once(s), Once(r), Apart(Elems(s), Elems(r)) PROVE Once(q)
  <2> SUFFICES ASSUME NEW i \in 1..Len(q), NEW j \in 1..Len(q), q[i] = q[j], q[i].task \in Task
               PROVE  i = j
    BY DEF Once
  <2>1. CASE i \in 1..m /\ q[i] = s[i] /\ s[i] \in Elems(s)
    <3>1. ~(q[j] \in Elems(r)) BY <1>5, <2>1 DEF Apart
    <3>2. j \in 1..m /\ q[j] = s[j] BY <1>4, <3>1
    <3> QED BY <1>5, <2>1, <3>2 DEF Once
  <2>2. CASE i - m \in 1..Len(r) /\ q[i] = r[i - m] /\ r[i - m] \in Elems(r)
    <3>1. ~(q[j] \in Elems(s)) BY <1>5, <2>2 DEF Apart
    <3>2. j - m \in 1..Len(r) /\ q[j] = r[j - m] BY <1>4, <3>1
    <3>3. i - m = j - m BY <1>5, <2>2, <3>2 DEF Once
    <3>4. i \in Nat /\ j \in Nat BY <1>1, <1>3
    <3> QED BY <1>3, <3>3, <3>4
  <2> QED BY <1>4, <2>1, <2>2
<1>6. NoCall(s) /\ NoCall(r) => NoCall(q) BY <1>4 DEF NoCall
<1>7. m <= Len(q) /\ \A i \in 1..m : q[i] = s[i] BY <1>1, <1>3
<1>8. Delivered(s) \subseteq Delivered(q) BY <1>1, <1>7, DeliveredStays
<1> QED BY <1>1, <1>2, <1>5, <1>6, <1>8 DEF q

LEMMA PrefixElems ==
  ASSUME NEW s \in Seq(NoticeSet), NEW n \in Nat, n <= Len(s)
  PROVE  /\ SubSeq(s, 1, n) \in Seq(NoticeSet) /\ Elems(SubSeq(s, 1, n)) \subseteq Elems(s)
         /\ Once(s) => Once(SubSeq(s, 1, n))
         /\ NoCall(s) => NoCall(SubSeq(s, 1, n))
<1> DEFINE r == SubSeq(s, 1, n)
<1>1. \A i \in 1..n : i \in 1..Len(s) /\ s[i] \in NoticeSet OBVIOUS
<1>2. r \in Seq(NoticeSet) /\ Elems(r) \subseteq Elems(s) BY ElemsOfPrefix
<1>3. /\ Len(r) = IF 1 <= n THEN n - 1 + 1 ELSE 0
      /\ \A i \in 1..(n - 1 + 1) : r[i] = s[1 + i - 1]
  BY <1>1, SubSeqProperties
<1>4. Len(r) = n /\ \A i \in 1..n : r[i] = s[i] BY <1>3
<1> HIDE DEF r
<1> QED BY <1>1, <1>2, <1>4 DEF Once, NoCall, r

-----------------------------------------------------------------------------
(* The tasks, while no notice moves.                                       *)

LEMMA InvFacts ==
  ASSUME Inv, OnceInv
  PROVE  /\ left \in [Occasion -> Nat] /\ Sparing(left) /\ EndsLeft(left) \in Nat
         /\ building \subseteq NoticeSet /\ orphans \subseteq NoticeSet
         /\ turn.input \in NoticeSet
         /\ steerBuffer \in Seq(NoticeSet) /\ log \in Seq(NoticeSet)
         /\ \A t \in Task : /\ writes[t] \in Seq(WriteSet) /\ task[t] \in EntrySet
                            /\ EndLast(t)
<1>1. UNCHANGED left => UNCHANGED left OBVIOUS
<1>2. /\ building \subseteq NoticeSet /\ orphans \subseteq NoticeSet
      /\ turn.input \in NoticeSet
      /\ steerBuffer \in Seq(NoticeSet) /\ log \in Seq(NoticeSet)
      /\ \A t \in Task : writes[t] \in Seq(WriteSet) /\ task[t] \in EntrySet
  BY DEF Inv, Types, TurnSet
<1>3. left \in [Occasion -> Nat] /\ Sparing(left) /\ \A t \in Task : EndLast(t)
  BY DEF OnceInv, OccasionsLeft
<1>4. {"crash", "openCall", "close"} \subseteq Occasion BY DEF Occasion
<1>5. EndsLeft(left) \in Nat BY <1>3, <1>4 DEF EndsLeft
<1> QED BY <1>2, <1>3, <1>5

(* A step that sends no notice, and changes no task whose end was told of. *)
LEMMA MoveStep ==
  ASSUME Inv, OnceInv, UNCHANGED left \/ \E h \in Occasion : Happens(h),
         UNCHANGED <<disk, ghosts, scheduled>>,
         \/ proc' = proc
         \/ proc = "resuming" /\ proc' = "up"
         \/ /\ NoCall(log) /\ left["writeFails"] = 0 /\ (EndsLeft(left) # 0 \/ proc # "up")
            /\ proc \notin {"down", "resuming"} /\ proc' \notin {"down", "resuming"},
         NoCall(log) => NoCall(log)',
         \A n \in Sent' : n \in Sent \/ n.task \notin Task,
         \A t \in Task : EndLast(t)',
         \A t \in Task : MayBeTold(t) => task'[t] = task[t],
         Known', InOnePlace'
  PROVE  OnceInv'
<1>1. /\ left' \in [Occasion -> Nat] /\ Sparing(left')
      /\ EndsLeft(left) \in Nat /\ EndsLeft(left') \in Nat
      /\ EndsLeft(left') <= EndsLeft(left)
      /\ left["writeFails"] = 0 => left'["writeFails"] = 0
  BY FewerLeft, InvFacts
<1>2. OccasionsLeft'
  <2>1. left["writeFails"] = 0 \/ proc' = "up" BY DEF OnceInv, OccasionsLeft
  <2>2. NoCall(log)' \/ (EndsLeft(left) = 0 /\ proc' \in {"down", "resuming", "up"})
    BY DEF OnceInv, OccasionsLeft
  <2>3. left'["writeFails"] = 0 \/ proc' = "up" BY <1>1, <2>1
  <2>4. EndsLeft(left) = 0 => EndsLeft(left') = 0 BY <1>1
  <2> QED BY <1>1, <2>2, <2>3, <2>4 DEF OccasionsLeft
<1>3. ResumeInv'
  <2>1. proc' = proc => ResumeInv' BY DEF OnceInv, ResumeInv, Reconciled
  <2>2. proc' \notin {"down", "resuming"} => ResumeInv' BY DEF ResumeInv
  <2> QED BY <2>1, <2>2
<1>4. SentOfTheEnd'
  <2> SUFFICES ASSUME NEW n \in Sent', n.task \in Task PROVE OfTheEnd(n)'
    BY DEF SentOfTheEnd
  <2>1. n \in Sent OBVIOUS
  <2>2. task'[n.task] = task[n.task] BY <2>1 DEF Inv, NoticesInv
  <2>3. EndsLeft(left') # 0 => EndsLeft(left) # 0 BY <1>1
  <2>4. OfTheEnd(n) BY <2>1 DEF OnceInv, SentOfTheEnd
  <2>5. proc' # "up" => EndsLeft(left) # 0 \/ proc # "up" OBVIOUS
  <2> QED BY <2>2, <2>3, <2>4, <2>5 DEF OfTheEnd
<1> QED BY <1>2, <1>3, <1>4 DEF OnceInv

(* A step that moves no notice.                                            *)
LEMMA StillStep ==
  ASSUME Inv, OnceInv, UNCHANGED left \/ \E h \in Occasion : Happens(h),
         UNCHANGED <<disk, ghosts, notices, turns, records>>,
         \/ proc' = proc
         \/ /\ NoCall(log) /\ left["writeFails"] = 0 /\ (EndsLeft(left) # 0 \/ proc # "up")
            /\ proc \notin {"down", "resuming"} /\ proc' \notin {"down", "resuming"},
         \A t \in Task : EndLast(t)',
         \A t \in Task : MayBeTold(t) => task'[t] = task[t]
  PROVE  OnceInv'
<1>1. /\ scheduled' = scheduled /\ log' = log /\ building' = building /\ orphans' = orphans
      /\ turn' = turn /\ steerBuffer' = steerBuffer
  BY DEF notices, turns, records
<1>2. Sent' = Sent BY <1>1 DEF Sent
<1>3. Known' BY <1>1 DEF OnceInv, Known, OnTheirWay
<1>4. InOnePlace' BY <1>1 DEF OnceInv, InOnePlace
<1> QED BY <1>1, <1>2, <1>3, <1>4, MoveStep

(* What a queued write leaves of the order of the writes.                  *)
LEMMA PersistEndLast ==
  ASSUME Inv, OnceInv, NEW t \in Task, task[t].at # "writing",
         NEW x \in WriteSet, writes'[t] = Append(writes[t], x),
         x.by = "end" => task'[t].at = "writing" /\ x.info.status = task'[t].status,
         task'[t].at = "writing" => task'[t].status \in EndStatuses,
         task'[t].at # "over"
  PROVE  EndLast(t)'
<1> DEFINE w == writes[t]
<1>1. w \in Seq(WriteSet) /\ EndLast(t) BY InvFacts
<1>2. \A i \in 1..Len(w) : w[i].by # "end" BY <1>1 DEF EndLast
<1> HIDE DEF w
<1>3. /\ Len(Append(w, x)) = Len(w) + 1 /\ Len(w) \in Nat
      /\ \A i \in 1..Len(w) : Append(w, x)[i] = w[i]
      /\ Append(w, x)[Len(w) + 1] = x
  BY <1>1
<1>4. \A i \in 1..(Len(w) + 1) : i \in 1..Len(w) \/ i = Len(w) + 1 BY <1>3
<1>5. writes'[t] = Append(w, x) BY DEF w
<1> QED BY <1>2, <1>3, <1>4, <1>5 DEF EndLast

LEMMA SameEndLast ==
  ASSUME OnceInv, NEW t \in Task, writes'[t] = writes[t],
         task'[t].at = "writing" => task[t].at = "writing",
         task[t].at = "writing" => task'[t].at = "writing" /\ task'[t].status = task[t].status,
         task'[t].at = "over" /\ IsDetached(t)' => writes[t] = <<>>
  PROVE  EndLast(t)'
<1>1. EndLast(t) BY DEF OnceInv
<1> QED BY <1>1 DEF EndLast

LEMMA GivenUpStatus ==
  ASSUME NEW e \in EntrySet, NEW why \in {"timeout", "stop"}
  PROVE  /\ GivenUp(e, why) \in EntrySet /\ GivenUp(e, why).status = e.status
         /\ e.at # "running" => GivenUp(e, why) = e
         /\ e.at = "running" => GivenUp(e, why).at = "grace"
<1>1. CASE e.at = "running"
  <2>1. GivenUp(e, why) = [e EXCEPT !.at = "grace", !.why = why] BY <1>1 DEF GivenUp
  <2> QED BY <1>1, <2>1 DEF EntrySet, Stages, None
<1>2. CASE e.at # "running"
  BY <1>2 DEF GivenUp
<1> QED BY <1>1, <1>2

(* A step of one task that is not told of.                                 *)
LEMMA OneTaskStep ==
  ASSUME Inv, OnceInv, UNCHANGED left \/ \E h \in Occasion : Happens(h),
         UNCHANGED <<proc, disk, ghosts, notices, turns, records>>,
         NEW t \in Task, ~MayBeTold(t), EndLast(t)',
         \A u \in Task \ {t} : /\ task'[u] = task[u] /\ writes'[u] = writes[u]
                               /\ mode'[u] = mode[u]
  PROVE  OnceInv'
<1>1. \A u \in Task : EndLast(u)' BY DEF OnceInv, EndLast, IsDetached
<1>2. \A u \in Task : MayBeTold(u) => task'[u] = task[u] OBVIOUS
<1> QED BY <1>1, <1>2, StillStep

LEMMA PersistAppends ==
  ASSUME Inv, NEW t \in Task, NEW m, NEW e \in EntrySet, NEW by \in Waiters,
         persistLive(t, m, e, by)
  PROVE  \E x \in WriteSet : /\ writes'[t] = Append(writes[t], x)
                             /\ x.by = by /\ x.info.status = e.status
                             /\ \A u \in Task \ {t} : writes'[u] = writes[u]
<1> DEFINE x == [info |-> toInfo(t, m, e), by |-> by]
<1>1. x \in WriteSet /\ x.by = by /\ x.info.status = e.status
  BY DEF WriteSet, InfoSet, EntrySet, toInfo
<1>2. writes' = [writes EXCEPT ![t] = Append(@, x)] BY DEF persistLive, Persist
<1> HIDE DEF x
<1>3. writes \in [Task -> Seq(WriteSet)] BY DEF Inv, Types
<1>4. writes'[t] = Append(writes[t], x) /\ \A u \in Task \ {t} : writes'[u] = writes[u]
  BY <1>2, <1>3
<1> QED BY <1>1, <1>4

LEMMA RegisterOnce ==
  ASSUME Inv, OnceInv, NEW t \in Task, NEW how \in {"background", "foreground"},
         registerTask(t, how)
  PROVE  OnceInv'
<1> DEFINE e == [Fresh[t] EXCEPT !.at = "running"]
<1>1. /\ mode[t] = "new" /\ Happens(how)
      /\ task' = [task EXCEPT ![t] = e] /\ mode' = [mode EXCEPT ![t] = how]
      /\ IF how = "background" THEN persistLive(t, how, e, None) ELSE UNCHANGED writes
      /\ UNCHANGED <<proc, disk, ghosts, notices, turns, records>>
  BY DEF registerTask
<1>2. e \in EntrySet /\ e.at = "running" BY DEF Fresh, EntrySet, Stages, Statuses
<1> HIDE DEF e
<1>3. /\ task'[t] = e
      /\ \A u \in Task \ {t} : task'[u] = task[u] /\ mode'[u] = mode[u]
  BY <1>1 DEF Inv, Types
<1>4. how \in Occasion BY DEF Occasion
<1>5. task[t].at = None /\ ~MayBeTold(t)
  BY <1>1 DEF MayBeTold, IsDetached, Inv, TaskInv, NothingBefore
<1>6. EndLast(t)' /\ \A u \in Task \ {t} : writes'[u] = writes[u]
  <2>1. CASE how = "background"
    <3>1. None \in Waiters /\ None # "end" BY DEF Waiters, None
    <3>2. PICK x \in WriteSet : /\ writes'[t] = Append(writes[t], x) /\ x.by = None
                                /\ \A u \in Task \ {t} : writes'[u] = writes[u]
      BY <1>1, <1>2, <2>1, <3>1, PersistAppends
    <3>3. EndLast(t)' BY <1>2, <1>3, <1>5, <3>1, <3>2, PersistEndLast DEF None
    <3> QED BY <3>2, <3>3
  <2>2. CASE how # "background"
    <3>1. writes' = writes BY <1>1, <2>2
    <3>2. EndLast(t)' BY <1>2, <1>3, <1>5, <3>1, SameEndLast DEF None
    <3> QED BY <3>1, <3>2
  <2> QED BY <2>1, <2>2
<1> QED BY <1>1, <1>3, <1>4, <1>5, <1>6, OneTaskStep

LEMMA RunningOnce ==
  ASSUME Inv, OnceInv, NEW t \in Task,
         \/ detach(t) \/ persistOutput(t) \/ timeout(t) \/ stop(t) \/ TaskStop(t)
         \/ workerSettles(t) \/ graceTimeout(t)
  PROVE  OnceInv'
<1>1. /\ task \in [Task -> EntrySet] /\ mode \in [Task -> Modes] /\ task[t] \in EntrySet
      /\ writes \in [Task -> Seq(WriteSet)]
  BY DEF Inv, Types
<1>2. {"detach", "spill", "timeout", "stop", "taskStop"} \subseteq Occasion BY DEF Occasion
<1>3. ASSUME NEW m \in Modes, detach(t) \/ persistOutput(t), mode' = [mode EXCEPT ![t] = m],
             \/ UNCHANGED writes
             \/ persistLive(t, m, task[t], None)
      PROVE  OnceInv'
  <2>1. /\ task' = task /\ task[t].at \in {"running", "grace"}
        /\ \E h \in Occasion : Happens(h)
        /\ UNCHANGED <<proc, disk, ghosts, notices, turns, records>>
    BY <1>2, <1>3 DEF detach, persistOutput, Active
  <2>2. ~MayBeTold(t) BY <2>1 DEF MayBeTold, None
  <2>3. EndLast(t)' /\ \A u \in Task \ {t} : writes'[u] = writes[u]
    <3>1. CASE UNCHANGED writes BY <2>1, <3>1, SameEndLast
    <3>2. CASE persistLive(t, m, task[t], None)
      <4>1. None \in Waiters /\ None # "end" BY DEF Waiters, None
      <4>2. PICK x \in WriteSet : /\ writes'[t] = Append(writes[t], x) /\ x.by = None
                                  /\ \A u \in Task \ {t} : writes'[u] = writes[u]
        BY <1>1, <3>2, <4>1, PersistAppends
      <4>3. EndLast(t)' BY <2>1, <4>1, <4>2, PersistEndLast
      <4> QED BY <4>2, <4>3
    <3> QED BY <1>3, <3>1, <3>2
  <2>4. \A u \in Task \ {t} : task'[u] = task[u] /\ mode'[u] = mode[u] BY <1>1, <1>3, <2>1
  <2> QED BY <2>1, <2>2, <2>3, <2>4, OneTaskStep
<1>4. CASE detach(t)
  <2>1. "moved" \in Modes BY DEF Modes
  <2> QED BY <1>3, <1>4, <2>1 DEF detach
<1>5. CASE persistOutput(t)
  <2>1. "spilled" \in Modes BY DEF Modes
  <2> QED BY <1>3, <1>5, <2>1 DEF persistOutput
<1>6. CASE timeout(t) \/ stop(t)
  <2>1. PICK why \in {"timeout", "stop"} : task' = [task EXCEPT ![t] = GivenUp(task[t], why)]
    BY <1>6 DEF timeout, stop
  <2>2. /\ task[t].at = "running" /\ \E h \in Occasion : Happens(h)
        /\ UNCHANGED <<proc, mode, writes, disk, ghosts, notices, turns, records>>
    BY <1>2, <1>6 DEF timeout, stop
  <2>3. GivenUp(task[t], why).at = "grace" BY <1>1, <2>2, GivenUpStatus
  <2>4. task'[t].at = "grace" /\ \A u \in Task \ {t} : task'[u] = task[u]
    BY <1>1, <2>1, <2>3
  <2>5. ~MayBeTold(t) BY <2>2 DEF MayBeTold, None
  <2>6. EndLast(t)' BY <2>2, <2>4, SameEndLast
  <2> QED BY <2>2, <2>4, <2>5, <2>6, OneTaskStep
<1>7. CASE TaskStop(t)
  <2> DEFINE e == [task[t] EXCEPT !.suppressed = TRUE]
  <2>1. /\ task[t].at \in {"running", "grace"} /\ task' = [task EXCEPT ![t] = e]
        /\ persistLive(t, mode[t], task'[t], "taskStop") /\ \E h \in Occasion : Happens(h)
        /\ UNCHANGED <<proc, mode, disk, ghosts, notices, turns, records>>
    BY <1>2, <1>7 DEF TaskStop, Active
  <2>2. e \in EntrySet /\ e.at = task[t].at BY <1>1 DEF EntrySet
  <2> HIDE DEF e
  <2>3. task'[t] = e /\ \A u \in Task \ {t} : task'[u] = task[u] BY <1>1, <2>1
  <2>4. persistLive(t, mode[t], e, "taskStop") /\ "taskStop" \in Waiters
    BY <2>1, <2>3 DEF Waiters
  <2>5. PICK x \in WriteSet : /\ writes'[t] = Append(writes[t], x) /\ x.by = "taskStop"
                              /\ \A u \in Task \ {t} : writes'[u] = writes[u]
    BY <2>2, <2>4, PersistAppends
  <2>6. EndLast(t)' BY <2>1, <2>2, <2>3, <2>5, PersistEndLast
  <2>7. ~MayBeTold(t) BY <2>1 DEF MayBeTold, None
  <2> QED BY <2>1, <2>3, <2>5, <2>6, <2>7, OneTaskStep
<1>8. ASSUME NEW status \in EndStatuses, task[t].at \in {"running", "grace"},
             UNCHANGED proc, finalizeTask(t, status)
      PROVE  OnceInv'
  <2> DEFINE e == [task[t] EXCEPT !.status = status,
                                  !.at = IF mode[t] = "foreground" THEN "over" ELSE "writing"]
  <2>1. /\ task' = [task EXCEPT ![t] = e]
        /\ IF mode[t] = "foreground" THEN UNCHANGED writes ELSE persistLive(t, mode[t], e, "end")
        /\ UNCHANGED <<mode, disk, ghosts, notices, turns, records, left>>
    BY <1>8 DEF finalizeTask
  <2>2. /\ e \in EntrySet /\ e.status = status
        /\ e.at = IF mode[t] = "foreground" THEN "over" ELSE "writing"
    BY <1>1, <1>8 DEF EntrySet, Stages, EndStatuses, Statuses
  <2> HIDE DEF e
  <2>3. task'[t] = e /\ \A u \in Task \ {t} : task'[u] = task[u] BY <1>1, <2>1
  <2>4. EndLast(t)' /\ \A u \in Task \ {t} : writes'[u] = writes[u]
    <3>1. CASE mode[t] = "foreground"
      <4>1. ~IsDetached(t)' BY <2>1, <3>1 DEF IsDetached
      <4>2. task'[t].at = "over" /\ task[t].at # "writing" /\ writes' = writes
        BY <1>8, <2>1, <2>2, <2>3, <3>1
      <4> QED BY <4>1, <4>2, SameEndLast
    <3>2. CASE mode[t] # "foreground"
      <4>1. "end" \in Waiters BY DEF Waiters
      <4>2. PICK x \in WriteSet : /\ writes'[t] = Append(writes[t], x)
                                  /\ x.by = "end" /\ x.info.status = e.status
                                  /\ \A u \in Task \ {t} : writes'[u] = writes[u]
        BY <2>1, <2>2, <3>2, <4>1, PersistAppends
      <4>3. EndLast(t)' BY <1>8, <2>2, <2>3, <3>2, <4>2, PersistEndLast
      <4> QED BY <4>2, <4>3
    <3> QED BY <3>1, <3>2
  <2>5. ~MayBeTold(t) BY <1>8 DEF MayBeTold, None
  <2> QED BY <1>8, <2>1, <2>3, <2>4, <2>5, OneTaskStep
<1>9. "completed" \in EndStatuses /\ AfterGrace(t) \in EndStatuses
  BY DEF EndStatuses, AfterGrace
<1>10. CASE workerSettles(t)
  BY <1>8, <1>9, <1>10 DEF workerSettles, finalizeTask
<1>11. CASE graceTimeout(t)
  BY <1>8, <1>9, <1>11 DEF graceTimeout, finalizeTask
<1> QED BY <1>4, <1>5, <1>6, <1>7, <1>10, <1>11

(* The end of a task is on disk, or a write has failed, when its notice is *)
(* scheduled.                                                              *)
LEMMA WriteOnce ==
  ASSUME Inv, OnceInv, NEW t \in Task, writeTask(t)
  PROVE  OnceInv'
<1> DEFINE q == writes[t]
           w == Head(writes[t])
           n == Notice(t, task[t].status)
<1>1. /\ proc \notin {"down", "resuming"} /\ q # <<>> /\ writes' = [writes EXCEPT ![t] = Tail(@)]
      /\ \/ disk' = [disk EXCEPT ![t] = w.info] /\ UNCHANGED left
         \/ Happens("writeFails") /\ disk' = disk
      /\ UNCHANGED <<proc, mode, ghosts, turns, records>>
  BY DEF writeTask, Up
<1>2. /\ task \in [Task -> EntrySet] /\ writes \in [Task -> Seq(WriteSet)]
      /\ disk \in [Task -> InfoSet] /\ q \in Seq(WriteSet) /\ task[t] \in EntrySet
      /\ EndLast(t) /\ log \in Seq(NoticeSet)
  BY InvFacts DEF Inv, Types
<1>3. /\ w \in WriteSet /\ w = q[1] /\ Len(q) \in Nat \ {0} /\ Len(Tail(q)) = Len(q) - 1
      /\ \A i \in 1..Len(Tail(q)) : Tail(q)[i] = q[i + 1]
  BY <1>1, <1>2, HeadTailProperties
<1>4. writes'[t] = Tail(q) /\ \A u \in Task \ {t} : writes'[u] = writes[u]
  BY <1>1, <1>2
<1>5. \A u \in Task \ {t} : disk'[u] = disk[u] BY <1>1, <1>2
<1>6. ~MayBeTold(t) BY <1>1, <1>2 DEF MayBeTold, EndLast, Inv, TaskInv, NothingBefore
<1>7. CASE w.by = "end"
  <2> DEFINE e == [task[t] EXCEPT !.at = "over"]
  <2>1. /\ Len(q) = 1 /\ task[t].at = "writing" /\ w.info.status = task[t].status
        /\ task[t].status \in EndStatuses
    <3>1. 1 \in 1..Len(q) BY <1>3
    <3> QED BY <1>2, <1>3, <1>7, <3>1 DEF EndLast
  <2>2. e.at = "over" /\ e.status = task[t].status BY <1>2 DEF EntrySet
  <2>3. task' = [task EXCEPT ![t] = e] /\ fireTerminalEffects(t)
    BY <1>7 DEF writeTask
  <2> HIDE DEF e
  <2>4. task'[t] = e /\ \A u \in Task \ {t} : task'[u] = task[u] BY <1>2, <2>3
  <2>5. Tail(q) = <<>>
    <3>1. Tail(q) \in Seq(WriteSet) /\ Len(Tail(q)) = 0 BY <1>1, <1>2, <1>3, <2>1
    <3> QED BY <3>1, EmptySeq
  <2>6. \A u \in Task : EndLast(u)'
    <3>1. EndLast(t)'
      <4>1. writes'[t] = <<>> BY <1>4, <2>5
      <4>2. \A i \in 1..Len(<<>>) : FALSE OBVIOUS
      <4> QED BY <2>2, <2>4, <4>1, <4>2 DEF EndLast
    <3>2. ASSUME NEW u \in Task \ {t} PROVE EndLast(u)'
      BY <1>1, <1>4, <2>4 DEF OnceInv, EndLast, IsDetached
    <3> QED BY <3>1, <3>2
  <2>7. /\ left' \in [Occasion -> Nat] /\ Sparing(left')
        /\ EndsLeft(left) \in Nat /\ EndsLeft(left') \in Nat
        /\ EndsLeft(left') <= EndsLeft(left)
        /\ left["writeFails"] = 0 => left'["writeFails"] = 0
    <3>1. "writeFails" \in Occasion BY DEF Occasion
    <3> QED BY <1>1, <3>1, FewerLeft, InvFacts
  <2>8. log' = log /\ orphans' = orphans /\ turn' = turn /\ steerBuffer' = steerBuffer
        /\ proc' = proc
    BY <1>1 DEF turns, records
  <2>9. OccasionsLeft' BY <2>7, <2>8 DEF OnceInv, OccasionsLeft
  <2>10. ResumeInv' BY <1>1, <2>8 DEF ResumeInv
  <2>11. ASSUME EndsLeft(left') # 0 \/ proc # "up" PROVE disk'[t].status = task[t].status
    <3>1. left["writeFails"] = 0
      <4>1. left["writeFails"] = 0 \/ (EndsLeft(left) = 0 /\ proc = "up")
        BY DEF OnceInv, OccasionsLeft, Sparing
      <4> QED BY <2>7, <2>11, <4>1
    <3>2. disk' = [disk EXCEPT ![t] = w.info] BY <1>1, <3>1 DEF Happens
    <3> QED BY <1>2, <2>1, <3>2
  <2>12. ASSUME NEW m \in Sent, m.task \in Task PROVE m.task # t /\ OfTheEnd(m)'
    <3>1. m.task # t /\ OfTheEnd(m)
      BY <1>6, <2>12 DEF Inv, NoticesInv, OnceInv, SentOfTheEnd
    <3>2. task'[m.task] = task[m.task] /\ disk'[m.task] = disk[m.task]
      BY <1>5, <2>4, <2>12, <3>1
    <3>3. EndsLeft(left') # 0 => EndsLeft(left) # 0 BY <2>7
    <3> QED BY <2>8, <3>1, <3>2, <3>3 DEF OfTheEnd
  <2>13. CASE UNCHANGED notices
    <3>1. building' = building /\ scheduled' = scheduled BY <2>13 DEF notices
    <3>2. Sent' = Sent BY <2>8, <3>1 DEF Sent
    <3>3. SentOfTheEnd' BY <2>12, <3>2 DEF SentOfTheEnd
    <3>4. Known' BY <2>8, <3>1 DEF OnceInv, Known, OnTheirWay
    <3>5. InOnePlace' BY <2>8, <3>1 DEF OnceInv, InOnePlace
    <3> QED BY <2>6, <2>9, <2>10, <3>3, <3>4, <3>5 DEF OnceInv
  <2>14. CASE scheduled' = scheduled \cup {n} /\ building' = building \cup {n}
    <3>0. PICK m : m = n OBVIOUS
    <3>1. m.task = t /\ m.status = task[t].status /\ m # Call
      BY <3>0, BackgroundConstants DEF Notice, Call
    <3>2. scheduled' = scheduled \cup {m} /\ building' = building \cup {m} BY <2>14, <3>0
    <3> HIDE DEF n
    <3>3. Sent' = Sent \cup {m} BY <2>8, <3>2 DEF Sent
    <3>4. OfTheEnd(m)'
      BY <2>1, <2>2, <2>4, <2>8, <2>11, <3>1 DEF OfTheEnd, EndStatuses
    <3>5. SentOfTheEnd' BY <2>12, <3>3, <3>4 DEF SentOfTheEnd
    <3>6. Known' BY <2>8, <3>1, <3>2 DEF OnceInv, Known, OnTheirWay
    <3>7. m \notin Sent BY <2>12, <3>1
    <3>8. InOnePlace' BY <2>8, <3>2, <3>7 DEF OnceInv, InOnePlace, Apart, Sent
    <3> QED BY <2>6, <2>9, <2>10, <3>5, <3>6, <3>8 DEF OnceInv
  <2> QED BY <2>3, <2>13, <2>14 DEF fireTerminalEffects
<1>8. CASE w.by # "end"
  <2>1. task'[t].status = task[t].status /\ (task[t].at # "running" => task'[t] = task[t])
        /\ (task[t].at = "running" => task'[t].at \in {"running", "grace"})
        /\ (\A u \in Task \ {t} : task'[u] = task[u]) /\ UNCHANGED notices
    <3>1. CASE w.by = "taskStop"
      <4>1. task' = [task EXCEPT ![t] = GivenUp(task[t], "stop")] /\ UNCHANGED notices
        BY <3>1 DEF writeTask
      <4>2. GivenUp(task[t], "stop").status = task[t].status
        BY <1>2, GivenUpStatus
      <4> QED BY <1>2, <4>1, <4>2, GivenUpStatus
    <3>2. CASE w.by # "taskStop" BY <1>8, <3>2 DEF writeTask
    <3> QED BY <3>1, <3>2
  <2>2. EndLast(t)'
    <3>1. ASSUME NEW i \in 1..Len(Tail(q)), Tail(q)[i].by = "end"
          PROVE  /\ i = Len(Tail(q)) /\ task'[t].at = "writing"
                 /\ Tail(q)[i].info.status = task'[t].status
      <4>1. i + 1 \in 1..Len(q) /\ Tail(q)[i] = q[i + 1] BY <1>3
      <4>2. /\ i + 1 = Len(q) /\ task[t].at = "writing"
            /\ q[i + 1].info.status = task[t].status
        BY <1>2, <3>1, <4>1 DEF EndLast
      <4> QED BY <1>3, <2>1, <4>1, <4>2
    <3>2. task'[t].at = "writing" => task'[t].status \in EndStatuses
      BY <1>2, <2>1 DEF EndLast
    <3>3. ~(task'[t].at = "over" /\ IsDetached(t)')
      <4>1. ~(task[t].at = "over" /\ IsDetached(t)) BY <1>1, <1>2 DEF EndLast
      <4> QED BY <1>1, <2>1, <4>1 DEF IsDetached
    <3> QED BY <1>4, <3>1, <3>2, <3>3 DEF EndLast
  <2>3. \A u \in Task : EndLast(u)'
    BY <1>1, <1>4, <2>1, <2>2 DEF OnceInv, EndLast, IsDetached
  <2>4. /\ left' \in [Occasion -> Nat] /\ Sparing(left')
        /\ EndsLeft(left) \in Nat /\ EndsLeft(left') \in Nat
        /\ EndsLeft(left') <= EndsLeft(left)
        /\ left["writeFails"] = 0 => left'["writeFails"] = 0
    <3>1. "writeFails" \in Occasion BY DEF Occasion
    <3> QED BY <1>1, <3>1, FewerLeft, InvFacts
  <2>5. log' = log /\ orphans' = orphans /\ turn' = turn /\ steerBuffer' = steerBuffer
        /\ proc' = proc /\ building' = building /\ scheduled' = scheduled
    BY <1>1, <2>1 DEF turns, records, notices
  <2>6. OccasionsLeft' BY <2>4, <2>5 DEF OnceInv, OccasionsLeft
  <2>7. ResumeInv' BY <1>1, <2>5 DEF ResumeInv
  <2>8. ASSUME NEW m \in Sent, m.task \in Task PROVE OfTheEnd(m)'
    <3>1. m.task # t /\ OfTheEnd(m)
      BY <1>6, <2>8 DEF Inv, NoticesInv, OnceInv, SentOfTheEnd
    <3>2. task'[m.task] = task[m.task] /\ disk'[m.task] = disk[m.task]
      BY <1>5, <2>1, <2>8, <3>1
    <3>3. EndsLeft(left') # 0 => EndsLeft(left) # 0 BY <2>4
    <3> QED BY <2>5, <3>1, <3>2, <3>3 DEF OfTheEnd
  <2>9. Sent' = Sent BY <2>5 DEF Sent
  <2>10. SentOfTheEnd' BY <2>8, <2>9 DEF SentOfTheEnd
  <2>11. Known' BY <2>5 DEF OnceInv, Known, OnTheirWay
  <2>12. InOnePlace' BY <2>5 DEF OnceInv, InOnePlace
  <2> QED BY <2>3, <2>6, <2>7, <2>10, <2>11, <2>12 DEF OnceInv
<1> QED BY <1>7, <1>8

-----------------------------------------------------------------------------
(* The turns, between which the notices move.                              *)

(* A step of the turns: the tasks stay as they are.                        *)
LEMMA TurnOnce ==
  ASSUME Inv, OnceInv, UNCHANGED left \/ \E h \in Occasion : Happens(h),
         UNCHANGED <<manager, scheduled>>,
         proc' = proc \/ (proc = "resuming" /\ proc' = "up"),
         NoCall(log) => NoCall(log)',
         \A n \in Sent' : n \in Sent \/ n.task \notin Task,
         Known', InOnePlace'
  PROVE  OnceInv'
<1>1. task' = task /\ mode' = mode /\ writes' = writes /\ disk' = disk /\ ghosts' = ghosts
  BY DEF manager
<1>2. \A t \in Task : EndLast(t)' BY <1>1 DEF OnceInv, EndLast, IsDetached
<1>3. \A t \in Task : MayBeTold(t) => task'[t] = task[t] BY <1>1
<1> QED BY <1>1, <1>2, <1>3, MoveStep

LEMMA NoticesOnce ==
  ASSUME Inv, OnceInv,
         \/ \E n \in Notices : steer(n) \/ runCancelledTurn(n) \/ restored(n)
         \/ prompt \/ runOneTurn \/ flushSteerBuffer \/ stopsAnswering \/ turnEnds
         \/ finishResume \/ flush
  PROVE  OnceInv'
<1>0. /\ building \subseteq NoticeSet /\ orphans \subseteq NoticeSet
      /\ turn.input \in NoticeSet
      /\ steerBuffer \in Seq(NoticeSet) /\ log \in Seq(NoticeSet)
  BY InvFacts
<1>1. Known /\ InOnePlace BY DEF OnceInv
<1>2. /\ NoNotice \in NoticeSet /\ NoNotice.task \notin Task /\ NoNotice # Call
      /\ Result \in NoticeSet /\ Result.task \notin Task /\ Result # Call
  BY BackgroundConstants DEF NoNotice, Result, Call, Notice, NoticeSet, Statuses, None
<1>3. /\ Elems(<<>>) = {} /\ Once(<<>>)
  <2>1. \A i \in 1..Len(<<>>) : FALSE OBVIOUS
  <2> QED BY <2>1, ElemsOfNone DEF Once
<1>4. {"prompt", "turnFails"} \subseteq Occasion BY DEF Occasion
<1>5. ASSUME NEW n \in Notices, steer(n) PROVE OnceInv'
  <2>1. /\ n \in building /\ building' = building \ {n}
        /\ UNCHANGED <<proc, manager, scheduled, orphans, log, left>>
    BY <1>5 DEF steer, records
  <2>2. \/ turn' = turn /\ steerBuffer' = steerBuffer
        \/ turn'.input = n /\ steerBuffer' = steerBuffer
        \/ turn' = turn /\ steerBuffer' = Append(steerBuffer, n)
    BY <1>5 DEF steer
  <2>3. n \in NoticeSet /\ n \in scheduled /\ n # Call /\ n \notin Elems(steerBuffer)
        /\ n.task \in Task
    BY <1>0, <1>1, <1>5, <2>1 DEF Known, OnTheirWay, InOnePlace, Apart, Notices
  <2>4. /\ Elems(steerBuffer') \subseteq Elems(steerBuffer) \cup {n} /\ Once(steerBuffer')
        /\ Elems(steerBuffer') # Elems(steerBuffer) => turn' = turn
    BY <1>0, <1>1, <2>2, <2>3, AppendElems DEF InOnePlace
  <2>5. turn'.input \in {turn.input, n} BY <2>2
  <2>6. Sent' \subseteq Sent BY <2>1, <2>4, <2>5 DEF Sent
  <2>7. Known' BY <1>1, <2>1, <2>3, <2>4, <2>5 DEF Known, OnTheirWay
  <2>8. InOnePlace'
    <3>1. n \notin orphans /\ n # turn.input /\ n \notin Elems(log)
      BY <1>1, <2>1, <2>3 DEF InOnePlace, Apart
    <3>2. ~(turn'.input = n /\ n \in Elems(steerBuffer')) BY <2>2, <2>3, <3>1
    <3> QED BY <1>1, <2>1, <2>3, <2>4, <2>5, <3>1, <3>2 DEF InOnePlace, Apart
  <2> QED BY <2>1, <2>6, <2>7, <2>8, TurnOnce
<1>6. ASSUME NEW n \in Notices, runCancelledTurn(n) \/ restored(n) PROVE OnceInv'
  <2>1. /\ n \in orphans \cup building /\ log' = Append(log, n)
        /\ n \notin building' \cup orphans'
        /\ building' \subseteq building /\ orphans' \subseteq orphans
        /\ UNCHANGED <<proc, manager, scheduled, turn, steerBuffer, left>>
    <3>1. CASE runCancelledTurn(n)
      <4>1. n \notin building
        BY <1>1, <1>6, <3>1 DEF runCancelledTurn, InOnePlace, Apart, Notices
      <4> QED BY <3>1, <4>1 DEF runCancelledTurn, notices
    <3>2. CASE restored(n)
      <4>1. n \notin orphans
        BY <1>1, <1>6, <3>2 DEF restored, InOnePlace, Apart, Notices
      <4> QED BY <3>2, <4>1 DEF restored, turns
    <3> QED BY <1>6, <3>1, <3>2
  <2>2. n \in NoticeSet /\ n \in scheduled /\ n # Call /\ n.task \in Task
        /\ n # turn.input /\ n \notin Elems(steerBuffer) /\ n \notin Elems(log)
    BY <1>0, <1>1, <1>6, <2>1 DEF Known, OnTheirWay, InOnePlace, Apart, Notices
  <2>3. /\ Elems(log') = Elems(log) \cup {n} /\ Once(log') /\ (NoCall(log) => NoCall(log'))
        /\ Delivered(log) \subseteq Delivered(log')
    BY <1>0, <1>1, <2>1, <2>2, AppendElems DEF InOnePlace
  <2>4. Sent' \subseteq Sent BY <2>1, <2>3 DEF Sent
  <2>5. Known' BY <1>1, <2>1, <2>2, <2>3 DEF Known, OnTheirWay
  <2>6. InOnePlace' BY <1>1, <2>1, <2>2, <2>3 DEF InOnePlace, Apart
  <2>7. NoCall(log) => NoCall(log)' BY <2>3 DEF NoCall
  <2> QED BY <2>1, <2>4, <2>5, <2>6, <2>7, TurnOnce
<1>7. ASSUME prompt \/ stopsAnswering \/ turnEnds PROVE OnceInv'
  <2>1. /\ turn'.input \in {NoNotice, turn.input}
        /\ UNCHANGED <<proc, manager, scheduled, building, orphans, steerBuffer, log>>
        /\ UNCHANGED left \/ \E h \in Occasion : Happens(h)
    <3>1. turn \in TurnSet BY DEF Inv, Types
    <3>2. turn'.input \in {NoNotice, turn.input}
      BY <1>7, <3>1 DEF prompt, stopsAnswering, turnEnds, NoTurn, TurnSet
    <3>3. UNCHANGED <<proc, manager, scheduled, building, orphans, steerBuffer, log>>
      BY <1>7 DEF prompt, stopsAnswering, turnEnds, notices, records
    <3>4. UNCHANGED left \/ \E h \in Occasion : Happens(h)
      BY <1>4, <1>7 DEF prompt, stopsAnswering, turnEnds
    <3> QED BY <3>2, <3>3, <3>4
  <2>2. \A m \in Sent' : m \in Sent \/ m.task \notin Task BY <1>2, <2>1 DEF Sent
  <2>3. Known' BY <1>1, <1>2, <2>1 DEF Known, OnTheirWay
  <2>4. InOnePlace' BY <1>1, <1>2, <2>1 DEF InOnePlace, Apart
  <2>5. NoCall(log) => NoCall(log)' BY <2>1
  <2> QED BY <2>1, <2>2, <2>3, <2>4, <2>5, TurnOnce
<1>8. ASSUME runOneTurn PROVE OnceInv'
  <2>1. /\ turn'.input = NoNotice
        /\ log' = log \/ log' = Append(log, turn.input)
        /\ UNCHANGED <<proc, manager, scheduled, building, orphans, steerBuffer, left>>
    BY <1>8 DEF runOneTurn, notices
  <2>2. turn.input # Call /\ (turn.input.task \in Task => /\ turn.input \in scheduled
                                                         /\ turn.input \notin Elems(log))
    BY <1>1 DEF Known, OnTheirWay, InOnePlace, Apart
  <2>3. /\ Elems(log') \subseteq Elems(log) \cup {turn.input} /\ Once(log')
        /\ (NoCall(log) => NoCall(log')) /\ Delivered(log) \subseteq Delivered(log')
    <3>1. CASE log' = log BY <1>1, <3>1 DEF InOnePlace
    <3>2. CASE log' = Append(log, turn.input)
      BY <1>0, <1>1, <2>2, <3>2, AppendElems DEF InOnePlace
    <3> QED BY <2>1, <3>1, <3>2
  <2>4. \A m \in Sent' : m \in Sent \/ m.task \notin Task BY <1>2, <2>1, <2>3 DEF Sent
  <2>5. Known' BY <1>1, <1>2, <2>1, <2>2, <2>3 DEF Known, OnTheirWay
  <2>6. InOnePlace' BY <1>1, <1>2, <2>1, <2>3 DEF InOnePlace, Apart
  <2>7. NoCall(log) => NoCall(log)' BY <2>3 DEF NoCall
  <2> QED BY <2>1, <2>4, <2>5, <2>6, <2>7, TurnOnce
<1>9. ASSUME flushSteerBuffer PROVE OnceInv'
  <2>1. /\ log' = log \o steerBuffer /\ steerBuffer' = <<>>
        /\ UNCHANGED <<proc, manager, scheduled, building, orphans, turn, left>>
    BY <1>9 DEF flushSteerBuffer, notices
  <2>2. NoCall(steerBuffer) BY <1>1 DEF NoCall, Known, OnTheirWay, Elems
  <2>3. /\ Elems(log') \subseteq Elems(log) \cup Elems(steerBuffer) /\ Once(log')
        /\ (NoCall(log) => NoCall(log')) /\ Delivered(log) \subseteq Delivered(log')
    <3>1. Apart(Elems(log), Elems(steerBuffer)) BY <1>1 DEF InOnePlace, Apart
    <3> QED BY <1>0, <1>1, <2>1, <2>2, <3>1, ConcatElems DEF InOnePlace
  <2>4. Elems(steerBuffer') = {} /\ Once(steerBuffer') BY <1>3, <2>1
  <2>5. Sent' \subseteq Sent BY <2>1, <2>3, <2>4 DEF Sent
  <2>6. Known' BY <1>1, <2>1, <2>3, <2>4 DEF Known, OnTheirWay
  <2>7. InOnePlace' BY <1>1, <2>1, <2>3, <2>4 DEF InOnePlace, Apart
  <2>8. NoCall(log) => NoCall(log)' BY <2>3 DEF NoCall
  <2> QED BY <2>1, <2>5, <2>6, <2>7, <2>8, TurnOnce
<1>10. ASSUME finishResume PROVE OnceInv'
  <2>1. /\ log' = log \/ log' = Append(log, Result)
        /\ steerBuffer' = <<>> /\ proc = "resuming" /\ proc' = "up"
        /\ UNCHANGED <<manager, scheduled, building, turn, orphans, left>>
    BY <1>10 DEF finishResume, Reconciled, notices
  <2>2. /\ Elems(log') \subseteq Elems(log) \cup {Result} /\ Once(log')
        /\ (NoCall(log) => NoCall(log')) /\ Delivered(log) \subseteq Delivered(log')
    <3>1. CASE log' = log BY <1>1, <3>1 DEF InOnePlace
    <3>2. CASE log' = Append(log, Result)
      BY <1>0, <1>1, <1>2, <3>2, AppendElems DEF InOnePlace
    <3> QED BY <2>1, <3>1, <3>2
  <2>3. Elems(steerBuffer') = {} /\ Once(steerBuffer') BY <1>3, <2>1
  <2>4. \A m \in Sent' : m \in Sent \/ m.task \notin Task BY <1>2, <2>1, <2>2, <2>3 DEF Sent
  <2>5. Known' BY <1>1, <1>2, <2>1, <2>2, <2>3 DEF Known, OnTheirWay
  <2>6. InOnePlace' BY <1>1, <1>2, <2>1, <2>2, <2>3 DEF InOnePlace, Apart
  <2>7. NoCall(log) => NoCall(log)' BY <2>2 DEF NoCall
  <2> QED BY <2>1, <2>4, <2>5, <2>6, <2>7, TurnOnce
<1>11. ASSUME flush PROVE OnceInv'
  <2>1. UNCHANGED <<proc, manager, scheduled, building, turn, orphans, steerBuffer, log, left>>
    BY <1>11 DEF flush, notices, turns
  <2>2. Sent' = Sent BY <2>1 DEF Sent
  <2>3. Known' BY <1>1, <2>1 DEF Known, OnTheirWay
  <2>4. InOnePlace' BY <1>1, <2>1 DEF InOnePlace
  <2> QED BY <2>1, <2>2, <2>3, <2>4, TurnOnce
<1> QED BY <1>5, <1>6, <1>7, <1>8, <1>9, <1>10, <1>11

-----------------------------------------------------------------------------
(* The turn, the session and the process end, and another process resumes. *)

LEMMA HappensEnd ==
  ASSUME Inv, OnceInv, NEW h \in {"crash", "openCall", "close"}, Happens(h)
  PROVE  /\ EndsLeft(left) # 0 /\ left["writeFails"] = 0 /\ NoCall(log)
         /\ h = "openCall" => EndsLeft(left') = 0
<1>1. /\ left \in [Occasion -> Nat] /\ Sparing(left)
      /\ NoCall(log) \/ EndsLeft(left) = 0
  BY DEF OnceInv, OccasionsLeft
<1>2. {"crash", "openCall", "close"} \subseteq Occasion BY DEF Occasion
<1>3. left["crash"] \in Nat /\ left["openCall"] \in Nat /\ left["close"] \in Nat BY <1>1, <1>2
<1>4. left[h] > 0 /\ left' = [left EXCEPT ![h] = left[h] - 1] BY DEF Happens
<1>5. EndsLeft(left) # 0
  <2>1. left["crash"] > 0 \/ left["openCall"] > 0 \/ left["close"] > 0 BY <1>4
  <2> QED BY <1>3, <2>1 DEF EndsLeft
<1>6. ASSUME h = "openCall" PROVE EndsLeft(left') = 0
  <2>1. EndsLeft(left) = 1 BY <1>1, <1>3, <1>4, <1>6 DEF Sparing
  <2>2. left'["crash"] = left["crash"] /\ left'["close"] = left["close"]
        /\ left'["openCall"] = left["openCall"] - 1
    BY <1>1, <1>2, <1>4, <1>6
  <2> QED BY <1>3, <2>1, <2>2 DEF EndsLeft
<1> QED BY <1>1, <1>5, <1>6 DEF Sparing

(* The tasks are given up, or suppressed; no notice is sent for that.      *)
LEMMA AbortOnce ==
  ASSUME Inv, OnceInv, cancel \/ close
  PROVE  OnceInv'
<1>1. /\ proc = "up" /\ abortTurn
      /\ UNCHANGED <<mode, writes, disk, ghosts, notices, steerBuffer, records>>
      /\ \/ Happens("cancel") /\ proc' = proc
         \/ Happens("close") /\ proc' = "cancelling"
  BY DEF cancel, close
<1>2. {"cancel", "close"} \subseteq Occasion BY DEF Occasion
<1>3. Happens("close") => NoCall(log) /\ left["writeFails"] = 0 /\ EndsLeft(left) # 0
  BY HappensEnd
<1>4. ASSUME NEW t \in Task
      PROVE  /\ task'[t].status = task[t].status
             /\ task[t].at # "running" => task'[t] = task[t]
             /\ task[t].at = "running" => task'[t].at \in {"running", "grace"}
  <2>1. task[t] \in EntrySet BY InvFacts
  <2>2. task'[t] = IF IsDetached(t) THEN task[t] ELSE GivenUp(task[t], "stop")
    BY <1>1 DEF abortTurn
  <2> QED BY <2>1, <2>2, GivenUpStatus
<1>5. \A t \in Task : EndLast(t)' BY <1>1, <1>4 DEF OnceInv, EndLast, IsDetached
<1>6. \A t \in Task : MayBeTold(t) => task'[t] = task[t] BY <1>4 DEF MayBeTold, None
<1>7. /\ turn'.input = NoNotice /\ scheduled' = scheduled /\ building' = building
      /\ steerBuffer' = steerBuffer /\ log' = log
      /\ orphans' = orphans \/ orphans' = orphans \cup {turn.input}
  BY <1>1 DEF abortTurn, NoTurn, notices, records
<1>8. NoNotice.task \notin Task /\ NoNotice # Call
  BY BackgroundConstants DEF NoNotice, Call, Notice, None
<1>9. \A m \in Sent' : m \in Sent \/ m.task \notin Task BY <1>7, <1>8 DEF Sent
<1>10. Known' BY <1>7, <1>8 DEF OnceInv, Known, OnTheirWay
<1>11. InOnePlace' BY <1>7, <1>8 DEF OnceInv, InOnePlace, Apart
<1>12. NoCall(log) => NoCall(log)' BY <1>7
<1>13. \E h \in Occasion : Happens(h) BY <1>1, <1>2
<1>14. \/ proc' = proc
       \/ /\ NoCall(log) /\ left["writeFails"] = 0 /\ (EndsLeft(left) # 0 \/ proc # "up")
          /\ proc \notin {"down", "resuming"} /\ proc' \notin {"down", "resuming"}
  BY <1>1, <1>3
<1>15. UNCHANGED <<disk, ghosts, scheduled>> BY <1>1, <1>7
<1> QED BY <1>5, <1>6, <1>9, <1>10, <1>11, <1>12, <1>13, <1>14, <1>15, MoveStep

LEMMA CloseOnce ==
  ASSUME Inv, OnceInv, stopBackgroundTasksOnExit \/ stopAll
  PROVE  OnceInv'
<1>1. /\ proc \in {"cancelling", "suppressing"} /\ proc' \in {"suppressing", "stopping"}
      /\ UNCHANGED <<mode, disk, ghosts, notices, turns, records, left>>
  BY DEF stopBackgroundTasksOnExit, stopAll
<1>2. NoCall(log) /\ left["writeFails"] = 0 BY <1>1 DEF OnceInv, OccasionsLeft
<1>3. CASE stopBackgroundTasksOnExit
  <2> DEFINE listed == {t \in Task : Active(t) /\ ~task[t].suppressed}
             Quiet(t) == [task[t] EXCEPT !.suppressed = TRUE]
             x(t) == [info |-> toInfo(t, mode[t], Quiet(t)), by |-> "close"]
  <2>1. /\ task' = [t \in Task |-> IF t \in listed THEN Quiet(t) ELSE task[t]]
        /\ writes' = [t \in Task |-> IF t \in listed THEN Append(writes[t], x(t)) ELSE writes[t]]
    BY <1>3 DEF stopBackgroundTasksOnExit
  <2>2. ASSUME NEW t \in listed
        PROVE  /\ task[t].at \in {"running", "grace"} /\ Quiet(t).at = task[t].at
               /\ x(t) \in WriteSet /\ x(t).by = "close"
    <3>1. task[t] \in EntrySet BY InvFacts
    <3>2. Quiet(t) \in EntrySet /\ Quiet(t).at = task[t].at BY <3>1 DEF EntrySet
    <3> HIDE DEF Quiet
    <3>3. x(t) \in WriteSet BY <3>2 DEF WriteSet, Waiters, toInfo, InfoSet, EntrySet
    <3> QED BY <3>2, <3>3 DEF Active
  <2> HIDE DEF Quiet, x
  <2>3. ASSUME NEW t \in listed PROVE EndLast(t)' /\ ~MayBeTold(t)
    <3>1. task'[t] = Quiet(t) /\ writes'[t] = Append(writes[t], x(t)) BY <2>1
    <3>2. PICK e \in WriteSet : e = x(t) BY <2>2
    <3>3. EndLast(t)' BY <2>2, <3>1, <3>2, PersistEndLast
    <3> QED BY <2>2, <3>3 DEF MayBeTold, None
  <2>4. ASSUME NEW t \in Task \ listed PROVE EndLast(t)' /\ task'[t] = task[t]
    BY <1>1, <2>1 DEF OnceInv, EndLast, IsDetached
  <2>5. \A t \in Task : EndLast(t)' BY <2>3, <2>4
  <2>6. \A t \in Task : MayBeTold(t) => task'[t] = task[t] BY <2>3, <2>4
  <2> QED BY <1>1, <1>2, <2>5, <2>6, StillStep
<1>4. CASE stopAll
  <2>1. ASSUME NEW t \in Task
        PROVE  /\ task'[t].status = task[t].status
               /\ task[t].at # "running" => task'[t] = task[t]
               /\ task[t].at = "running" => task'[t].at \in {"running", "grace"}
    <3>1. task[t] \in EntrySet BY InvFacts
    <3>2. task'[t] = GivenUp(task[t], "stop") BY <1>4 DEF stopAll
    <3> QED BY <3>1, <3>2, GivenUpStatus
  <2>2. writes' = writes BY <1>4 DEF stopAll
  <2>3. \A t \in Task : EndLast(t)' BY <1>1, <2>1, <2>2 DEF OnceInv, EndLast, IsDetached
  <2>4. \A t \in Task : MayBeTold(t) => task'[t] = task[t] BY <2>1 DEF MayBeTold, None
  <2> QED BY <1>1, <1>2, <2>3, <2>4, StillStep
<1> QED BY <1>3, <1>4

LEMMA EndOnce ==
  ASSUME Inv, OnceInv, UNCHANGED left \/ \E h \in Occasion : Happens(h),
         EndsLeft(left) # 0 \/ proc # "up", left["writeFails"] = 0,
         NEW l \in Seq(NoticeSet), ProcessEnds(l), UNCHANGED <<mode, disk>>,
         Once(l), NoCall(l) \/ EndsLeft(left') = 0,
         \A n \in Elems(l) : n.task \in Task => n \in Elems(log) /\ n \in Delivered(l)
  PROVE  OnceInv'
<1>1. /\ left' \in [Occasion -> Nat] /\ Sparing(left') /\ left'["writeFails"] = 0
  BY FewerLeft, InvFacts
<1>2. /\ proc' = "down" /\ task' = Fresh /\ writes' = [t \in Task |-> <<>>]
      /\ scheduled' = {} /\ building' = {} /\ turn'.input = NoNotice /\ orphans' = {}
      /\ steerBuffer' = <<>> /\ log' = l
  BY DEF ProcessEnds, NoTurn
<1>3. NoNotice.task \notin Task /\ NoNotice # Call
  BY BackgroundConstants DEF NoNotice, Call, Notice, None
<1>4. Elems(<<>>) = {} /\ Once(<<>>)
  <2>1. \A i \in 1..Len(<<>>) : FALSE OBVIOUS
  <2> QED BY <2>1, ElemsOfNone DEF Once
<1>5. OccasionsLeft'
  <2>1. NoCall(log)' \/ EndsLeft(left') = 0 BY <1>2
  <2> QED BY <1>1, <1>2, <2>1 DEF OccasionsLeft
<1>6. ResumeInv' BY <1>2 DEF ResumeInv
<1>7. \A t \in Task : task'[t].at = None BY <1>2 DEF Fresh
<1>8. ASSUME NEW t \in Task PROVE EndLast(t)'
  <2>1. writes'[t] = <<>> BY <1>2
  <2>2. \A i \in 1..Len(<<>>) : FALSE OBVIOUS
  <2> QED BY <1>7, <2>1, <2>2 DEF EndLast, None
<1>9. \A n \in Sent' : n.task \in Task => n \in Elems(log) /\ n \in Elems(l)
  BY <1>2, <1>3, <1>4 DEF Sent
<1>10. SentOfTheEnd'
  <2> SUFFICES ASSUME NEW n \in Elems(log), n.task \in Task PROVE OfTheEnd(n)'
    BY <1>9 DEF SentOfTheEnd
  <2>1. OfTheEnd(n) BY DEF OnceInv, SentOfTheEnd, Sent
  <2>2. n.status = disk[n.task].status /\ n.status # "running" BY <2>1 DEF OfTheEnd
  <2>3. task'[n.task].at # "over" BY <1>7 DEF None
  <2> QED BY <2>2, <2>3 DEF OfTheEnd
<1>11. Known' BY <1>2, <1>3, <1>4 DEF Known, OnTheirWay
<1>12. InOnePlace' BY <1>2, <1>3, <1>4 DEF InOnePlace, Apart
<1> QED BY <1>5, <1>6, <1>8, <1>10, <1>11, <1>12 DEF OnceInv

LEMMA CrashOnce ==
  ASSUME Inv, OnceInv, exit \/ crash
  PROVE  OnceInv'
<1>1. PICK n \in durable..Len(log) :
        \/ /\ ProcessEnds(SubSeq(log, 1, n))
           /\ Happens("crash") \/ (proc \in {"cancelling", "stopping"} /\ UNCHANGED left)
        \/ ProcessEnds(Append(SubSeq(log, 1, n), Call)) /\ Happens("openCall")
  BY DEF exit, crash
<1>2. UNCHANGED <<mode, disk>> BY DEF exit, crash
<1> DEFINE l == SubSeq(log, 1, n)
           h == Append(l, Call)
<1>3. log \in Seq(NoticeSet) /\ durable \in Nat BY DEF Inv, Types
<1>4. n \in Nat /\ n <= Len(log) BY <1>3
<1>5. {"crash", "openCall"} \subseteq Occasion BY DEF Occasion
<1>6. /\ EndsLeft(left) # 0 \/ proc # "up"
      /\ left["writeFails"] = 0 /\ NoCall(log)
      /\ UNCHANGED left \/ \E g \in Occasion : Happens(g)
  <2>1. CASE proc \in {"cancelling", "stopping"} /\ UNCHANGED left
    BY <2>1 DEF OnceInv, OccasionsLeft
  <2>2. CASE Happens("crash") \/ Happens("openCall") BY <1>5, <2>2, HappensEnd
  <2> QED BY <1>1, <2>1, <2>2
<1>7. /\ l \in Seq(NoticeSet) /\ Elems(l) \subseteq Elems(log) /\ Once(l) /\ NoCall(l)
  BY <1>3, <1>4, <1>6, PrefixElems DEF OnceInv, InOnePlace
<1> HIDE DEF l
<1>8. Elems(l) \subseteq Delivered(l) BY <1>7, NoCallDelivers
<1>9. CASE ProcessEnds(l)
  BY <1>2, <1>6, <1>7, <1>8, <1>9, EndOnce
<1>10. CASE ProcessEnds(Append(l, Call)) /\ Happens("openCall")
  <2>1. Call \in NoticeSet /\ Call.task \notin Task
    BY BackgroundConstants DEF Call, Notice, NoticeSet, Statuses, None
  <2>2. /\ h \in Seq(NoticeSet) /\ Elems(h) = Elems(l) \cup {Call} /\ Once(h)
        /\ Delivered(l) \subseteq Delivered(h)
    BY <1>7, <2>1, AppendElems
  <2>3. EndsLeft(left') = 0 BY <1>10, HappensEnd
  <2>4. ProcessEnds(h) BY <1>10
  <2> HIDE DEF h
  <2>5. \A m \in Elems(h) : m.task \in Task => m \in Elems(log) /\ m \in Delivered(h)
    BY <1>7, <1>8, <2>1, <2>2
  <2> QED BY <1>2, <1>6, <2>2, <2>3, <2>4, <2>5, EndOnce
<1> QED BY <1>1, <1>9, <1>10 DEF l

LEMMA ResumeOnce ==
  ASSUME Inv, OnceInv, resume
  PROVE  OnceInv'
<1>1. /\ proc = "down" /\ proc' = "resuming" /\ ghosts' = disk
      /\ UNCHANGED <<task, mode, writes, disk, notices, turns, records, left>>
  BY DEF resume
<1>2. /\ scheduled' = scheduled /\ building' = building /\ orphans' = orphans /\ turn' = turn
      /\ steerBuffer' = steerBuffer /\ log' = log
  BY <1>1 DEF notices, turns, records
<1>3. OccasionsLeft' BY <1>1, <1>2 DEF OnceInv, OccasionsLeft
<1>4. ResumeInv' BY <1>1, <1>2 DEF OnceInv, ResumeInv
<1>5. \A t \in Task : EndLast(t)' BY <1>1 DEF OnceInv, EndLast, IsDetached
<1>6. Sent' = Sent BY <1>2 DEF Sent
<1>7. SentOfTheEnd' BY <1>1, <1>6 DEF OnceInv, SentOfTheEnd, OfTheEnd
<1>8. Known' BY <1>2 DEF OnceInv, Known, OnTheirWay
<1>9. InOnePlace' BY <1>2 DEF OnceInv, InOnePlace
<1> QED BY <1>3, <1>4, <1>5, <1>7, <1>8, <1>9 DEF OnceInv

(* A record that is declared lost is of a task whose end was not told of.  *)
LEMMA MarkLostOnce ==
  ASSUME Inv, OnceInv, NEW t \in Task, markLoadedTasksLost(t)
  PROVE  OnceInv'
<1> DEFINE g == [ghosts[t] EXCEPT !.status = "lost"]
<1>1. /\ proc = "resuming" /\ ghosts[t].status = "running" /\ ghosts' = [ghosts EXCEPT ![t] = g]
      /\ UNCHANGED mode
      /\ \/ /\ disk' = [disk EXCEPT ![t] = ghosts'[t]]
            /\ UNCHANGED <<proc, task, writes, notices, turns, records, left>>
         \/ Happens("resumeFails") /\ ProcessEnds(log) /\ UNCHANGED disk
  BY DEF markLoadedTasksLost
<1>2. ghosts = disk /\ scheduled = {} BY <1>1 DEF OnceInv, ResumeInv, Reconciled
<1>3. log \in Seq(NoticeSet) /\ disk \in [Task -> InfoSet] BY DEF Inv, Types
<1>4. CASE Happens("resumeFails") /\ ProcessEnds(log) /\ UNCHANGED disk
  <2>1. "resumeFails" \in Occasion BY DEF Occasion
  <2>2. left["writeFails"] = 0 BY <1>1 DEF OnceInv, OccasionsLeft
  <2>3. NoCall(log) \/ EndsLeft(left') = 0
    <3>1. NoCall(log) \/ EndsLeft(left) = 0 BY DEF OnceInv, OccasionsLeft
    <3>2. /\ EndsLeft(left') \in Nat /\ EndsLeft(left) \in Nat
          /\ EndsLeft(left') <= EndsLeft(left)
      BY <1>4, <2>1, FewerLeft, InvFacts
    <3> QED BY <3>1, <3>2
  <2>4. Once(log) BY DEF OnceInv, InOnePlace
  <2>5. \A n \in Elems(log) : n.task \in Task => n \in Elems(log) /\ n \in Delivered(log)
    BY <1>2 DEF OnceInv, Known
  <2>6. UNCHANGED <<mode, disk>> /\ proc # "up" BY <1>1, <1>4
  <2> QED BY <1>3, <1>4, <2>1, <2>2, <2>3, <2>4, <2>5, <2>6, EndOnce
<1>5. CASE /\ disk' = [disk EXCEPT ![t] = ghosts'[t]]
           /\ UNCHANGED <<proc, task, writes, notices, turns, records, left>>
  <2>1. /\ scheduled' = scheduled /\ building' = building /\ orphans' = orphans /\ turn' = turn
        /\ steerBuffer' = steerBuffer /\ log' = log /\ left' = left
    BY <1>5 DEF notices, turns, records
  <2>2. OccasionsLeft' BY <1>5, <2>1 DEF OnceInv, OccasionsLeft
  <2>3. ghosts' = disk'
    <3> HIDE DEF g
    <3>1. ghosts'[t] = g BY <1>1, <1>2, <1>3
    <3> QED BY <1>1, <1>2, <1>5, <3>1
  <2>4. ResumeInv' BY <1>2, <2>1, <2>3 DEF ResumeInv
  <2>5. \A u \in Task : EndLast(u)' BY <1>1, <1>5 DEF OnceInv, EndLast, IsDetached
  <2>6. ASSUME NEW n \in Sent, n.task \in Task PROVE OfTheEnd(n)'
    <3>1. OfTheEnd(n) BY <2>6 DEF OnceInv, SentOfTheEnd
    <3>2. n.task # t BY <1>1, <1>2, <3>1 DEF OfTheEnd
    <3>3. disk'[n.task] = disk[n.task] BY <1>3, <1>5, <2>6, <3>2
    <3> QED BY <1>5, <2>1, <3>1, <3>3 DEF OfTheEnd
  <2>7. Sent' = Sent BY <2>1 DEF Sent
  <2>8. SentOfTheEnd' BY <2>6, <2>7 DEF SentOfTheEnd
  <2>9. Known' BY <2>1 DEF OnceInv, Known, OnTheirWay
  <2>10. InOnePlace' BY <2>1 DEF OnceInv, InOnePlace
  <2> QED BY <2>2, <2>4, <2>5, <2>8, <2>9, <2>10 DEF OnceInv
<1> QED BY <1>1, <1>4, <1>5

(* What the records call for is sent only if the history has not got it.   *)
LEMMA RestoreOnce ==
  ASSUME Inv, OnceInv, NEW n \in Notices, restoreBackgroundTaskNotification(n)
  PROVE  OnceInv'
<1>1. /\ Reconciled /\ proc = "resuming" /\ building = {} /\ n \in ToRestore
      /\ n \notin scheduled /\ n \notin Delivered(log)
      /\ scheduled' = scheduled \cup {n} /\ building' = {n}
      /\ UNCHANGED <<proc, manager, turns, records, left>>
  BY DEF restoreBackgroundTaskNotification, Reconciled, Undelivered
<1>2. n.task \in Task /\ n.status = ghosts[n.task].status /\ n # Call
  BY <1>1, BackgroundConstants DEF ToRestore, Notice, Call
<1>3. /\ orphans' = orphans /\ turn' = turn /\ steerBuffer' = steerBuffer /\ log' = log
      /\ task' = task /\ mode' = mode /\ writes' = writes /\ disk' = disk /\ ghosts' = ghosts
      /\ left' = left /\ proc' = proc
  BY <1>1 DEF turns, records, manager
<1>4. n \notin orphans \cup {turn.input} \cup Elems(steerBuffer) \cup Elems(log)
  BY <1>1, <1>2 DEF OnceInv, Known, OnTheirWay
<1>5. OccasionsLeft' BY <1>3 DEF OnceInv, OccasionsLeft
<1>6. ResumeInv' BY <1>1, <1>3 DEF OnceInv, ResumeInv, Reconciled
<1>7. \A u \in Task : EndLast(u)' BY <1>3 DEF OnceInv, EndLast, IsDetached
<1>8. SentOfTheEnd'
  <2>1. \A m \in Sent' : m \in Sent \/ m = n BY <1>1, <1>3 DEF Sent
  <2>2. OfTheEnd(n)
    <3>1. task[n.task].at # "over"
      BY <1>1, <1>2 DEF Inv, TaskInv, NothingBefore, None
    <3>2. n.status = disk[n.task].status /\ n.status # "running"
      BY <1>1, <1>2 DEF OnceInv, ResumeInv, Reconciled
    <3> QED BY <3>1, <3>2 DEF OfTheEnd
  <2>3. \A m \in Sent' : m.task \in Task => OfTheEnd(m)
    BY <2>1, <2>2 DEF OnceInv, SentOfTheEnd
  <2> QED BY <1>3, <2>3 DEF SentOfTheEnd, OfTheEnd
<1>9. Known' BY <1>1, <1>2, <1>3 DEF OnceInv, Known, OnTheirWay
<1>10. InOnePlace' BY <1>1, <1>3, <1>4 DEF OnceInv, InOnePlace, Apart
<1> QED BY <1>5, <1>6, <1>7, <1>8, <1>9, <1>10 DEF OnceInv

-----------------------------------------------------------------------------

LEMMA InitOnce == Init /\ Sparing(left) => OnceInv
<1> SUFFICES ASSUME Init, Sparing(left) PROVE OnceInv OBVIOUS
<1>1. /\ proc = "up" /\ left \in Scenarios /\ task = Fresh /\ writes = [t \in Task |-> <<>>]
      /\ scheduled = {} /\ building = {} /\ orphans = {} /\ steerBuffer = <<>> /\ log = <<>>
      /\ turn.input = NoNotice
  BY DEF Init
<1>2. left \in [Occasion -> Nat] BY <1>1, BackgroundConstants
<1>3. NoNotice.task \notin Task /\ NoNotice # Call
  BY BackgroundConstants DEF NoNotice, Call, Notice, None
<1>4. Elems(<<>>) = {} /\ Once(<<>>) /\ NoCall(<<>>) /\ \A i \in 1..Len(<<>>) : FALSE
  <2>1. \A i \in 1..Len(<<>>) : FALSE OBVIOUS
  <2> QED BY <2>1, ElemsOfNone DEF Once, NoCall
<1>5. OccasionsLeft BY <1>1, <1>2, <1>4 DEF OccasionsLeft
<1>6. ResumeInv BY <1>1 DEF ResumeInv
<1>7. ASSUME NEW t \in Task PROVE EndLast(t)
  <2>1. writes[t] = <<>> /\ task[t].at = None BY <1>1 DEF Fresh
  <2> QED BY <1>4, <2>1 DEF EndLast, None
<1>8. \A n \in Sent : n.task \notin Task BY <1>1, <1>3, <1>4 DEF Sent
<1>9. Known BY <1>1, <1>3, <1>4 DEF Known, OnTheirWay
<1>10. InOnePlace BY <1>1, <1>3, <1>4 DEF InOnePlace, Apart
<1> QED BY <1>5, <1>6, <1>7, <1>8, <1>9, <1>10 DEF OnceInv, SentOfTheEnd

LEMMA NextOnce == Inv /\ OnceInv /\ [Next]_vars => OnceInv'
<1>1. ASSUME Inv, OnceInv, UNCHANGED vars PROVE OnceInv'
  <2>1. /\ UNCHANGED <<proc, disk, ghosts, notices, turns, records>> /\ UNCHANGED left
        /\ task' = task /\ mode' = mode /\ writes' = writes
    BY <1>1 DEF vars, manager
  <2>2. \A t \in Task : EndLast(t)' BY <1>1, <2>1 DEF OnceInv, EndLast, IsDetached
  <2>3. \A t \in Task : MayBeTold(t) => task'[t] = task[t] BY <2>1
  <2> QED BY <1>1, <2>1, <2>2, <2>3, StillStep
<1>2. ASSUME Inv, OnceInv, Next PROVE OnceInv'
  BY <1>2, RegisterOnce, RunningOnce, WriteOnce, NoticesOnce, AbortOnce, CloseOnce,
     CrashOnce, ResumeOnce, MarkLostOnce, RestoreOnce DEF Next
<1> QED BY <1>1, <1>2

(* Whatever ends, fails and resumes as Sparing allows, each notice is in   *)
(* one place, is of the one end of its task, and is known to those who     *)
(* might send it again.                                                    *)
THEOREM NoticesAreKnown == Spec /\ Sparing(left) => []OnceInv
<1>1. Spec => []Inv BY RecordsAgree
<1> QED BY <1>1, InitOnce, NextOnce, PTL DEF Spec

LEMMA OneOrNone ==
  ASSUME NEW S, \A x, y \in S : x = y
  PROVE  IsFiniteSet(S) /\ Cardinality(S) = IF S = {} THEN 0 ELSE 1
<1>1. CASE S = {} BY <1>1, FS_EmptySet
<1>2. CASE S # {}
  <2>1. PICK x : x \in S BY <1>2
  <2>2. S = {x} BY <2>1
  <2> QED BY <1>2, <2>2, FS_Singleton
<1> QED BY <1>1, <1>2

LEMMA CountOnce ==
  ASSUME NEW s \in Seq(NoticeSet), NEW t \in Task, Once(s),
         \A m, n \in Elems(s) : m.task = t /\ n.task = t => m = n
  PROVE  Cardinality({i \in DOMAIN s : s[i].task = t})
           = IF \E n \in Elems(s) : n.task = t THEN 1 ELSE 0
<1> DEFINE S == {i \in DOMAIN s : s[i].task = t}
<1>1. DOMAIN s = 1..Len(s) OBVIOUS
<1>2. \A i, j \in S : i = j BY <1>1 DEF Once, Elems
<1>3. S = {} <=> ~ \E n \in Elems(s) : n.task = t BY <1>1 DEF Elems
<1> HIDE DEF S
<1>4. Cardinality(S) = IF \E n \in Elems(s) : n.task = t THEN 1 ELSE 0
  BY <1>2, <1>3, OneOrNone
<1> QED BY <1>4 DEF S

(* The model is told the end of a task at most once, over any number of    *)
(* crashes and restarts: by no process twice, and by no later one again,   *)
(* with the same status or as lost.                                        *)
THEOREM EndsToldOnce == Spec /\ Sparing(left) => []NotToldTwice
<1>1. Inv /\ OnceInv => NotToldTwice
  <2> SUFFICES ASSUME Inv, OnceInv, NEW t \in Task PROVE Told(t) + Waiting(t) <= 1
    BY DEF NotToldTwice
  <2> DEFINE Of(S) == \E n \in S : n.task = t
             B == {n \in building \cup orphans : n.task = t}
  <2>1. \A m, n \in Sent : m.task = t /\ n.task = t => m = n
    <3> SUFFICES ASSUME NEW m \in Sent, NEW n \in Sent, m.task = t, n.task = t PROVE m = n
      OBVIOUS
    <3>1. m.status = n.status BY DEF OnceInv, SentOfTheEnd, OfTheEnd
    <3>2. m \in NoticeSet /\ n \in NoticeSet BY InvFacts DEF Sent, Elems
    <3> QED BY <3>1, <3>2 DEF NoticeSet
  <2>2. steerBuffer \in Seq(NoticeSet) /\ log \in Seq(NoticeSet) BY InvFacts
  <2>3. InOnePlace BY DEF OnceInv
  <2>4. Told(t) = IF Of(Elems(log)) THEN 1 ELSE 0
    BY <2>1, <2>2, <2>3, CountOnce DEF Told, Sent, InOnePlace
  <2>5. Cardinality({i \in DOMAIN steerBuffer : steerBuffer[i].task = t})
          = IF Of(Elems(steerBuffer)) THEN 1 ELSE 0
    BY <2>1, <2>2, <2>3, CountOnce DEF Sent, InOnePlace
  <2>6. Cardinality(B) = IF Of(building \cup orphans) THEN 1 ELSE 0
    <3>1. \A m, n \in B : m = n BY <2>1 DEF Sent
    <3>2. B = {} <=> ~ Of(building \cup orphans) OBVIOUS
    <3> HIDE DEF B, Of
    <3> QED BY <3>1, <3>2, OneOrNone
  <2>7. (turn.input # NoNotice /\ turn.input.task = t) <=> Of({turn.input})
    BY BackgroundConstants DEF NoNotice, Notice
  <2>8. /\ ~(Of(Elems(log)) /\ Of(Elems(steerBuffer)))
        /\ ~(Of(Elems(log)) /\ Of(building \cup orphans))
        /\ ~(Of(Elems(log)) /\ Of({turn.input}))
        /\ ~(Of(Elems(steerBuffer)) /\ Of(building \cup orphans))
        /\ ~(Of(Elems(steerBuffer)) /\ Of({turn.input}))
        /\ ~(Of(building \cup orphans) /\ Of({turn.input}))
    BY <2>1, <2>3 DEF Sent, InOnePlace, Apart
  <2> HIDE DEF Of
  <2>9. Waiting(t) = (IF Of(building \cup orphans) THEN 1 ELSE 0)
                     + (IF Of(Elems(steerBuffer)) THEN 1 ELSE 0)
                     + (IF Of({turn.input}) THEN 1 ELSE 0)
    BY <2>5, <2>6, <2>7 DEF Waiting
  <2> QED BY <2>4, <2>8, <2>9
<1> QED BY <1>1, RecordsAgree, NoticesAreKnown, PTL

=============================================================================

---------------------------- MODULE PlatformStore ----------------------------
(***************************************************************************)
(* The recorders (platforms) the gateway knows: _platform_map,             *)
(* platform_list and the file platforms.json behind them.  Handlers add    *)
(* and soft-delete platforms under _platform_map_mux; start_server's loop  *)
(* over platform_list, which reports the platforms upward after a start,   *)
(* runs beside them without the mutex.  The process may crash at any time. *)
(*                                                                         *)
(* deviceId is milliseconds and a random number: ids are fresh here, as    *)
(* the code's comments assume.  A push_back during the loop may move the   *)
(* vector; the loop then goes on in the freed storage and finds what was   *)
(* there (or the process dies, which Crash covers).                        *)
(***************************************************************************)
EXTENDS Naturals, Sequences

CONSTANTS Handlers,     \* pool threads
          Ids,          \* bound: device ids ever generated
          MaxCrashes,   \* bound: crashes of the process
          None

ASSUME StoreAssumption == MaxCrashes \in Nat /\ None \notin Ids /\ None \notin Handlers

\* A file with half a JSON document: it has something no platform is.
Torn == <<[id |-> None, soft_del |-> FALSE]>>

VARIABLES phase,      \* "down", "boot" (start_server's loop), "run", "failed"
          map,        \* _platform_map: [Ids -> "none", "live", "deleted"]
          list,       \* platform_list.platforms
          file,       \* platforms.json
          mux,        \* holder of _platform_map_mux
          pc, arg,    \* handlers
          saved,      \* [Handlers -> BOOLEAN]: writeJsonFile opened the file
          view,       \* start_server's loop: the storage it runs over
          moved,      \* ... which is no longer the storage of platform_list
          next,       \* ... index of the platform it is at
          bpc,        \* ... "begin", "test" or "report"
          stale,      \* history: an open failed after the last write of the file
          used,       \* ids generated so far
          crashes,
          added,      \* history: ids saved by device_add, and not lost by a
                      \* crash in the middle of a later write
          deleted,    \* history: ids whose soft delete was saved and answered
          raced       \* history: ids whose delete overlapped the loop

vars == <<phase, map, list, file, mux, pc, arg, saved, stale, view, moved, next, bpc, used,
          crashes, added, deleted, raced>>
loopVars == <<view, moved, next, bpc>>
histVars == <<added, deleted, raced>>
bootVars == <<phase, next, bpc, crashes>>   \* what no handler changes

Platforms == [id : Ids, soft_del : BOOLEAN]
Steps == {"idle", "addTrunc", "addWrite", "mark", "delTrunc", "delWrite", "respond"}

TypeOK ==
  /\ phase \in {"down", "boot", "run", "failed"}
  /\ map \in [Ids -> {"none", "live", "deleted"}]
  /\ list \in Seq(Platforms)
  /\ file = Torn \/ file \in Seq(Platforms)
  /\ mux \in Handlers \cup {None}
  /\ pc \in [Handlers -> Steps]
  /\ arg \in [Handlers -> Ids \cup {None}]
  /\ saved \in [Handlers -> BOOLEAN]
  /\ stale \in BOOLEAN
  /\ view \in Seq(Platforms)
  /\ moved \in BOOLEAN
  /\ next \in 1 .. Len(view) + 1
  /\ bpc \in {"begin", "test", "report"}
  /\ used \subseteq Ids
  /\ crashes \in 0 .. MaxCrashes
  /\ added \subseteq used /\ deleted \subseteq used /\ raced \subseteq used
  \* deviceId is a key of the list
  /\ \A i, j \in DOMAIN list : list[i].id = list[j].id => i = j

Init ==
  /\ phase = "down"
  /\ map = [d \in Ids |-> "none"]
  /\ list = <<>> /\ file = <<>>
  /\ mux = None
  /\ pc = [h \in Handlers |-> "idle"]
  /\ arg = [h \in Handlers |-> None]
  /\ saved = [h \in Handlers |-> FALSE]
  /\ stale = FALSE
  /\ view = <<>> /\ moved = FALSE /\ next = 1 /\ bpc = "begin"
  /\ used = {} /\ crashes = 0
  /\ added = {} /\ deleted = {} /\ raced = {}

Up == phase \in {"boot", "run"}
Ids_of(s) == {s[i].id : i \in DOMAIN s}
goto(h, step) == pc' = [pc EXCEPT ![h] = step]
-----------------------------------------------------------------------------
(***************************************************************************)
(* start_server.                                                           *)
(***************************************************************************)
\* Mutant: soft-deleted platforms come back as live ones.
Loaded_Revives(s) == [i \in DOMAIN s |-> [s[i] EXCEPT !.soft_del = FALSE]]

\* xpack::json::decode of the file into platform_list.
Loaded(s) == s

\* init_platform: decoding a torn file throws out of main.
init_platform ==
  /\ phase = "down"
  /\ IF file = Torn
     THEN phase' = "failed" /\ UNCHANGED <<list, map>>
     ELSE /\ phase' = "boot"
          /\ list' = Loaded(file)
          /\ map' = [d \in Ids |->
                       CASE \E i \in DOMAIN file : file[i] = [id |-> d, soft_del |-> FALSE] -> "live"
                         [] \E i \in DOMAIN file : file[i] = [id |-> d, soft_del |-> TRUE] -> "deleted"
                         [] OTHER -> "none"]
  /\ UNCHANGED <<file, mux, pc, arg, saved, stale, loopVars, used, crashes, histVars>>

\* The range-for takes its begin and its end, without the mutex.
start_server_begin ==
  /\ phase = "boot" /\ bpc = "begin"
  /\ view' = list
  /\ bpc' = "test"
  /\ UNCHANGED <<phase, map, list, file, mux, pc, arg, saved, stale, moved, next, used, crashes, histVars>>

\* The loop's test of soft_del.
start_server_test ==
  /\ phase = "boot" /\ bpc = "test" /\ next <= Len(view)
  /\ IF view[next].soft_del THEN next' = next + 1 /\ UNCHANGED bpc
                            ELSE bpc' = "report" /\ UNCHANGED next
  /\ UNCHANGED <<phase, map, list, file, mux, pc, arg, saved, stale, view, moved, used, crashes, histVars>>

\* After the last platform start_server is over.
start_server_end ==
  /\ phase = "boot" /\ bpc = "test" /\ next > Len(view)
  /\ phase' = "run"
  /\ view' = <<>> /\ moved' = FALSE /\ next' = 1 /\ bpc' = "begin"
  /\ UNCHANGED <<map, list, file, mux, pc, arg, saved, stale, used, crashes, histVars>>

\* The map entry is overwritten and the platform's state is sent upward.
start_server_report ==
  /\ phase = "boot" /\ bpc = "report"
  /\ map' = [map EXCEPT ![view[next].id] = IF view[next].soft_del THEN "deleted" ELSE "live"]
  /\ next' = next + 1 /\ bpc' = "test"
  /\ UNCHANGED <<phase, list, file, mux, pc, arg, saved, stale, view, moved, used, crashes, histVars>>
-----------------------------------------------------------------------------
(***************************************************************************)
(* writeJsonFile(filename, encode(platform_list)), with the mutex held.    *)
(***************************************************************************)
\* Opening for writing empties the file; an open that fails changes nothing,
\* and its result is ignored.
writeJsonFile_open(h, from, to, done) ==
  /\ Up /\ pc[h] = from
  /\ \/ /\ file' = <<>>
        /\ saved' = [saved EXCEPT ![h] = TRUE]
        /\ goto(h, to)
        /\ UNCHANGED <<mux, stale>>
     \/ /\ saved' = [saved EXCEPT ![h] = FALSE]
        /\ stale' = TRUE
        /\ mux' = None
        /\ goto(h, done)
        /\ UNCHANGED file
  /\ arg' = IF pc'[h] = "idle" THEN [arg EXCEPT ![h] = None] ELSE arg
  /\ UNCHANGED <<map, list, used, view, moved, bootVars, histVars>>

\* Mutant: the list is encoded before the platform is added to it.
add_platform_write_Early(h) ==
  /\ Up /\ pc[h] = "addWrite"
  /\ file' = SubSeq(list, 1, Len(list) - 1)
  /\ stale' = FALSE
  /\ mux' = None
  /\ goto(h, "idle")
  /\ added' = added \cup {arg[h]}
  /\ saved' = [saved EXCEPT ![h] = FALSE]
  /\ arg' = [arg EXCEPT ![h] = None]
  /\ UNCHANGED <<map, list, used, view, moved, bootVars, deleted, raced>>

add_platform_write(h) ==
  /\ Up /\ pc[h] = "addWrite"
  /\ file' = list
  /\ stale' = FALSE
  /\ mux' = None
  /\ goto(h, "idle")
  /\ added' = added \cup {arg[h]}
  /\ saved' = [saved EXCEPT ![h] = FALSE]
  /\ arg' = [arg EXCEPT ![h] = None]
  /\ UNCHANGED <<map, list, used, view, moved, bootVars, deleted, raced>>

del_platform_write(h) ==
  /\ Up /\ pc[h] = "delWrite"
  /\ file' = list
  /\ stale' = FALSE
  /\ mux' = None
  /\ goto(h, "respond")
  /\ UNCHANGED <<map, list, arg, saved, used, view, moved, bootVars, histVars>>
-----------------------------------------------------------------------------
\* A push_back while the loop runs can move the vector to a larger storage.
push_back_moves == moved' = moved \/ (bpc # "begin" /\ moved' = TRUE)

\* Mutant: the id is taken from the request, a device may be added twice.
device_add_KeepsId(h) ==
  /\ Up /\ pc[h] = "idle" /\ mux = None
  /\ \E d \in Ids :
       /\ used' = used \cup {d}
       /\ map' = [map EXCEPT ![d] = "live"]
       /\ list' = Append(list, [id |-> d, soft_del |-> FALSE])
       /\ arg' = [arg EXCEPT ![h] = d]
  /\ Len(list) < 2
  /\ push_back_moves
  /\ mux' = h
  /\ goto(h, "addTrunc")
  /\ UNCHANGED <<file, saved, stale, view, bootVars, histVars>>

(***************************************************************************)
(* device_add after a successful login: the answer has been sent already   *)
(* when add_platform takes the mutex.  (A failed login changes nothing.)   *)
(***************************************************************************)
device_add(h) ==
  /\ Up /\ pc[h] = "idle" /\ mux = None
  /\ \E d \in Ids \ used :
       /\ used' = used \cup {d}
       /\ map' = [map EXCEPT ![d] = "live"]
       /\ list' = Append(list, [id |-> d, soft_del |-> FALSE])
       /\ arg' = [arg EXCEPT ![h] = d]
  /\ push_back_moves
  /\ mux' = h
  /\ goto(h, "addTrunc")
  /\ UNCHANGED <<file, saved, stale, view, bootVars, histVars>>

\* device_delete_soft: an unknown id is answered with success as well.
device_delete_soft(h, d) ==
  /\ Up /\ pc[h] = "idle" /\ mux = None
  /\ map[d] # "none"
  /\ map' = [map EXCEPT ![d] = "deleted"]
  /\ arg' = [arg EXCEPT ![h] = d]
  /\ saved' = [saved EXCEPT ![h] = FALSE]
  /\ mux' = h
  /\ goto(h, "mark")
  /\ raced' = IF phase = "boot" THEN raced \cup {d} ELSE raced
  /\ UNCHANGED <<list, file, stale, used, view, moved, bootVars, added, deleted>>

Marked(s, d) == [i \in DOMAIN s |-> [s[i] EXCEPT !.soft_del = @ \/ s[i].id = d]]

\* update_platform_for_local_file looks at soft_del in the map again, by
\* reference, and marks the platform of the list.
update_platform_for_local_file(h) ==
  LET d == arg[h]
      marks == d \in Ids_of(list) /\ map[d] = "deleted"
  IN  /\ Up /\ pc[h] = "mark"
      /\ list' = IF marks THEN Marked(list, d) ELSE list
      /\ view' = IF marks /\ ~moved THEN Marked(view, d) ELSE view
      /\ IF d \in Ids_of(list)
         THEN goto(h, "delTrunc") /\ UNCHANGED mux
         ELSE goto(h, "respond") /\ mux' = None
      /\ UNCHANGED <<map, file, arg, saved, stale, used, moved, bootVars, histVars>>

\* The answer to the platform: code 0 whatever happened.
respond(h) ==
  /\ Up /\ pc[h] = "respond"
  /\ deleted' = IF saved[h] THEN deleted \cup {arg[h]} ELSE deleted
  /\ goto(h, "idle")
  /\ saved' = [saved EXCEPT ![h] = FALSE]
  /\ arg' = [arg EXCEPT ![h] = None]
  /\ UNCHANGED <<map, list, file, mux, stale, used, view, moved, bootVars, added, raced>>
-----------------------------------------------------------------------------
\* The process dies; a file that was being written has any prefix of it.
Crash ==
  /\ Up /\ crashes < MaxCrashes
  /\ crashes' = crashes + 1
  /\ phase' = "down"
  /\ IF \E h \in Handlers : pc[h] \in {"addWrite", "delWrite"}
     THEN file' \in {<<>>, Torn, list} /\ added' = {}
     ELSE UNCHANGED <<file, added>>
  /\ list' = <<>> /\ map' = [d \in Ids |-> "none"]
  /\ mux' = None
  /\ pc' = [h \in Handlers |-> "idle"]
  /\ arg' = [h \in Handlers |-> None]
  /\ saved' = [h \in Handlers |-> FALSE]
  /\ stale' = FALSE
  /\ view' = <<>> /\ moved' = FALSE /\ next' = 1 /\ bpc' = "begin"
  /\ UNCHANGED <<used, deleted, raced>>

Handler(h) ==
  \/ device_add(h)
  \/ writeJsonFile_open(h, "addTrunc", "addWrite", "idle")
  \/ add_platform_write(h)
  \/ \E d \in Ids : device_delete_soft(h, d)
  \/ update_platform_for_local_file(h)
  \/ writeJsonFile_open(h, "delTrunc", "delWrite", "respond")
  \/ del_platform_write(h)
  \/ respond(h)

Next ==
  \/ init_platform
  \/ start_server_begin \/ start_server_test \/ start_server_report \/ start_server_end
  \/ \E h \in Handlers : Handler(h)
  \/ Crash

Spec == Init /\ [][Next]_vars
-----------------------------------------------------------------------------
(***************************************************************************)
(* Outside the mutex the file says what platform_list says (until an open *)
(* fails, and again after the next write), so a restart loses nothing that *)
(* happened before.                                                        *)
(***************************************************************************)
FileMatchesList == Up /\ mux = None /\ ~stale => file = list

(***************************************************************************)
(* A soft delete that was saved and answered is never undone: not by adds  *)
(* and deletes of other platforms, and not by crashes at any point of a    *)
(* later write of the file.  (Deletes during start_server's loop are       *)
(* excepted: a push_back may have moved the vector under the loop.)        *)
(***************************************************************************)
AnsweredDeletesPersist ==
  \A d \in deleted \ raced : \A i \in DOMAIN list : list[i].id = d => list[i].soft_del

(***************************************************************************)
(* A platform that was saved is known whenever the program runs: other     *)
(* adds and deletes, an open that fails and crashes lose none.  (A crash   *)
(* between the truncation and the end of a write is excepted: it loses     *)
(* them all.)                                                              *)
(***************************************************************************)
SavedPlatformsSurvive == Up => added \subseteq Ids_of(list)
=============================================================================

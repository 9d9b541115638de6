------------------------ MODULE PlatformStoreProofs ------------------------
(***************************************************************************)
(* Proofs about PlatformStore, for any number of pool threads, platforms   *)
(* and crashes: what was answered and saved is there again after every     *)
(* restart.                                                                *)
(***************************************************************************)
EXTENDS PlatformStore, TLAPS

\* The steps of a handler that holds the mutex,
Locked == {"addTrunc", "addWrite", "mark", "delTrunc", "delWrite"}
\* and those between writeJsonFile's open and its write.
Writing == {"addWrite", "delWrite"}

\* No two platforms of s have one id, and no id was never generated.
Keyed(s) ==
  /\ Ids_of(s) \subseteq used \cup {None}
  /\ \A i, j \in DOMAIN s : s[i].id = s[j].id => i = j

\* The facts behind the types.
TypeInv ==
  /\ Keyed(list) /\ Keyed(file) /\ Ids_of(view) \subseteq used
  /\ \A d \in Ids : map[d] # "none" => d \in used
  /\ bpc = "begin" => next = 1
  /\ bpc = "report" => next <= Len(view)
  /\ \A h \in Handlers : pc[h] # "idle" => arg[h] \in used

\* The mutex is held in the steps that need it, and nobody works when the
\* program is down.
LockInv ==
  /\ \A h \in Handlers : pc[h] \in Locked <=> mux = h
  /\ ~Up => \A h \in Handlers : pc[h] = "idle"

\* The platform being added is in the list until its id is given back.
AddInv == \A h \in Handlers : pc[h] \in {"addTrunc", "addWrite"} => arg[h] \in Ids_of(list)

\* The file and the list agree until the list is changed.
FileInv == \A h \in Handlers : Up /\ pc[h] = "mark" /\ ~stale => file = list

\* Outside a write the file knows every platform that was saved.
SavedInv == (\A h \in Handlers : pc[h] \notin Writing) => added \subseteq Ids_of(file)

\* Every entry of d in s is marked as deleted.
DeletedIn(s, d) == \A i \in DOMAIN s : s[i].id = d => s[i].soft_del

\* A delete that start_server's loop has not met is on its way: it is in the
\* map, then in the list, then in the file.
DeletesOf(h) ==
  arg[h] \notin raced =>
    /\ pc[h] \in {"mark", "delTrunc", "delWrite", "respond"} => phase = "run"
    /\ pc[h] = "mark" => map[arg[h]] = "deleted"
    /\ pc[h] \in {"delTrunc", "delWrite"} => DeletedIn(list, arg[h])
    /\ pc[h] = "respond" /\ saved[h] => DeletedIn(list, arg[h]) /\ DeletedIn(file, arg[h])
    /\ pc[h] = "mark" => ~saved[h]
DeletesInv == \A h \in Handlers : DeletesOf(h)

\* ... and stays there once it was answered.
AnsweredInv == \A d \in deleted \ raced : DeletedIn(list, d) /\ DeletedIn(file, d)
-----------------------------------------------------------------------------
(***************************************************************************)
(* The lists of platforms.                                                 *)
(***************************************************************************)
\* What stands in a list has an id.
LEMMA Elements ==
  ASSUME NEW s \in Seq(Platforms)
  PROVE  \A i \in DOMAIN s : s[i] \in Platforms /\ s[i].id \in Ids
<1>1. \A i \in DOMAIN s : s[i] \in Platforms
  OBVIOUS
<1>2. QED
  BY <1>1 DEF Platforms

\* push_back adds one id.
LEMMA AppendIds ==
  ASSUME NEW s \in Seq(Platforms), NEW p \in Platforms
  PROVE  /\ Append(s, p) \in Seq(Platforms)
         /\ Ids_of(Append(s, p)) = Ids_of(s) \cup {p.id}
         /\ \A d \in Ids : DeletedIn(s, d) /\ p.id # d => DeletedIn(Append(s, p), d)
<1>1. /\ Append(s, p) \in Seq(Platforms) /\ Len(Append(s, p)) = Len(s) + 1
      /\ Append(s, p)[Len(s) + 1] = p
      /\ \A i \in 1 .. Len(s) : Append(s, p)[i] = s[i]
  OBVIOUS
<1>2. DOMAIN Append(s, p) = 1 .. Len(s) + 1 /\ DOMAIN s = 1 .. Len(s) /\ Len(s) \in Nat
  BY <1>1
<1>3. \A i \in 1 .. Len(s) + 1 : i \in 1 .. Len(s) \/ i = Len(s) + 1
  BY <1>2
<1>4. Ids_of(Append(s, p)) = Ids_of(s) \cup {p.id}
  <2>1. ASSUME NEW d \in Ids_of(Append(s, p)) PROVE d \in Ids_of(s) \cup {p.id}
    BY <1>1, <1>2, <1>3 DEF Ids_of
  <2>2. ASSUME NEW d \in Ids_of(s) PROVE d \in Ids_of(Append(s, p))
    BY <1>1, <1>2 DEF Ids_of
  <2>3. p.id \in Ids_of(Append(s, p))
    <3>1. Len(s) + 1 \in DOMAIN Append(s, p)
      BY <1>2
    <3>2. QED
      BY <1>1, <3>1 DEF Ids_of
  <2>4. QED
    BY <2>1, <2>2, <2>3
<1>5. ASSUME NEW d \in Ids, DeletedIn(s, d), p.id # d PROVE DeletedIn(Append(s, p), d)
  BY <1>1, <1>2, <1>3, <1>5 DEF DeletedIn
<1>6. QED
  BY <1>1, <1>4, <1>5

\* A new id keeps the list keyed.
LEMMA AppendKeyed ==
  ASSUME NEW s \in Seq(Platforms), NEW p \in Platforms, Keyed(s), p.id \notin used
  PROVE  \A i, j \in DOMAIN Append(s, p) : Append(s, p)[i].id = Append(s, p)[j].id => i = j
<1>1. /\ \A i \in 1 .. Len(s) : Append(s, p)[i] = s[i] /\ s[i].id # p.id
      /\ Append(s, p)[Len(s) + 1] = p
  BY StoreAssumption DEF Keyed, Ids_of, Platforms
<1>2. DOMAIN Append(s, p) = 1 .. Len(s) + 1 /\ DOMAIN s = 1 .. Len(s) /\ Len(s) \in Nat
  OBVIOUS
<1>3. \A i \in 1 .. Len(s) + 1 : i \in 1 .. Len(s) \/ i = Len(s) + 1
  BY <1>2
<1>4. QED
  BY <1>1, <1>2, <1>3 DEF Keyed

\* update_platform_for_local_file changes no id and takes no mark back.
LEMMA MarkedPlatforms ==
  ASSUME NEW s \in Seq(Platforms), NEW d \in Ids
  PROVE  /\ Marked(s, d) \in Seq(Platforms) /\ DOMAIN Marked(s, d) = DOMAIN s
         /\ Len(Marked(s, d)) = Len(s)
         /\ Ids_of(Marked(s, d)) = Ids_of(s)
         /\ DeletedIn(Marked(s, d), d)
         /\ \A e \in Ids : DeletedIn(s, e) => DeletedIn(Marked(s, d), e)
         /\ Keyed(s) => Keyed(Marked(s, d))
<1>1. ASSUME NEW i \in DOMAIN s
      PROVE  /\ Marked(s, d)[i] \in Platforms /\ Marked(s, d)[i].id = s[i].id
             /\ s[i].soft_del => Marked(s, d)[i].soft_del
             /\ s[i].id = d => Marked(s, d)[i].soft_del
  <2>1. s[i] \in Platforms
    OBVIOUS
  <2>2. QED
    BY <2>1 DEF Marked, Platforms
<1>2. DOMAIN Marked(s, d) = DOMAIN s /\ DOMAIN s = 1 .. Len(s) /\ Len(s) \in Nat
  BY DEF Marked
<1>3. Marked(s, d) \in Seq(Platforms) /\ Len(Marked(s, d)) = Len(s)
  <2>1. Marked(s, d) \in [1 .. Len(s) -> Platforms]
    BY <1>1, <1>2 DEF Marked
  <2>2. QED
    BY <2>1, <1>2
<1>4. Ids_of(Marked(s, d)) = Ids_of(s)
  BY <1>1, <1>2 DEF Ids_of
<1>5. DeletedIn(Marked(s, d), d) /\ \A e \in Ids : DeletedIn(s, e) => DeletedIn(Marked(s, d), e)
  BY <1>1, <1>2 DEF DeletedIn
<1>6. Keyed(s) => Keyed(Marked(s, d))
  BY <1>1, <1>2, <1>4 DEF Keyed
<1>7. QED
  BY <1>2, <1>3, <1>4, <1>5, <1>6

\* A file with nothing or half a document in it has no platform.
LEMMA NoPlatforms ==
  /\ Keyed(<<>>) /\ Keyed(Torn)
  /\ \A d \in Ids : DeletedIn(<<>>, d) /\ DeletedIn(Torn, d)
<1>1. DOMAIN Torn = {1} /\ Torn[1].id = None
  BY DEF Torn
<1>2. Ids_of(Torn) = {None}
  BY <1>1 DEF Ids_of
<1>3. DOMAIN <<>> = {} /\ Ids_of(<<>>) = {}
  BY DEF Ids_of
<1>4. QED
  BY <1>1, <1>2, <1>3, StoreAssumption DEF Keyed, DeletedIn
-----------------------------------------------------------------------------
(***************************************************************************)
(* Types.                                                                  *)
(***************************************************************************)
\* More ids used leave a keyed list keyed.
LEMMA KeyedStays ==
  ASSUME NEW s, Keyed(s), used \subseteq used'
  PROVE  Ids_of(s) \subseteq used' \cup {None}
         /\ \A i, j \in DOMAIN s : s[i].id = s[j].id => i = j
BY DEF Keyed

\* The map built from the file knows no id that is not in it.
LEMMA LoadedMap ==
  ASSUME TypeOK, TypeInv, init_platform
  PROVE  /\ map' \in [Ids -> {"none", "live", "deleted"}]
         /\ \A d \in Ids : map'[d] # "none" => d \in used
<1>1. CASE file = Torn
  BY <1>1 DEF init_platform, TypeOK, TypeInv
<1>2. CASE file # Torn
  <2> DEFINE live(d) == \E i \in DOMAIN file : file[i] = [id |-> d, soft_del |-> FALSE]
             dead(d) == \E i \in DOMAIN file : file[i] = [id |-> d, soft_del |-> TRUE]
             entry(d) == CASE live(d) -> "live" [] dead(d) -> "deleted" [] OTHER -> "none"
  <2>1. map' = [d \in Ids |-> entry(d)]
    BY <1>2 DEF init_platform
  <2>2. ASSUME NEW d \in Ids
        PROVE  /\ entry(d) \in {"none", "live", "deleted"}
               /\ entry(d) # "none" => live(d) \/ dead(d)
    <3> HIDE DEF live, dead
    <3>1. QED
      OBVIOUS
  <2>3. ASSUME NEW d \in Ids, live(d) \/ dead(d) PROVE d \in used
    <3>1. d \in Ids_of(file)
      BY <2>3 DEF Ids_of
    <3>2. QED
      BY <3>1, StoreAssumption DEF TypeInv, Keyed
  <2> HIDE DEF live, dead, entry
  <2>4. QED
    BY <2>1, <2>2, <2>3
<1>3. QED
  BY <1>1, <1>2

\* Every step keeps the types and TypeInv.
LEMMA TypeStep ==
  ASSUME TypeOK, TypeInv, [Next]_vars
  PROVE  TypeOK' /\ TypeInv'
<1> USE DEF TypeOK, TypeInv
<1> DEFINE keyed(s) == Ids_of(s) \subseteq used' \cup {None}
                       /\ \A i, j \in DOMAIN s : s[i].id = s[j].id => i = j
<1>a. /\ Keyed(list)' <=> keyed(list')
      /\ Keyed(file)' <=> keyed(file')
  BY DEF Keyed, Ids_of
<1>b. \A s : used \subseteq used' /\ Keyed(s) => keyed(s)
  BY KeyedStays
<1> HIDE DEF keyed
<1>c. used' = used => keyed(list) /\ keyed(file) /\ Ids_of(view) \subseteq used'
  BY <1>b
<1>d. view' = view => Ids_of(view') = Ids_of(view)
  OBVIOUS
<1>1. CASE init_platform
  <2>1. /\ list' \in Seq(Platforms) /\ keyed(list')
        /\ list' = list \/ list' = file
    BY <1>1, <1>b, <1>c DEF init_platform, Loaded
  <2>2. /\ map' \in [Ids -> {"none", "live", "deleted"}]
        /\ \A d \in Ids : map'[d] # "none" => d \in used
    BY <1>1, LoadedMap
  <2>3. \A i, j \in DOMAIN list' : list'[i].id = list'[j].id => i = j
    BY <2>1 DEF keyed
  <2>4. phase' \in {"down", "boot", "run", "failed"}
    BY <1>1 DEF init_platform
  <2>5. QED
    BY <1>1, <1>a, <1>c, <1>d, <2>1, <2>2, <2>3, <2>4 DEF init_platform, loopVars, histVars
<1>2. CASE start_server_begin
  <2>1. Ids_of(list) \subseteq used
    <3>1. \A i \in DOMAIN list : list[i].id \in Ids
      BY Elements
    <3>2. \A d \in Ids_of(list) : d # None
      BY <3>1, StoreAssumption DEF Ids_of
    <3>3. QED
      BY <3>2 DEF Keyed
  <2>2. Ids_of(view') \subseteq used' /\ view' \in Seq(Platforms)
    BY <1>2, <2>1 DEF start_server_begin, histVars
  <2>3. next' \in 1 .. Len(view') + 1
    <3>1. next = 1 /\ next' = 1
      BY <1>2 DEF start_server_begin
    <3>2. Len(view') \in Nat
      BY <2>2
    <3>3. QED
      BY <3>1, <3>2
  <2>4. bpc' = "test"
    BY <1>2 DEF start_server_begin
  <2>5. QED
    BY <1>2, <1>a, <1>c, <2>2, <2>3, <2>4 DEF start_server_begin, histVars
<1>3. CASE start_server_test
  <2>1. view[next] \in Platforms /\ next' \in 1 .. Len(view) + 1
    BY <1>3 DEF start_server_test
  <2>2. QED
    BY <1>3, <1>a, <1>c, <1>d, <2>1 DEF start_server_test, histVars
<1>4. CASE start_server_report
  <2>1. view[next] \in Platforms /\ view[next].id \in used /\ view[next].id \in Ids
    <3>1. next \in DOMAIN view
      BY <1>4 DEF start_server_report
    <3>2. view[next] \in Platforms
      BY <3>1
    <3>3. view[next].id \in Ids_of(view)
      BY <3>1 DEF Ids_of
    <3>4. QED
      BY <3>2, <3>3 DEF Platforms
  <2>2. /\ map' \in [Ids -> {"none", "live", "deleted"}]
        /\ \A d \in Ids : map'[d] # "none" => d \in used
    BY <1>4, <2>1 DEF start_server_report
  <2>3. QED
    BY <1>4, <1>a, <1>c, <1>d, <2>2 DEF start_server_report, histVars
<1>5. CASE start_server_end
  <2>1. /\ Ids_of(view') = {} /\ view' \in Seq(Platforms)
        /\ next' \in 1 .. Len(view') + 1 /\ bpc' = "begin"
    BY <1>5 DEF start_server_end, Ids_of
  <2>2. QED
    BY <1>5, <1>a, <1>c, <2>1 DEF start_server_end, histVars
<1>6. ASSUME NEW h \in Handlers, device_add(h) PROVE TypeOK' /\ TypeInv'
  <2>1. PICK d \in Ids \ used :
          /\ used' = used \cup {d}
          /\ map' = [map EXCEPT ![d] = "live"]
          /\ list' = Append(list, [id |-> d, soft_del |-> FALSE])
          /\ arg' = [arg EXCEPT ![h] = d]
    BY <1>6 DEF device_add
  <2>2. [id |-> d, soft_del |-> FALSE] \in Platforms /\ [id |-> d, soft_del |-> FALSE].id = d
    BY DEF Platforms
  <2>3. /\ list' \in Seq(Platforms) /\ Ids_of(list') = Ids_of(list) \cup {d}
        /\ \A i, j \in DOMAIN list' : list'[i].id = list'[j].id => i = j
    BY <2>1, <2>2, AppendIds, AppendKeyed
  <2>4. keyed(list')
    BY <2>1, <2>3 DEF keyed, Keyed
  <2>5. keyed(file')
    BY <1>6, <2>1, <1>b DEF device_add
  <2>6. \A g \in Handlers : pc'[g] # "idle" => arg'[g] \in used'
    BY <1>6, <2>1 DEF device_add, goto
  <2>7. \A e \in Ids : map'[e] # "none" => e \in used'
    BY <2>1
  <2>8. map' \in [Ids -> {"none", "live", "deleted"}] /\ arg' \in [Handlers -> Ids \cup {None}]
        /\ used' \subseteq Ids
    BY <2>1
  <2>9. pc' \in [Handlers -> Steps] /\ mux' \in Handlers \cup {None} /\ moved' \in BOOLEAN
    BY <1>6 DEF device_add, goto, Steps, push_back_moves
  <2>10. added' \subseteq used' /\ deleted' \subseteq used' /\ raced' \subseteq used'
    BY <1>6, <2>1 DEF device_add, histVars
  <2>11. QED
    BY <1>6, <1>a, <1>d, <2>1, <2>3, <2>4, <2>5, <2>6, <2>7, <2>8, <2>9, <2>10
    DEF device_add, bootVars
<1>7. ASSUME NEW h \in Handlers, NEW from \in Steps, NEW to \in Steps \ {"idle"}, NEW done \in Steps,
             writeJsonFile_open(h, from, to, done), from # "idle"
      PROVE  TypeOK' /\ TypeInv'
  <2>1. file' = file \/ (file' = <<>> /\ keyed(<<>>))
    BY <1>7, <1>b, NoPlatforms DEF writeJsonFile_open
  <2>2. pc' \in [Handlers -> Steps] /\ mux' \in Handlers \cup {None} /\ stale' \in BOOLEAN
        /\ saved' \in [Handlers -> BOOLEAN]
    BY <1>7 DEF writeJsonFile_open, goto
  <2>3. arg' \in [Handlers -> Ids \cup {None}]
        /\ \A g \in Handlers : pc'[g] # "idle" => arg'[g] \in used'
    <3>1. \A g \in Handlers : pc'[g] # "idle" => pc[g] # "idle"
      BY <1>7 DEF writeJsonFile_open, goto
    <3>2. CASE pc'[h] = "idle"
      BY <1>7, <2>2, <3>1, <3>2 DEF writeJsonFile_open
    <3>3. CASE pc'[h] # "idle"
      BY <1>7, <3>1, <3>3 DEF writeJsonFile_open
    <3>4. QED
      BY <3>2, <3>3
  <2>4. file' = Torn \/ file' \in Seq(Platforms)
    <3>1. <<>> \in Seq(Platforms)
      OBVIOUS
    <3>2. file = Torn \/ file \in Seq(Platforms)
      OBVIOUS
    <3>3. QED
      BY <2>1, <3>1, <3>2
  <2>5. QED
    BY <1>7, <1>a, <1>c, <1>d, <2>1, <2>2, <2>3, <2>4 DEF writeJsonFile_open, bootVars, histVars
<1>8. ASSUME NEW h \in Handlers, add_platform_write(h) PROVE TypeOK' /\ TypeInv'
  <2>1. keyed(file') /\ file' \in Seq(Platforms)
    BY <1>8, <1>c DEF add_platform_write
  <2>2. pc' \in [Handlers -> Steps] /\ arg' \in [Handlers -> Ids \cup {None}]
        /\ saved' \in [Handlers -> BOOLEAN] /\ mux' \in Handlers \cup {None} /\ stale' \in BOOLEAN
    BY <1>8 DEF add_platform_write, goto, Steps
  <2>3. added' \subseteq used' /\ \A g \in Handlers : pc'[g] # "idle" => arg'[g] \in used'
    BY <1>8 DEF add_platform_write, goto
  <2>4. QED
    BY <1>8, <1>a, <1>c, <1>d, <2>1, <2>2, <2>3 DEF add_platform_write, bootVars
<1>9. ASSUME NEW h \in Handlers, NEW d \in Ids, device_delete_soft(h, d) PROVE TypeOK' /\ TypeInv'
  <2>1. d \in used
    BY <1>9 DEF device_delete_soft
  <2>2. pc' \in [Handlers -> Steps] /\ arg' \in [Handlers -> Ids \cup {None}]
        /\ saved' \in [Handlers -> BOOLEAN] /\ mux' \in Handlers \cup {None}
        /\ map' \in [Ids -> {"none", "live", "deleted"}]
    BY <1>9 DEF device_delete_soft, goto, Steps
  <2>3. /\ raced' \subseteq used'
        /\ \A g \in Handlers : pc'[g] # "idle" => arg'[g] \in used'
        /\ \A e \in Ids : map'[e] # "none" => e \in used'
    BY <1>9, <2>1 DEF device_delete_soft, goto
  <2>4. QED
    BY <1>9, <1>a, <1>c, <1>d, <2>2, <2>3 DEF device_delete_soft, bootVars
<1>10. ASSUME NEW h \in Handlers, update_platform_for_local_file(h) PROVE TypeOK' /\ TypeInv'
  <2>0. pc[h] = "mark" /\ arg[h] \in used /\ arg[h] \in Ids
    BY <1>10 DEF update_platform_for_local_file
  <2>1. /\ list' = list \/ list' = Marked(list, arg[h])
        /\ view' = view \/ view' = Marked(view, arg[h])
    BY <1>10 DEF update_platform_for_local_file
  <2>2. list' \in Seq(Platforms) /\ keyed(list')
        /\ \A i, j \in DOMAIN list' : list'[i].id = list'[j].id => i = j
    <3>1. list' \in Seq(Platforms) /\ Keyed(list')
      BY <2>0, <2>1, MarkedPlatforms
    <3>2. QED
      BY <1>10, <3>1, <1>b DEF update_platform_for_local_file, Keyed
  <2>3. view' \in Seq(Platforms) /\ Ids_of(view') \subseteq used /\ Len(view') = Len(view)
    BY <2>0, <2>1, MarkedPlatforms
  <2>4. pc' \in [Handlers -> Steps] /\ mux' \in Handlers \cup {None}
    BY <1>10 DEF update_platform_for_local_file, goto, Steps
  <2>5. \A g \in Handlers : pc'[g] # "idle" => arg'[g] \in used'
    BY <1>10, <2>0 DEF update_platform_for_local_file, goto
  <2>6. QED
    BY <1>10, <1>a, <1>c, <2>2, <2>3, <2>4, <2>5
    DEF update_platform_for_local_file, bootVars, histVars
<1>11. ASSUME NEW h \in Handlers, del_platform_write(h) PROVE TypeOK' /\ TypeInv'
  <2>1. keyed(file') /\ file' \in Seq(Platforms)
    BY <1>11, <1>c DEF del_platform_write
  <2>2. pc' \in [Handlers -> Steps] /\ mux' \in Handlers \cup {None} /\ stale' \in BOOLEAN
    BY <1>11 DEF del_platform_write, goto, Steps
  <2>3. \A g \in Handlers : pc'[g] # "idle" => arg'[g] \in used'
    BY <1>11 DEF del_platform_write, goto
  <2>4. QED
    BY <1>11, <1>a, <1>c, <1>d, <2>1, <2>2, <2>3 DEF del_platform_write, bootVars, histVars
<1>12. ASSUME NEW h \in Handlers, respond(h) PROVE TypeOK' /\ TypeInv'
  <2>1. pc' \in [Handlers -> Steps] /\ arg' \in [Handlers -> Ids \cup {None}]
        /\ saved' \in [Handlers -> BOOLEAN]
    BY <1>12 DEF respond, goto, Steps
  <2>2. deleted' \subseteq used'
    BY <1>12 DEF respond
  <2>3. \A g \in Handlers : pc'[g] # "idle" => arg'[g] \in used'
    BY <1>12 DEF respond, goto
  <2>4. QED
    BY <1>12, <1>a, <1>c, <1>d, <2>1, <2>2, <2>3 DEF respond, bootVars
<1>13. CASE Crash
  <2>1. keyed(list') /\ list' = <<>> /\ view' = <<>> /\ Ids_of(<<>>) = {} /\ Len(<<>>) = 0
    BY <1>13, <1>b, NoPlatforms DEF Crash, Ids_of
  <2>2. keyed(file') /\ (file' = Torn \/ file' \in Seq(Platforms))
    <3>1. file' \in {<<>>, Torn, list, file} /\ used' = used
      BY <1>13 DEF Crash
    <3>2. /\ <<>> \in Seq(Platforms) /\ list \in Seq(Platforms)
          /\ file = Torn \/ file \in Seq(Platforms)
      OBVIOUS
    <3>3. keyed(<<>>) /\ keyed(Torn) /\ keyed(list) /\ keyed(file)
      BY <3>1, <1>b, <1>c, NoPlatforms
    <3>4. QED
      BY <3>1, <3>2, <3>3
  <2>3. crashes' \in 0 .. MaxCrashes
    BY <1>13, StoreAssumption DEF Crash
  <2>4. /\ added' \subseteq used' /\ deleted' \subseteq used' /\ raced' \subseteq used'
        /\ used' \subseteq Ids
    BY <1>13 DEF Crash
  <2>5. /\ pc' \in [Handlers -> Steps] /\ \A h \in Handlers : pc'[h] = "idle"
        /\ arg' \in [Handlers -> Ids \cup {None}] /\ saved' \in [Handlers -> BOOLEAN]
        /\ map' \in [Ids -> {"none", "live", "deleted"}] /\ \A d \in Ids : map'[d] = "none"
    BY <1>13 DEF Crash, Steps
  <2>6. /\ phase' \in {"down", "boot", "run", "failed"} /\ mux' \in Handlers \cup {None}
        /\ stale' \in BOOLEAN /\ moved' \in BOOLEAN
        /\ bpc' = "begin" /\ next' = 1
    BY <1>13 DEF Crash
  <2>7. list' \in Seq(Platforms) /\ view' \in Seq(Platforms) /\ Ids_of(view') \subseteq used'
    BY <2>1
  <2>8. \A i, j \in DOMAIN list' : list'[i].id = list'[j].id => i = j
    BY <2>1 DEF keyed
  <2>9. next' \in 1 .. Len(view') + 1
    BY <2>1, <2>6
  <2>10. QED
    BY <1>a, <2>1, <2>2, <2>3, <2>4, <2>5, <2>6, <2>7, <2>8, <2>9
<1>14. CASE UNCHANGED vars
  BY <1>14, <1>a, <1>c, <1>d DEF vars, loopVars, histVars
<1>15. QED
  <2>1. {"addTrunc", "addWrite", "idle", "delTrunc", "delWrite", "respond"} \subseteq Steps
    BY DEF Steps
  <2>2. ASSUME NEW h \in Handlers, Handler(h) PROVE TypeOK' /\ TypeInv'
    BY <2>1, <2>2, <1>6, <1>7, <1>8, <1>9, <1>10, <1>11, <1>12 DEF Handler
  <2>3. QED
    BY <2>2, <1>1, <1>2, <1>3, <1>4, <1>5, <1>13, <1>14 DEF Next

(***************************************************************************)
(* Type correctness; a deviceId is a key of the list, of the map and of    *)
(* the file, and it was generated once.                                    *)
(***************************************************************************)
THEOREM TypeCorrect == Spec => [](TypeOK /\ TypeInv)
<1>1. Init => TypeOK /\ TypeInv
  <2> SUFFICES ASSUME Init PROVE TypeOK /\ TypeInv
    OBVIOUS
  <2>1. list = <<>> /\ file = <<>> /\ view = <<>> /\ <<>> \in Seq(Platforms) /\ Ids_of(<<>>) = {}
    BY DEF Init, Ids_of
  <2>2. Keyed(list) /\ Keyed(file) /\ Ids_of(view) \subseteq used
    BY <2>1, NoPlatforms
  <2>3. TypeInv
    BY <2>2 DEF Init, TypeInv
  <2>4. next \in 1 .. Len(view) + 1 /\ crashes \in 0 .. MaxCrashes
    BY <2>1, StoreAssumption DEF Init
  <2>5. \A i, j \in DOMAIN list : list[i].id = list[j].id => i = j
    BY <2>1
  <2>6. /\ phase \in {"down", "boot", "run", "failed"} /\ bpc \in {"begin", "test", "report"}
        /\ map \in [Ids -> {"none", "live", "deleted"}] /\ pc \in [Handlers -> Steps]
        /\ arg \in [Handlers -> Ids \cup {None}] /\ saved \in [Handlers -> BOOLEAN]
        /\ mux \in Handlers \cup {None} /\ stale \in BOOLEAN /\ moved \in BOOLEAN
        /\ used = {} /\ added = {} /\ deleted = {} /\ raced = {}
    BY DEF Init, Steps
  <2>7. QED
    BY <2>1, <2>3, <2>4, <2>5, <2>6 DEF TypeOK
<1>2. (TypeOK /\ TypeInv) /\ [Next]_vars => (TypeOK /\ TypeInv)'
  BY TypeStep
<1>3. QED
  BY <1>1, <1>2, PTL DEF Spec
-----------------------------------------------------------------------------
(***************************************************************************)
(* The mutex.                                                              *)
(***************************************************************************)
LEMMA LockStep ==
  ASSUME TypeOK, LockInv, [Next]_vars
  PROVE  LockInv'
<1> USE StoreAssumption DEF LockInv, Locked
<1> DEFINE onlyOf(h) == /\ phase' = phase /\ Up
                        /\ \A g \in Handlers \ {h} : pc'[g] = pc[g]
                        /\ mux' \in {mux, h, None}
                        /\ mux' # mux => mux \in {h, None}
                        /\ pc'[h] \in Locked <=> mux' = h
<1>0. Up' <=> phase' \in {"boot", "run"}
  BY DEF Up
<1>1. ASSUME NEW h \in Handlers, onlyOf(h) PROVE LockInv'
  BY <1>0, <1>1 DEF Up
<1>2. ASSUME NEW h \in Handlers, device_add(h) PROVE onlyOf(h)
  BY <1>2 DEF device_add, goto, bootVars, TypeOK
<1>3. ASSUME NEW h \in Handlers, NEW from \in Locked, NEW to \in Locked, NEW done \in Steps \ Locked,
             writeJsonFile_open(h, from, to, done)
      PROVE  onlyOf(h)
  BY <1>3 DEF writeJsonFile_open, goto, bootVars, TypeOK
<1>4. ASSUME NEW h \in Handlers, add_platform_write(h) PROVE onlyOf(h)
  BY <1>4 DEF add_platform_write, goto, bootVars, TypeOK
<1>5. ASSUME NEW h \in Handlers, NEW d \in Ids, device_delete_soft(h, d) PROVE onlyOf(h)
  BY <1>5 DEF device_delete_soft, goto, bootVars, TypeOK
<1>6. ASSUME NEW h \in Handlers, update_platform_for_local_file(h) PROVE onlyOf(h)
  BY <1>6 DEF update_platform_for_local_file, goto, bootVars, TypeOK
<1>7. ASSUME NEW h \in Handlers, del_platform_write(h) PROVE onlyOf(h)
  BY <1>7 DEF del_platform_write, goto, bootVars, TypeOK
<1>8. ASSUME NEW h \in Handlers, respond(h) PROVE onlyOf(h)
  BY <1>8 DEF respond, goto, bootVars, TypeOK
<1>9. ASSUME NEW h \in Handlers, Handler(h) PROVE LockInv'
  <2>1. "idle" \in Steps \ Locked /\ "respond" \in Steps \ Locked
    BY DEF Steps
  <2> HIDE DEF onlyOf, LockInv
  <2>2. QED
    BY <2>1, <1>9, <1>1, <1>2, <1>3, <1>4, <1>5, <1>6, <1>7, <1>8 DEF Handler
<1>11. CASE init_platform
  BY <1>0, <1>11 DEF init_platform, Up
<1>12. CASE start_server_begin \/ start_server_test \/ start_server_report \/ start_server_end
  BY <1>0, <1>12 DEF start_server_begin, start_server_test, start_server_report, start_server_end, Up
<1>13. CASE Crash
  BY <1>0, <1>13 DEF Crash
<1>14. CASE UNCHANGED vars
  BY <1>0, <1>14 DEF vars, Up
<1>15. QED
  BY <1>9, <1>11, <1>12, <1>13, <1>14 DEF Next

(***************************************************************************)
(* Only the holder of _platform_map_mux is between a change of the map and *)
(* the write of the file that ends it.                                     *)
(***************************************************************************)
THEOREM LockCorrect == Spec => []LockInv
<1>1. Init => LockInv
  BY StoreAssumption DEF Init, LockInv, Locked
<1>2. QED
  BY <1>1, LockStep, TypeCorrect, PTL DEF Spec
-----------------------------------------------------------------------------
(***************************************************************************)
(* What was saved is known.                                                *)
(***************************************************************************)
KnownInv == AddInv /\ SavedInv /\ SavedPlatformsSurvive

\* Every step keeps KnownInv: who is added is in the list, and saved.
LEMMA KnownStep ==
  ASSUME TypeOK, LockInv, KnownInv, [Next]_vars
  PROVE  KnownInv'
<1> USE DEF KnownInv
<1> DEFINE ids == Ids_of(list)
           fids == Ids_of(file)
<1>0. /\ SavedInv' <=> ((\A h \in Handlers : pc'[h] \notin Writing) => added' \subseteq Ids_of(file'))
      /\ SavedPlatformsSurvive' <=> (phase' \in {"boot", "run"} => added' \subseteq Ids_of(list'))
      /\ AddInv' <=> \A h \in Handlers : pc'[h] \in {"addTrunc", "addWrite"} => arg'[h] \in Ids_of(list')
      /\ SavedInv <=> ((\A h \in Handlers : pc[h] \notin Writing) => added \subseteq fids)
      /\ SavedPlatformsSurvive <=> (Up => added \subseteq ids)
      /\ AddInv <=> \A h \in Handlers : pc[h] \in {"addTrunc", "addWrite"} => arg[h] \in ids
      /\ Up <=> phase \in {"boot", "run"}
      /\ pc \in [Handlers -> Steps] /\ arg \in [Handlers -> Ids \cup {None}]
  BY DEF SavedInv, SavedPlatformsSurvive, AddInv, Up, Ids_of, TypeOK
<1> HIDE DEF KnownInv, ids, fids
<1>1. CASE init_platform
  <2>1. ~Up /\ \A h \in Handlers : pc[h] = "idle"
    BY <1>0, <1>1 DEF init_platform, LockInv
  <2>2. added \subseteq fids
    BY <1>0, <2>1 DEF Writing, KnownInv
  <2>3. /\ pc' = pc /\ added' = added /\ file' = file /\ fids = Ids_of(file)
        /\ phase' \in {"boot", "run"} => list' = file
    BY <1>1 DEF init_platform, Loaded, histVars, fids
  <2>4. QED
    BY <1>0, <2>1, <2>2, <2>3 DEF KnownInv
<1>2. ASSUME /\ list' = list /\ file' = file /\ pc' = pc /\ arg' = arg /\ added' = added
             /\ phase' \in {"boot", "run"} => Up
      PROVE  KnownInv'
  BY <1>0, <1>2 DEF KnownInv, ids, fids
<1>3. CASE start_server_begin \/ start_server_test \/ start_server_report \/ start_server_end
  BY <1>0, <1>2, <1>3 DEF start_server_begin, start_server_test, start_server_report,
     start_server_end, histVars
<1>4. ASSUME NEW h \in Handlers, device_add(h) PROVE KnownInv'
  <2>1. PICK d \in Ids \ used :
          /\ list' = Append(list, [id |-> d, soft_del |-> FALSE])
          /\ arg' = [arg EXCEPT ![h] = d]
    BY <1>4 DEF device_add
  <2>2. Ids_of(list') = ids \cup {d}
    <3>1. [id |-> d, soft_del |-> FALSE] \in Platforms /\ [id |-> d, soft_del |-> FALSE].id = d
      BY DEF Platforms
    <3>2. list \in Seq(Platforms)
      BY DEF TypeOK
    <3>3. QED
      BY <2>1, <3>1, <3>2, AppendIds DEF ids
  <2>3. /\ file' = file /\ added' = added /\ phase' = phase /\ Up
        /\ pc' = [pc EXCEPT ![h] = "addTrunc"] /\ pc[h] = "idle"
    BY <1>4 DEF device_add, histVars, bootVars, goto
  <2>4. SavedInv'
    BY <1>0, <2>3 DEF Writing, fids, KnownInv
  <2>5. QED
    BY <1>0, <2>1, <2>2, <2>3, <2>4 DEF KnownInv
<1>5. ASSUME NEW h \in Handlers, NEW from \in {"addTrunc", "delTrunc"}, NEW to \in Writing, NEW done \in Steps,
             writeJsonFile_open(h, from, to, done), to = "addWrite" => from = "addTrunc",
             done \notin Locked
      PROVE  KnownInv'
  <2>1. /\ pc[h] = from /\ list' = list /\ phase' = phase /\ Up /\ added' = added
        /\ \/ file' = <<>> /\ pc' = [pc EXCEPT ![h] = to]
           \/ file' = file /\ pc' = [pc EXCEPT ![h] = done]
    BY <1>5 DEF writeJsonFile_open, goto, histVars, bootVars
  <2>2. \A g \in Handlers : pc'[g] # "idle" => arg'[g] = arg[g]
    BY <1>0, <1>5 DEF writeJsonFile_open
  <2>3. AddInv'
    <3>1. \A g \in Handlers : pc'[g] \in {"addTrunc", "addWrite"} =>
                                pc[g] \in {"addTrunc", "addWrite"} /\ pc'[g] # "idle"
      BY <1>0, <1>5, <2>1 DEF Locked, Writing
    <3>2. QED
      BY <1>0, <2>1, <2>2, <3>1 DEF KnownInv, ids
  <2>4. SavedInv'
    BY <1>0, <2>1, <1>5 DEF KnownInv, Writing, Locked, fids
  <2>5. QED
    BY <1>0, <2>1, <2>3, <2>4 DEF KnownInv, ids
<1>6. ASSUME NEW h \in Handlers, add_platform_write(h) PROVE KnownInv'
  <2>1. /\ list' = list /\ file' = list /\ phase' = phase /\ Up /\ pc[h] = "addWrite"
        /\ added' = added \cup {arg[h]}
        /\ pc' = [pc EXCEPT ![h] = "idle"] /\ arg' = [arg EXCEPT ![h] = None]
    BY <1>6 DEF add_platform_write, goto, bootVars
  <2>2. added' \subseteq ids
    BY <1>0, <2>1 DEF KnownInv
  <2>3. QED
    BY <1>0, <2>1, <2>2 DEF KnownInv, ids
<1>7. ASSUME NEW h \in Handlers, NEW d \in Ids, device_delete_soft(h, d) PROVE KnownInv'
  <2>1. /\ list' = list /\ file' = file /\ phase' = phase /\ Up /\ pc[h] = "idle" /\ added' = added
        /\ pc' = [pc EXCEPT ![h] = "mark"] /\ arg' = [arg EXCEPT ![h] = d]
    BY <1>7 DEF device_delete_soft, goto, bootVars
  <2>2. SavedInv'
    BY <1>0, <2>1 DEF Writing, fids, KnownInv
  <2>3. QED
    BY <1>0, <2>1, <2>2 DEF KnownInv, ids
<1>8. ASSUME NEW h \in Handlers, update_platform_for_local_file(h) PROVE KnownInv'
  <2>1. /\ file' = file /\ phase' = phase /\ Up /\ pc[h] = "mark" /\ added' = added /\ arg' = arg
        /\ pc' = [pc EXCEPT ![h] = "delTrunc"] \/ pc' = [pc EXCEPT ![h] = "respond"]
        /\ list' = list \/ list' = Marked(list, arg[h])
    BY <1>8 DEF update_platform_for_local_file, goto, bootVars, histVars
  <2>2. Ids_of(list') = ids
    <3>1. CASE arg[h] \in Ids
      BY <2>1, <3>1, MarkedPlatforms DEF TypeOK, ids
    <3>2. CASE arg[h] \notin Ids
      <4>1. arg[h] \notin Ids_of(list)
        BY <3>2, Elements DEF TypeOK, Ids_of
      <4>2. QED
        BY <1>8, <4>1 DEF update_platform_for_local_file, ids
    <3>3. QED
      BY <3>1, <3>2
  <2>3. SavedInv'
    BY <1>0, <2>1 DEF Writing, fids, KnownInv
  <2>4. QED
    BY <1>0, <2>1, <2>2, <2>3 DEF KnownInv
<1>9. ASSUME NEW h \in Handlers, del_platform_write(h) PROVE KnownInv'
  <2>1. /\ list' = list /\ file' = list /\ phase' = phase /\ Up /\ added' = added
        /\ pc' = [pc EXCEPT ![h] = "respond"] /\ arg' = arg
    BY <1>9 DEF del_platform_write, goto, bootVars, histVars
  <2>2. QED
    BY <1>0, <2>1 DEF KnownInv, ids
<1>10. ASSUME NEW h \in Handlers, respond(h) PROVE KnownInv'
  <2>1. /\ list' = list /\ file' = file /\ phase' = phase /\ Up /\ added' = added /\ pc[h] = "respond"
        /\ pc' = [pc EXCEPT ![h] = "idle"] /\ arg' = [arg EXCEPT ![h] = None]
    BY <1>10 DEF respond, goto, bootVars
  <2>2. SavedInv'
    BY <1>0, <2>1 DEF Writing, fids, KnownInv
  <2>3. QED
    BY <1>0, <2>1, <2>2 DEF KnownInv, ids
<1>11. CASE Crash
  <2>1. /\ phase' = "down" /\ \A h \in Handlers : pc'[h] = "idle"
        /\ \/ added' = {}
           \/ file' = file /\ added' = added /\ \A h \in Handlers : pc[h] \notin Writing
    BY <1>11 DEF Crash, Writing
  <2>2. QED
    BY <1>0, <2>1 DEF KnownInv, fids
<1>12. CASE UNCHANGED vars
  BY <1>0, <1>2, <1>12 DEF vars, histVars
<1>13. QED
  <2>1. /\ {"addWrite", "delWrite"} = Writing /\ {"idle", "respond"} \subseteq Steps
        /\ {"idle", "respond"} \cap Locked = {}
    BY DEF Writing, Steps, Locked
  <2>2. ASSUME NEW h \in Handlers, Handler(h) PROVE KnownInv'
    BY <2>1, <2>2, <1>4, <1>5, <1>6, <1>7, <1>8, <1>9, <1>10 DEF Handler
  <2>3. QED
    BY <2>2, <1>1, <1>3, <1>11, <1>12 DEF Next

(***************************************************************************)
(* A platform that was saved is known whenever the program runs.           *)
(***************************************************************************)
THEOREM SavedPlatformsCorrect == Spec => []SavedPlatformsSurvive
<1>1. Init => KnownInv
  BY DEF Init, KnownInv, AddInv, SavedInv, SavedPlatformsSurvive, Up
<1>2. KnownInv => SavedPlatformsSurvive
  BY DEF KnownInv
<1>3. QED
  BY <1>1, <1>2, KnownStep, TypeCorrect, LockCorrect, PTL DEF Spec
-----------------------------------------------------------------------------
(***************************************************************************)
(* The file is the list.                                                   *)
(***************************************************************************)
LEMMA FileStep ==
  ASSUME TypeOK, LockInv, FileInv, FileMatchesList, [Next]_vars
  PROVE  FileInv' /\ FileMatchesList'
<1>0. /\ FileInv' <=> \A h \in Handlers :
           phase' \in {"boot", "run"} /\ pc'[h] = "mark" /\ ~stale' => file' = list'
      /\ FileMatchesList' <=> (phase' \in {"boot", "run"} /\ mux' = None /\ ~stale' => file' = list')
      /\ FileInv <=> \A h \in Handlers : Up /\ pc[h] = "mark" /\ ~stale => file = list
      /\ FileMatchesList <=> (Up /\ mux = None /\ ~stale => file = list)
      /\ Up <=> phase \in {"boot", "run"}
      /\ pc \in [Handlers -> Steps] /\ None \notin Handlers
      /\ \A h \in Handlers : pc[h] \in Locked <=> mux = h
      /\ \A h \in Handlers : pc'[h] \in Locked <=> mux' = h
  BY LockStep, StoreAssumption DEF FileInv, FileMatchesList, Up, TypeOK, LockInv
<1>1. CASE init_platform
  BY <1>0, <1>1 DEF init_platform, Loaded
<1>2. ASSUME list' = list, file' = file, pc' = pc, mux' = mux, stale' = stale,
             phase' \in {"boot", "run"} => Up
      PROVE  FileInv' /\ FileMatchesList'
  BY <1>0, <1>2
<1>3. CASE start_server_begin \/ start_server_test \/ start_server_report \/ start_server_end
  BY <1>0, <1>2, <1>3 DEF start_server_begin, start_server_test, start_server_report, start_server_end
\* Nothing is asked while a handler has the mutex, but at the mark step.
<1>4. ASSUME NEW h \in Handlers, mux' = h, pc'[h] # "mark"
      PROVE  FileInv' /\ FileMatchesList'
  BY <1>0, <1>4 DEF Locked
<1>5. ASSUME NEW h \in Handlers, device_add(h) PROVE FileInv' /\ FileMatchesList'
  BY <1>0, <1>4, <1>5 DEF device_add, goto
<1>6. ASSUME NEW h \in Handlers, NEW from \in Locked, NEW to \in Writing, NEW done \in Steps,
             writeJsonFile_open(h, from, to, done)
      PROVE  FileInv' /\ FileMatchesList'
  <2>1. CASE stale' = TRUE
    BY <1>0, <2>1
  <2>2. CASE mux' = mux /\ pc' = [pc EXCEPT ![h] = to]
    BY <1>0, <1>4, <1>6, <2>2 DEF writeJsonFile_open, Writing
  <2>3. QED
    BY <1>6, <2>1, <2>2 DEF writeJsonFile_open, goto
<1>7. ASSUME file' = list' PROVE FileInv' /\ FileMatchesList'
  BY <1>0, <1>7
<1>8. ASSUME NEW h \in Handlers, add_platform_write(h) \/ del_platform_write(h)
      PROVE  FileInv' /\ FileMatchesList'
  BY <1>7, <1>8 DEF add_platform_write, del_platform_write, histVars
<1>9. ASSUME NEW h \in Handlers, NEW d \in Ids, device_delete_soft(h, d)
      PROVE  FileInv' /\ FileMatchesList'
  BY <1>0, <1>9 DEF device_delete_soft, goto, bootVars
<1>10. ASSUME NEW h \in Handlers, update_platform_for_local_file(h)
       PROVE  FileInv' /\ FileMatchesList'
  <2>1. CASE arg[h] \in Ids_of(list)
    <3>1. mux = h /\ mux' = mux /\ pc'[h] # "mark"
      BY <1>0, <1>10, <2>1 DEF update_platform_for_local_file, goto, Locked
    <3>2. QED
      BY <1>4, <3>1
  <2>2. CASE arg[h] \notin Ids_of(list)
    BY <1>0, <1>10, <2>2 DEF update_platform_for_local_file, goto, bootVars
  <2>3. QED
    BY <2>1, <2>2
<1>11. ASSUME NEW h \in Handlers, respond(h) PROVE FileInv' /\ FileMatchesList'
  BY <1>0, <1>11 DEF respond, goto, bootVars
<1>12. CASE Crash
  BY <1>0, <1>12 DEF Crash
<1>13. CASE UNCHANGED vars
  BY <1>0, <1>2, <1>13 DEF vars
<1>14. QED
  <2>1. /\ {"addWrite", "delWrite"} = Writing /\ {"idle", "respond"} \subseteq Steps
        /\ {"addTrunc", "delTrunc"} \subseteq Locked
    BY DEF Writing, Steps, Locked
  <2>2. ASSUME NEW h \in Handlers, Handler(h) PROVE FileInv' /\ FileMatchesList'
    BY <2>1, <2>2, <1>5, <1>6, <1>8, <1>9, <1>10, <1>11 DEF Handler
  <2>3. QED
    BY <2>2, <1>1, <1>3, <1>12, <1>13 DEF Next

(***************************************************************************)
(* Outside the mutex the file says what the list says.                     *)
(***************************************************************************)
THEOREM FileMatchesCorrect == Spec => []FileMatchesList
<1>1. Init => FileInv /\ FileMatchesList
  BY DEF Init, FileInv, FileMatchesList, Up
<1>2. QED
  BY <1>1, FileStep, TypeCorrect, LockCorrect, PTL DEF Spec
-----------------------------------------------------------------------------
(***************************************************************************)
(* Soft deletes.                                                           *)
(***************************************************************************)
\* What a step leaves of the platforms marked in the list, and in both.
MarksStay ==
  \A d \in used \cap Ids :
    /\ DeletedIn(list, d) => DeletedIn(list', d)
    /\ DeletedIn(list, d) /\ DeletedIn(file, d) => DeletedIn(file', d)

\* Only a start or a crash can lose a mark of the list or the file.
LEMMA MarksStayed ==
  ASSUME TypeOK, TypeInv, [Next]_vars, ~init_platform, ~Crash
  PROVE  MarksStay
<1> USE DEF MarksStay
<1>1. CASE UNCHANGED <<list, file>>
  BY <1>1
<1>2. ASSUME NEW h \in Handlers, device_add(h) PROVE MarksStay
  <2>1. PICK d \in Ids \ used : list' = Append(list, [id |-> d, soft_del |-> FALSE])
    BY <1>2 DEF device_add
  <2>2. [id |-> d, soft_del |-> FALSE] \in Platforms /\ [id |-> d, soft_del |-> FALSE].id = d
    BY DEF Platforms
  <2>3. \A e \in Ids : DeletedIn(list, e) /\ d # e => DeletedIn(list', e)
    BY <2>1, <2>2, AppendIds DEF TypeOK
  <2>4. QED
    BY <1>2, <2>3 DEF device_add
<1>3. ASSUME NEW h \in Handlers, NEW from \in Locked, NEW to \in Writing, NEW done \in Steps,
             writeJsonFile_open(h, from, to, done)
      PROVE  MarksStay
  BY <1>3, NoPlatforms DEF writeJsonFile_open
<1>4. ASSUME NEW h \in Handlers, add_platform_write(h) \/ del_platform_write(h) PROVE MarksStay
  BY <1>4 DEF add_platform_write, del_platform_write
<1>5. ASSUME NEW h \in Handlers, update_platform_for_local_file(h) PROVE MarksStay
  <2>1. arg[h] \in used /\ arg[h] \in Ids
    BY <1>5 DEF update_platform_for_local_file, TypeInv, TypeOK
  <2>2. \A d \in Ids : DeletedIn(list, d) => DeletedIn(Marked(list, arg[h]), d)
    BY <2>1, MarkedPlatforms DEF TypeOK
  <2>3. QED
    BY <1>5, <2>2 DEF update_platform_for_local_file
<1>6. ASSUME NEW h \in Handlers, Handler(h) PROVE MarksStay
  <2>1. /\ {"addWrite", "delWrite"} = Writing /\ {"idle", "respond"} \subseteq Steps
        /\ {"addTrunc", "delTrunc"} \subseteq Locked
    BY DEF Writing, Steps, Locked
  <2>2. CASE \E d \in Ids : device_delete_soft(h, d)
    BY <1>1, <2>2 DEF device_delete_soft
  <2>3. CASE respond(h)
    BY <1>1, <2>3 DEF respond
  <2>4. QED
    BY <2>1, <1>6, <1>2, <1>3, <1>4, <1>5, <2>2, <2>3 DEF Handler
<1>7. CASE start_server_begin \/ start_server_test \/ start_server_report \/ start_server_end
  BY <1>1, <1>7 DEF start_server_begin, start_server_test, start_server_report, start_server_end
<1>8. CASE UNCHANGED vars
  BY <1>1, <1>8 DEF vars
<1>9. QED
  BY <1>6, <1>7, <1>8 DEF Next

\* A handler that another one's step, or start_server's, does not concern.
LEMMA DeletesFrame ==
  ASSUME TypeOK, TypeInv, MarksStay, NEW g \in Handlers, DeletesOf(g),
         pc'[g] = pc[g], arg'[g] = arg[g], saved'[g] = saved[g],
         raced \subseteq raced',
         pc[g] # "idle" /\ phase = "run" => phase' = "run",
         pc[g] = "mark" /\ phase = "run" => map'[arg[g]] = map[arg[g]]
  PROVE  DeletesOf(g)'
<1>1. CASE pc[g] = "idle"
  BY <1>1 DEF DeletesOf
<1>2. CASE pc[g] # "idle"
  <2>1. arg[g] \in used \cap Ids
    BY <1>2 DEF TypeInv, TypeOK
  <2>2. /\ DeletedIn(list, arg[g]) => DeletedIn(list', arg[g])
        /\ DeletedIn(list, arg[g]) /\ DeletedIn(file, arg[g]) => DeletedIn(file', arg[g])
    BY <2>1 DEF MarksStay
  <2>3. DeletesOf(g)' <=>
          (arg'[g] \notin raced' =>
             /\ pc'[g] \in {"mark", "delTrunc", "delWrite", "respond"} => phase' = "run"
             /\ pc'[g] = "mark" => map'[arg'[g]] = "deleted"
             /\ pc'[g] \in {"delTrunc", "delWrite"} => DeletedIn(list', arg'[g])
             /\ pc'[g] = "respond" /\ saved'[g] =>
                  DeletedIn(list', arg'[g]) /\ DeletedIn(file', arg'[g])
             /\ pc'[g] = "mark" => ~saved'[g])
    BY DEF DeletesOf, DeletedIn
  <2>4. QED
    BY <1>2, <2>2, <2>3 DEF DeletesOf
<1>3. QED
  BY <1>1, <1>2

\* An idle handler owes nothing.
LEMMA IdleDeletes == \A h \in Handlers : pc'[h] \notin {"mark", "delTrunc", "delWrite", "respond"} => DeletesOf(h)'
BY DEF DeletesOf

\* Every step keeps what handlers know of their deletes, and the answered ones.
LEMMA DeletesStep ==
  ASSUME TypeOK, TypeInv, LockInv, DeletesInv, AnsweredInv, [Next]_vars
  PROVE  DeletesInv' /\ AnsweredInv'
<1>0. /\ pc \in [Handlers -> Steps] /\ arg \in [Handlers -> Ids \cup {None}]
      /\ saved \in [Handlers -> BOOLEAN] /\ map \in [Ids -> {"none", "live", "deleted"}]
      /\ deleted \subseteq used /\ used \subseteq Ids /\ None \notin Handlers
      /\ \A h \in Handlers : DeletesOf(h)
      /\ \A h \in Handlers : pc[h] \in Locked <=> mux = h
  BY StoreAssumption DEF TypeOK, DeletesInv, LockInv
<1>a. AnsweredInv' <=> \A d \in deleted' \ raced' : DeletedIn(list', d) /\ DeletedIn(file', d)
  BY DEF AnsweredInv, DeletedIn
<1>b. DeletesInv' <=> \A h \in Handlers : DeletesOf(h)'
  BY DEF DeletesInv
<1>c. ASSUME MarksStay, deleted' = deleted, raced \subseteq raced' PROVE AnsweredInv'
  BY <1>0, <1>a, <1>c DEF AnsweredInv, MarksStay
<1>1. CASE init_platform
  <2>1. \A h \in Handlers : pc'[h] = "idle"
    BY <1>1 DEF init_platform, LockInv, Up
  <2>2. DeletesInv'
    BY <1>b, <2>1, IdleDeletes
  <2>3. AnsweredInv'
    BY <1>a, <1>1 DEF init_platform, Loaded, histVars, AnsweredInv
  <2>4. QED
    BY <2>2, <2>3
<1>2. CASE Crash
  <2>1. \A h \in Handlers : pc'[h] = "idle"
    BY <1>2 DEF Crash
  <2>2. DeletesInv'
    BY <1>b, <2>1, IdleDeletes
  <2>3. /\ list' = <<>> /\ file' \in {<<>>, Torn, list, file}
        /\ deleted' = deleted /\ raced' = raced
    BY <1>2 DEF Crash
  <2>4. AnsweredInv'
    BY <1>a, <1>0, <2>3, NoPlatforms DEF AnsweredInv
  <2>5. QED
    BY <2>2, <2>4
<1>3. CASE start_server_begin \/ start_server_test \/ start_server_report \/ start_server_end
  <2>1. MarksStay
    BY <1>3 DEF start_server_begin, start_server_test, start_server_report, start_server_end, MarksStay
  <2>2. pc' = pc /\ arg' = arg /\ saved' = saved /\ raced' = raced /\ deleted' = deleted
        /\ phase # "run"
    BY <1>3 DEF start_server_begin, start_server_test, start_server_report, start_server_end, histVars
  <2>3. DeletesInv'
    BY <1>0, <1>b, <2>1, <2>2, DeletesFrame
  <2>4. QED
    BY <1>c, <2>1, <2>2, <2>3
\* A handler's step leaves the others alone.
<1>4. ASSUME NEW h \in Handlers, NEW g \in Handlers \ {h}, Handler(h), MarksStay
      PROVE  DeletesOf(g)'
  <2>1. pc'[g] = pc[g] /\ arg'[g] = arg[g] /\ saved'[g] = saved[g]
        /\ raced \subseteq raced' /\ phase' = phase
    BY <1>0, <1>4 DEF Handler, device_add, writeJsonFile_open, add_platform_write, device_delete_soft,
       update_platform_for_local_file, del_platform_write, respond, goto, bootVars, histVars
  <2>2. pc[g] = "mark" => map' = map
    BY <1>0, <1>4 DEF Locked, Handler, device_add, writeJsonFile_open, add_platform_write,
       device_delete_soft, update_platform_for_local_file, del_platform_write, respond
  <2>3. QED
    BY <1>0, <1>4, <2>1, <2>2, DeletesFrame
<1>5. ASSUME NEW h \in Handlers, Handler(h), MarksStay, DeletesOf(h)' PROVE DeletesInv'
  BY <1>b, <1>4, <1>5
\* What its own step does to the handler.
<1> DEFINE own(h) ==
        arg'[h] \notin raced' =>
             /\ pc'[h] \in {"mark", "delTrunc", "delWrite", "respond"} => phase' = "run"
             /\ pc'[h] = "mark" => map'[arg'[h]] = "deleted"
             /\ pc'[h] \in {"delTrunc", "delWrite"} => DeletedIn(list', arg'[h])
             /\ pc'[h] = "respond" /\ saved'[h] =>
                  DeletedIn(list', arg'[h]) /\ DeletedIn(file', arg'[h])
             /\ pc'[h] = "mark" => ~saved'[h]
<1>7. \A h \in Handlers : DeletesOf(h)' <=> own(h)
  BY DEF DeletesOf, DeletedIn
<1>8. ASSUME NEW h \in Handlers, device_add(h) PROVE deleted' = deleted /\ raced' = raced /\ own(h)
  BY <1>0, <1>8 DEF device_add, goto, histVars
<1>9. ASSUME NEW h \in Handlers,
             \/ writeJsonFile_open(h, "addTrunc", "addWrite", "idle")
             \/ writeJsonFile_open(h, "delTrunc", "delWrite", "respond")
      PROVE  deleted' = deleted /\ raced' = raced /\ own(h)
  <2>1. /\ deleted' = deleted /\ raced' = raced /\ phase' = phase /\ list' = list
        /\ \/ pc'[h] \in {"addWrite", "idle"}
           \/ pc[h] = "delTrunc" /\ pc'[h] = "delWrite" /\ arg'[h] = arg[h]
           \/ pc[h] = "delTrunc" /\ pc'[h] = "respond" /\ arg'[h] = arg[h] /\ ~saved'[h]
    BY <1>0, <1>9 DEF writeJsonFile_open, goto, histVars, bootVars
  <2>2. QED
    BY <1>0, <2>1 DEF DeletesOf
<1>10. ASSUME NEW h \in Handlers, add_platform_write(h) PROVE deleted' = deleted /\ raced' = raced /\ own(h)
  BY <1>0, <1>10 DEF add_platform_write, goto
<1>11. ASSUME NEW h \in Handlers, NEW d \in Ids, device_delete_soft(h, d)
       PROVE  deleted' = deleted /\ raced \subseteq raced' /\ own(h)
  <2>1. /\ deleted' = deleted /\ phase' = phase /\ phase \in {"boot", "run"}
        /\ raced' = IF phase = "boot" THEN raced \cup {d} ELSE raced
        /\ pc'[h] = "mark" /\ arg'[h] = d /\ ~saved'[h] /\ map'[d] = "deleted"
    BY <1>0, <1>11 DEF device_delete_soft, goto, bootVars, Up
  <2>2. QED
    BY <2>1
<1>12. ASSUME NEW h \in Handlers, update_platform_for_local_file(h)
       PROVE  deleted' = deleted /\ raced' = raced /\ own(h)
  <2>1. /\ deleted' = deleted /\ raced' = raced /\ phase' = phase /\ arg'[h] = arg[h]
        /\ saved'[h] = saved[h] /\ pc[h] = "mark" /\ pc'[h] \in {"delTrunc", "respond"}
        /\ pc'[h] = "delTrunc" => arg[h] \in Ids_of(list)
        /\ list' = IF arg[h] \in Ids_of(list) /\ map[arg[h]] = "deleted"
                   THEN Marked(list, arg[h]) ELSE list
    BY <1>0, <1>12 DEF update_platform_for_local_file, goto, bootVars, histVars
  <2>2. DeletedIn(Marked(list, arg[h]), arg[h])
    <3>1. arg[h] \in Ids
      BY <2>1 DEF TypeInv, TypeOK
    <3>2. QED
      BY <3>1, MarkedPlatforms DEF TypeOK
  <2>3. QED
    BY <1>0, <2>1, <2>2 DEF DeletesOf
<1>13. ASSUME NEW h \in Handlers, del_platform_write(h) PROVE deleted' = deleted /\ raced' = raced /\ own(h)
  <2>1. /\ deleted' = deleted /\ raced' = raced /\ phase' = phase /\ arg'[h] = arg[h]
        /\ pc[h] = "delWrite" /\ pc'[h] = "respond" /\ file' = list /\ list' = list
    BY <1>0, <1>13 DEF del_platform_write, goto, bootVars, histVars
  <2>2. QED
    BY <1>0, <2>1 DEF DeletesOf
<1>14. ASSUME NEW h \in Handlers, respond(h) PROVE DeletesOf(h)' /\ AnsweredInv'
  <2>1. /\ pc[h] = "respond" /\ pc'[h] = "idle" /\ raced' = raced /\ list' = list /\ file' = file
        /\ deleted' = IF saved[h] THEN deleted \cup {arg[h]} ELSE deleted
    BY <1>0, <1>14 DEF respond, goto
  <2>2. AnsweredInv'
    BY <1>0, <1>a, <2>1 DEF AnsweredInv, DeletesOf
  <2>3. QED
    BY <2>1, <2>2, IdleDeletes
<1>15. ASSUME NEW h \in Handlers, Handler(h) PROVE DeletesInv' /\ AnsweredInv'
  <2>1. MarksStay
    <3>1. ~init_platform /\ ~Crash
      <4>1. Up /\ phase' = phase
        BY <1>15 DEF Handler, device_add, writeJsonFile_open, add_platform_write, device_delete_soft,
           update_platform_for_local_file, del_platform_write, respond, bootVars
      <4>2. QED
        BY <4>1 DEF init_platform, Crash, Up
    <3>2. QED
      BY <3>1, MarksStayed
  <2>2. CASE respond(h)
    BY <1>5, <1>14, <1>15, <2>1, <2>2
  <2>3. CASE ~respond(h)
    <3>1. deleted' = deleted /\ raced \subseteq raced' /\ own(h)
      <4> HIDE DEF own
      <4>1. QED
        BY <1>15, <2>3, <1>8, <1>9, <1>10, <1>11, <1>12, <1>13 DEF Handler
    <3>2. DeletesOf(h)'
      BY <1>7, <3>1
    <3>3. QED
      BY <1>5, <1>15, <1>c, <2>1, <3>1, <3>2
  <2>4. QED
    BY <2>2, <2>3
<1>16. CASE UNCHANGED vars
  BY <1>0, <1>16, <1>a, <1>b, <1>7 DEF vars, histVars, DeletesOf, AnsweredInv
<1>17. QED
  BY <1>15, <1>1, <1>2, <1>3, <1>16 DEF Next

(***************************************************************************)
(* A soft delete that was saved and answered is never undone, except when  *)
(* start_server's loop met it: neither by requests nor by crashes.         *)
(***************************************************************************)
THEOREM AnsweredDeletesCorrect == Spec => []AnsweredDeletesPersist
<1>1. Init => DeletesInv /\ AnsweredInv
  BY DEF Init, DeletesInv, DeletesOf, AnsweredInv
<1>2. AnsweredInv => AnsweredDeletesPersist
  BY DEF AnsweredInv, AnsweredDeletesPersist, DeletedIn
<1>3. QED
  BY <1>1, <1>2, DeletesStep, TypeCorrect, LockCorrect, PTL DEF Spec
=============================================================================

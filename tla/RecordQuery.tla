---------------------------- MODULE RecordQuery ----------------------------
(***************************************************************************)
(* What a record query answers: query_record_file clips the files a        *)
(* recorder found to the range that was asked for, response_record_list    *)
(* writes them into the answer.  A time is a number of seconds.  The order *)
(* of the list is the recorder's.                                          *)
(***************************************************************************)
EXTENDS Integers

Times == Nat
Intervals == [startTime : Times, endTime : Times]

\* The seconds of an interval: none when it ends before it starts.
Seconds(i) == i.startTime .. i.endTime
AllSeconds(S) == UNION {Seconds(i) : i \in S}

\* -1: the same, 0: the first is earlier, 1: it is later.
CompareTime(time1, time2) ==
  IF time1 = time2 THEN -1 ELSE IF time1 < time2 THEN 0 ELSE 1

\* A file that starts after the range is dropped.
Drops(file, range) == CompareTime(file.startTime, range.endTime) = 1

\* Mutant: the comparisons' results are mixed up.
Clip_Swapped(file, range) ==
  [startTime |-> IF CompareTime(file.startTime, range.startTime) = 1
                 THEN range.startTime ELSE file.startTime,
   endTime   |-> IF CompareTime(file.endTime, range.endTime) = 0
                 THEN file.endTime ELSE range.endTime]

Clip(file, range) ==
  [startTime |-> IF CompareTime(file.startTime, range.startTime) = 0
                 THEN range.startTime ELSE file.startTime,
   endTime   |-> IF CompareTime(file.endTime, range.endTime) = 0
                 THEN file.endTime ELSE range.endTime]

\* The records of a query whose CLIENT_QueryRecordFile found these files.
query_records(found, range) == {Clip(file, range) : file \in {f \in found : ~Drops(f, range)}}
-----------------------------------------------------------------------------
(***************************************************************************)
(* What the platform is told is what is recorded: a second is in the       *)
(* answer exactly when the recorder has it and it was asked for.  (A file  *)
(* that ends before the range comes out with its end before its start.)    *)
(***************************************************************************)
RecordsExact(found, range) ==
  AllSeconds(query_records(found, range)) = AllSeconds(found) \cap Seconds(range)
=============================================================================

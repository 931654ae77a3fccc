-------------------------------- MODULE Crontab --------------------------------
(***************************************************************************)
(* The crontab of one worker: the list of tasks whose time has not come,   *)
(* kept in order of time (wcx_task.c, WcxTask::run).  The linked list of   *)
(* wcx_list.c is abstracted to the sequence of its values.  A node carries *)
(* the fields of wcx_task_message that the worker reads again later.  A    *)
(* uuid is a sequence of characters: the code compares it by prefix.       *)
(***************************************************************************)
EXTENDS Integers, Sequences, SequencesExt

Nodes(Task, Uuid, Time) == [task : Task, uuid : Uuid, mtime : Time]

\* The first node later than m: where the middle insertion stops (255-263).
FirstLater(list, m) ==
  CHOOSE i \in DOMAIN list :
    /\ list[i].mtime > m
    /\ \A j \in 1 .. i - 1 : list[j].mtime <= m

\* MUTANT: every late task is appended, as if the tail were always earlier.
InsertAtTail(list, node) == Append(list, node)

\* MUTANT: the middle insertion passes `after` = 1 to listInsertNode.
InsertAfter(list, node) ==
  IF list = <<>> \/ node.mtime < list[1].mtime THEN <<node>> \o list
  ELSE IF node.mtime >= list[Len(list)].mtime THEN Append(list, node)
  ELSE InsertAt(list, FirstLater(list, node.mtime) + 1, node)

\* The three insertions of a node received ahead of its time.
Insert(list, node) ==
  IF list = <<>> \/ node.mtime < list[1].mtime THEN <<node>> \o list
  ELSE IF node.mtime >= list[Len(list)].mtime THEN Append(list, node)
  ELSE InsertAt(list, FirstLater(list, node.mtime), node)

\* MUTANT: a node is due in the very second it was asked for, or a second early.
DueEarly(node, timestamp) == node.mtime <= timestamp + 1

\* MUTANT: a node is due in its second only, which the worker may sleep through.
DueOnce(node, timestamp) == node.mtime = timestamp

\* A node of the crontab is run strictly after its time (298).
Due(node, timestamp) == node.mtime < timestamp

\* MUTANT: a message that is due in the next second is run at once.
IsNowEarly(message, timestamp) == message.mtime <= timestamp + 1

\* A message is run on arrival from its very second on (232).
IsNow(message, timestamp) == message.mtime <= timestamp

\* MUTANT: the roles of the two arguments of strncmp exchanged.
MatchesSwapped(node, uuid) == IsPrefix(node.uuid, uuid) /\ node.uuid # uuid

\* strncmp over the length of the requested uuid (275): a prefix matches.
Matches(node, uuid) == IsPrefix(uuid, node.uuid)

\* Nodes are in order of time; equal times keep the order of arrival.
Sorted(list) ==
  \A i, j \in DOMAIN list : i < j => list[i].mtime <= list[j].mtime

================================================================================

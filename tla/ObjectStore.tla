---------------------------- MODULE ObjectStore ----------------------------
(***************************************************************************)
(* The object storage device of osd.c under the calls of osd_ops.c.  An    *)
(* object is a file in the directory of its group, an attribute a file     *)
(* beside it whose name starts with the object's: the device keeps no      *)
(* other state, takes no lock, and a command is several system calls.      *)
(* Commands without data are executed by the worker of the LUN, commands   *)
(* whose data had to be asked for by the worker of their session, so that  *)
(* the calls of several commands interleave.  The target can be killed     *)
(* and started again; the initiator then sends what was not answered anew  *)
(* (session_destroy_i, see InitiatorSession).                              *)
(*                                                                         *)
(* Data is a sequence of units, 0 the unit that was never written.  One    *)
(* attribute stands for page 0x30000000, index 1: the only one that is     *)
(* read back from a file.                                                  *)
(***************************************************************************)
EXTENDS Naturals, Sequences, FiniteSets, SequencesExt, FiniteSetsExt

CONSTANTS Clients,     \* threads that call osd_ops.c, each with a session
          Shared,      \* the group that clients agree on beforehand
          Groups,      \* group ids the device picks from
          Uids,        \* object ids
          RandomUids,  \* object ids the device picks from
          UidOf,       \* the id a client gives its object itself
          Begins,      \* <<u, v>>: the hex digits of v start with those of u
          Units,       \* length of an object
          WriteUnits,  \* what the units of a write can be
          AttrValues   \* values of the attribute

ASSUME StoreAssumption ==
  /\ IsFiniteSet(Clients)
  /\ Shared \notin Groups
  /\ RandomUids \subseteq Uids
  /\ UidOf \in [Clients -> Uids]
  /\ Units \in Nat \ {0}
  /\ 0 \notin WriteUnits \cup AttrValues \cup Uids \cup Groups \cup {Shared}

VARIABLES own,      \* per client: the object it has, as its calls made it
          cmd,      \* per client: its command, at the target or answered
          queue,    \* g_cmd_queue of the LUN
          groups,   \* directories
          file,     \* directory entries: the inode a path leads to
          disk,     \* contents of the inodes
          exited    \* the device has called exit(1)

vars == <<own, cmd, queue, groups, file, disk, exited>>

Paths == (Groups \cup {Shared}) \X Uids \X {"data", "attr"}
\* A path can be unlinked and created anew while a command still has the old
\* file open: an inode is a path and a number that tells such files apart.
Inodes == Paths \X (1 .. Cardinality(Clients) + 1)
NoInode == <<>>
Data(c) == <<cmd[c].gid, cmd[c].uid, "data">>
Attr(c) == <<cmd[c].gid, cmd[c].uid, "attr">>
Zeros == [i \in 1 .. Units |-> 0]

NoObject == [gid |-> 0, uid |-> 0, data |-> Zeros, attr |-> 0]
NoCmd == [pc |-> "idle"]
NoAnswer == [id |-> 0, data |-> <<>>, attr |-> 0]

Init ==
  /\ own = [c \in Clients |-> NoObject]
  /\ cmd = [c \in Clients |-> NoCmd]
  /\ queue = <<>>
  /\ groups = {} /\ file = [p \in Paths |-> NoInode]
  /\ disk = [i \in Inodes |-> <<>>]
  /\ exited = FALSE

-----------------------------------------------------------------------------
(* osd_ops.c: a call builds a command and waits for its answer.  todev says *)
(* that data goes out with it: what is written, or a list of attributes.    *)

NewCmd(c, op) ==
  [op |-> op, pc |-> "queued", gid |-> own[c].gid, uid |-> own[c].uid, byLun |-> FALSE,
   off |-> 0, len |-> 0, unit |-> 0, set |-> 0, todev |-> FALSE,
   inode |-> NoInode, left |-> {}, answer |-> NoAnswer]

With(r, args) == [f \in DOMAIN r |-> IF f \in DOMAIN args THEN args[f] ELSE r[f]]

osd_command(c, op, args) ==
  /\ cmd[c].pc = "idle" /\ ~exited
  /\ cmd' = [cmd EXCEPT ![c] = With(NewCmd(c, op), args)]
  /\ queue' = Append(queue, c)
  /\ UNCHANGED <<own, groups, file, disk, exited>>

\* The group is the shared one, or of the device's choice and then the caller's own.
osd_create_group(c) ==
  /\ own[c].gid = 0
  /\ \E g \in {0, Shared} : osd_command(c, "create_group", [gid |-> g])

\* In the shared group a client picks its own id, as osdfs.c does; in a group of
\* its own it leaves that to the device, as the tests do.
MayCreate(c) == own[c].gid # 0 /\ own[c].uid = 0
IdsToAsk(c) == IF own[c].gid = Shared THEN {UidOf[c]} ELSE {0}

osd_create(c) ==
  /\ MayCreate(c)
  /\ \E u \in IdsToAsk(c) : osd_command(c, "create", [uid |-> u])

osd_create_and_set(c) ==
  /\ MayCreate(c)
  /\ \E u \in IdsToAsk(c), v \in AttrValues :
       osd_command(c, "create", [uid |-> u, set |-> v, todev |-> TRUE])

osd_write(c) ==
  /\ own[c].uid # 0
  /\ \E off \in 0 .. Units - 1, len \in 1 .. Units, unit \in WriteUnits :
       /\ off + len <= Units
       /\ osd_command(c, "write", [off |-> off, len |-> len, unit |-> unit, todev |-> TRUE])

osd_read(c) ==
  /\ own[c].uid # 0
  /\ osd_command(c, "read", [len |-> Units])

osd_set_one_attr(c) ==
  /\ own[c].uid # 0
  /\ \E v \in AttrValues : osd_command(c, "set_attr", [set |-> v, todev |-> TRUE])

\* With an index the attribute is asked for in a list, which is data to send,
\* without one by its page.
osd_get_one_attr(c) ==
  /\ own[c].attr # 0
  /\ \E index \in BOOLEAN : osd_command(c, "get_attr", [todev |-> index])

osd_remove(c) ==
  /\ own[c].uid # 0
  /\ osd_command(c, "remove", <<>>)

osd_remove_group(c) ==
  /\ own[c].gid \in Groups /\ own[c].uid = 0
  /\ osd_command(c, "remove_group", <<>>)

-----------------------------------------------------------------------------
(* exec_lower: the LUN worker executes what needs no data or has all of it, *)
(* and asks for the rest; then the session's worker executes the command    *)
(* when the last of its data has been placed.                               *)

\* exec_upper has no call of its own for the commands that are all attributes.
FirstCall(c) ==
  CASE cmd[c].op = "set_attr" -> "open attr"
    [] cmd[c].op = "get_attr" -> "look up attr"
    [] OTHER -> "call"

Executed == {"call", "write", "read", "unlink", "open attr", "set attr", "look up attr", "get attr"}
LunBusy == \E c \in Clients : cmd[c].pc \in Executed /\ cmd[c].byLun

lun_worker_proc ==
  /\ queue # <<>> /\ ~LunBusy /\ ~exited
  /\ LET c == Head(queue)
     IN  \/ cmd' = [cmd EXCEPT ![c].pc = FirstCall(c), ![c].byLun = TRUE]
         \/ cmd[c].todev /\ cmd' = [cmd EXCEPT ![c].pc = "data to come"]
  /\ queue' = Tail(queue)
  /\ UNCHANGED <<own, groups, file, disk, exited>>

device_place_data(c) ==
  /\ cmd[c].pc = "data to come" /\ ~exited
  /\ cmd' = [cmd EXCEPT ![c].pc = FirstCall(c)]
  /\ UNCHANGED <<own, queue, groups, file, disk, exited>>

\* A step of exec_upper for the command of c.
Step(c, pc) ==
  /\ cmd[c].pc = pc /\ ~exited
  /\ UNCHANGED <<own, queue>>

\* command_done, with what READ or the GET page or list returns
Done(r, field, value) ==
  [r EXCEPT !.pc = "done", !.byLun = FALSE, !.inode = NoInode, !.answer[field] = value]
Answer(c, field, value) == cmd' = [cmd EXCEPT ![c] = Done(@, field, value)]

\* device_error and protocol_error
Exit == exited' = TRUE /\ UNCHANGED <<cmd, groups, file, disk>>

-----------------------------------------------------------------------------
(* The calls of the file system.                                           *)

Holding == {"write", "read", "set attr", "get attr"}
OpenInodes == {cmd[c].inode : c \in {d \in Clients : cmd[d].pc \in Holding}}
FreeInode(path) == <<path, Min({n \in 1 .. Cardinality(Clients) + 1 : <<path, n>> \notin OpenInodes})>>

\* open with O_CREAT, and with O_TRUNC where truncate says so; the command
\* goes on as r.  A file cannot be created without its directory.
Open(c, path, truncate, r) ==
  IF path[1] \notin groups
  THEN Exit
  ELSE LET new == file[path] = NoInode
           i == IF new THEN FreeInode(path) ELSE file[path]
       IN  /\ file' = [file EXCEPT ![path] = i]
           /\ disk' = IF new \/ truncate THEN [disk EXCEPT ![i] = <<>>] ELSE disk
           /\ cmd' = [cmd EXCEPT ![c] = [r EXCEPT !.inode = IF r.pc \in Holding THEN i ELSE NoInode]]
           /\ UNCHANGED <<groups, exited>>

\* The contents of a file after a write; a gap before it reads as zeros.
Written(old, off, len, unit) ==
  [k \in 1 .. Max({Len(old), off + len}) |->
     IF k \in off + 1 .. off + len THEN unit ELSE IF k <= Len(old) THEN old[k] ELSE 0]

\* Mutated form: the rest of the buffer is what it was.
ReadAsBefore(old, len) == [k \in 1 .. len |-> IF k <= Len(old) THEN old[k] ELSE 1]

\* What is read, and zeros for the rest of the buffer.
ReadUnits(old, len) == [k \in 1 .. len |-> IF k <= Len(old) THEN old[k] ELSE 0]

-----------------------------------------------------------------------------
(* exec_upper                                                              *)

\* Mutated form: a directory that is there counts as new.
NewGroupAnyId(gid) == IF gid = 0 THEN Groups ELSE {gid}

\* mkdir; the device tries ids until one is new.
NewGroup(gid) == IF gid = 0 THEN Groups \ groups ELSE {gid}

CreateGroup(c) ==
  /\ Step(c, "call") /\ cmd[c].op = "create_group"
  /\ \E g \in NewGroup(cmd[c].gid) :
       /\ groups' = groups \cup {g}
       /\ Answer(c, "id", g)
  /\ UNCHANGED <<file, disk, exited>>

RemoveGroup(c) ==
  /\ Step(c, "call") /\ cmd[c].op = "remove_group"
  /\ IF cmd[c].gid \in groups /\ \A p \in Paths : p[1] = cmd[c].gid => file[p] = NoInode
     THEN /\ groups' = groups \ {cmd[c].gid}
          /\ Answer(c, "id", 0)
          /\ UNCHANGED <<file, disk, exited>>
     ELSE Exit

\* The file is the object; attributes to set come next.
Create(c) ==
  /\ Step(c, "call") /\ cmd[c].op = "create"
  /\ \E u \in IF cmd[c].uid = 0 THEN RandomUids ELSE {cmd[c].uid} :
       LET assigned == [cmd[c] EXCEPT !.uid = u, !.answer.id = u]
       IN  Open(c, <<cmd[c].gid, u, "data">>, TRUE,
                IF cmd[c].set = 0 THEN Done(assigned, "id", u)
                                  ELSE [assigned EXCEPT !.pc = "open attr"])

\* Mutated form: the pattern is the object's name.
MatchesWhole(c, p) == p = Data(c)

\* rm -f with a pattern: every name that begins with the object's, and so its
\* attributes too.
Matches(c, p) == p[1] = cmd[c].gid /\ (p[2] = cmd[c].uid \/ <<cmd[c].uid, p[2]>> \in Begins)

ListNames(c) ==
  /\ Step(c, "call") /\ cmd[c].op = "remove"
  /\ LET names == {p \in Paths : file[p] # NoInode /\ Matches(c, p)}
     IN  IF names = {} THEN Answer(c, "id", 0)
         ELSE cmd' = [cmd EXCEPT ![c].pc = "unlink", ![c].left = names]
  /\ UNCHANGED <<groups, file, disk, exited>>

Unlink(c) ==
  /\ Step(c, "unlink")
  /\ \E p \in cmd[c].left :
       /\ file' = [file EXCEPT ![p] = NoInode]
       /\ disk' = IF file[p] \in OpenInodes \cup {NoInode} THEN disk ELSE [disk EXCEPT ![file[p]] = <<>>]
       /\ LET r == [cmd[c] EXCEPT !.left = @ \ {p}]
          IN  cmd' = [cmd EXCEPT ![c] = IF r.left = {} THEN Done(r, "id", 0) ELSE r]
  /\ UNCHANGED <<groups, exited>>

\* Mutated form: a write begins with an empty file.
OpenForWriteTruncated(c) == Open(c, Data(c), TRUE, [cmd[c] EXCEPT !.pc = "write"])

OpenForWrite(c) == Open(c, Data(c), FALSE, [cmd[c] EXCEPT !.pc = "write"])

OpenWrite(c) == Step(c, "call") /\ cmd[c].op = "write" /\ OpenForWrite(c)

Write(c) ==
  /\ Step(c, "write")
  /\ disk' = [disk EXCEPT ![cmd[c].inode] = Written(@, cmd[c].off, cmd[c].len, cmd[c].unit)]
  /\ Answer(c, "id", 0)
  /\ UNCHANGED <<groups, file, exited>>

OpenRead(c) ==
  Step(c, "call") /\ cmd[c].op = "read" /\ Open(c, Data(c), FALSE, [cmd[c] EXCEPT !.pc = "read"])

Read(c) ==
  /\ Step(c, "read")
  /\ Answer(c, "data", ReadUnits(disk[cmd[c].inode], cmd[c].len))
  /\ UNCHANGED <<groups, file, disk, exited>>

\* The SET list
OpenAttr(c) == Step(c, "open attr") /\ Open(c, Attr(c), FALSE, [cmd[c] EXCEPT !.pc = "set attr"])

SetAttr(c) ==
  /\ Step(c, "set attr")
  /\ disk' = [disk EXCEPT ![cmd[c].inode] = <<cmd[c].set>>]
  /\ Answer(c, "id", cmd[c].answer.id)
  /\ UNCHANGED <<groups, file, exited>>

\* The GET list or page: the file must be there, and complete.
LookUpAttr(c) ==
  /\ Step(c, "look up attr")
  /\ IF file[Attr(c)] = NoInode
     THEN Exit
     ELSE /\ cmd' = [cmd EXCEPT ![c].pc = "get attr", ![c].inode = file[Attr(c)]]
          /\ UNCHANGED <<groups, file, disk, exited>>

GetAttr(c) ==
  /\ Step(c, "get attr")
  /\ IF disk[cmd[c].inode] = <<>>
     THEN Exit
     ELSE /\ Answer(c, "attr", disk[cmd[c].inode][1])
          /\ UNCHANGED <<groups, file, disk, exited>>

exec_upper(c) ==
  \/ CreateGroup(c) \/ RemoveGroup(c) \/ Create(c) \/ ListNames(c) \/ Unlink(c)
  \/ OpenWrite(c) \/ Write(c) \/ OpenRead(c) \/ Read(c)
  \/ OpenAttr(c) \/ SetAttr(c) \/ LookUpAttr(c) \/ GetAttr(c)

-----------------------------------------------------------------------------
(* The answer reaches the caller; the target dies and is started again.    *)

\* What the call leaves its caller with.
Returned(o, r) ==
  CASE r.op = "create_group" -> [o EXCEPT !.gid = r.answer.id]
    [] r.op = "remove_group" -> NoObject
    [] r.op = "create"   -> [o EXCEPT !.uid = r.answer.id, !.data = Zeros, !.attr = r.set]
    [] r.op = "remove"   -> [NoObject EXCEPT !.gid = o.gid]
    [] r.op = "write"    -> [o EXCEPT !.data = Written(@, r.off, r.len, r.unit)]
    [] r.op = "set_attr" -> [o EXCEPT !.attr = r.set]
    [] OTHER -> o

Return(c) ==
  /\ cmd[c].pc = "done" /\ ~exited
  /\ own' = [own EXCEPT ![c] = Returned(@, cmd[c])]
  /\ cmd' = [cmd EXCEPT ![c] = NoCmd]
  /\ UNCHANGED <<queue, groups, file, disk, exited>>

\* Commands that may not be executed twice: a second one picks another id, or
\* finds the directory gone.
Outstanding == {c \in Clients : cmd[c].pc # "idle"}
Repeatable(c) == /\ cmd[c].op # "remove_group"
                 /\ cmd[c].op = "create_group" => cmd[c].gid # 0
                 /\ cmd[c].op = "create" => own[c].gid = Shared

\* Killed and started without -f: the files stay, a command that was not
\* answered, or whose answer was lost, comes again.
Restart ==
  /\ ~exited /\ Outstanding # {}
  /\ \A c \in Outstanding : Repeatable(c)
  /\ queue' \in SetToSeqs(Outstanding)
  /\ cmd' = [c \in Clients |->
       IF c \notin Outstanding THEN cmd[c]
       ELSE [cmd[c] EXCEPT !.pc = "queued", !.byLun = FALSE, !.inode = NoInode,
                           !.left = {}, !.answer = NoAnswer]]
  /\ UNCHANGED <<own, groups, file, disk, exited>>

Call(c) ==
  \/ osd_create_group(c) \/ osd_create(c) \/ osd_create_and_set(c) \/ osd_write(c) \/ osd_read(c)
  \/ osd_set_one_attr(c) \/ osd_get_one_attr(c) \/ osd_remove(c) \/ osd_remove_group(c)

Next ==
  \/ \E c \in Clients : Call(c) \/ device_place_data(c) \/ exec_upper(c) \/ Return(c)
  \/ lun_worker_proc
  \/ Restart

Spec == Init /\ [][Next]_vars

-----------------------------------------------------------------------------
\* Directories, names and files; a name is in a directory that exists.
TypeOK ==
  /\ groups \subseteq Groups \cup {Shared}
  /\ file \in [Paths -> Inodes \cup {NoInode}]
  /\ \A i \in Inodes : Len(disk[i]) <= Units
  /\ \A p \in Paths : file[p] # NoInode => p[1] \in groups

\* What a write that is not over yet may have changed; a command that is not over
Touched(c) == IF cmd[c].pc # "idle" /\ cmd[c].op = "write"
              THEN cmd[c].off + 1 .. cmd[c].off + cmd[c].len ELSE {}
Busy(c, ops) == cmd[c].pc # "idle" /\ cmd[c].op \in ops

\* The types hold, and an object and its attribute hold what their owner's calls put there,
\* whatever the commands of others do between the system calls of its own, and
\* however often a command of its own came again after a crash (osd.c:473-575).
ObjectKept ==
  /\ TypeOK
  /\ \A c \in Clients :
       LET d == file[<<own[c].gid, own[c].uid, "data">>]
           a == file[<<own[c].gid, own[c].uid, "attr">>]
       IN  own[c].uid # 0 /\ ~Busy(c, {"remove"}) =>
             /\ d # NoInode
             /\ \A k \in (1 .. Units) \ Touched(c) :
                  own[c].data[k] = IF k <= Len(disk[d]) THEN disk[d][k] ELSE 0
             /\ own[c].attr # 0 /\ ~Busy(c, {"set_attr"}) => disk[a] = <<own[c].attr>>

\* A call returns what its caller's earlier calls lead it to expect: the data
\* and the attribute it wrote last, a group that nobody else has
\* (osd_ops.c:135-177, 298-431).
RightAnswers ==
  \A c \in Clients :
    cmd[c].pc = "done" =>
      /\ cmd[c].op = "read" => cmd[c].answer.data = own[c].data
      /\ cmd[c].op = "get_attr" => cmd[c].answer.attr = own[c].attr
      /\ cmd[c].op = "create_group" /\ cmd[c].gid = 0 =>
           \A d \in Clients \ {c} : own[d].gid = cmd[c].answer.id => Busy(d, {"remove_group"})

\* An object that was removed leaves no file behind: its id begins anew and
\* its group can be removed (osd.c:459-467).
NothingLeft ==
  \A c \in Clients : own[c].uid = 0 /\ ~Busy(c, {"create", "remove_group"}) =>
    \A p \in Paths :
      \/ file[p] = NoInode
      \/ IF own[c].gid = Shared THEN p[2] # UidOf[c] \/ p[1] # Shared ELSE p[1] # own[c].gid

\* Clients that use only what they created do not make the device give up
\* (osd.c:821-829), in whatever order their commands meet.
NeverExits == ~exited
=============================================================================

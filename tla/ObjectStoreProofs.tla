------------------------- MODULE ObjectStoreProofs -------------------------
(***************************************************************************)
(* Proofs about ObjectStore for any number of clients and objects, data of   *)
(* any length, any names that do not begin with one another.                 *)
(***************************************************************************)
EXTENDS ObjectStore, FiniteSetTheorems, TLAPS

\* What osd.c:459-467 needs of the ids that clients choose in the shared group: no id is
\* another's, and the hex name of none begins with another's.
NamesApart ==
  \A c, d \in Clients : c # d => UidOf[c] # UidOf[d] /\ <<UidOf[c], UidOf[d]>> \notin Begins

-----------------------------------------------------------------------------
(***************************************************************************)
(* The invariant                                                             *)
(***************************************************************************)

CmdFields == {"op", "pc", "gid", "uid", "byLun", "off", "len", "unit", "set", "todev", "inode",
              "left", "answer"}
AnswerFields == {"id", "data", "attr"}
Values == {0} \cup WriteUnits \cup AttrValues
Waiting == {"queued", "data to come"}
Made == {"open attr", "set attr", "done"}

\* What a client has made
OwnOK(c) ==
  /\ DOMAIN own[c] = {"gid", "uid", "data", "attr"}
  /\ own[c].gid \in {0, Shared} \cup Groups /\ own[c].uid \in {0} \cup Uids
  /\ own[c].data \in [1 .. Units -> Values] /\ own[c].attr \in {0} \cup AttrValues
  /\ own[c].uid = 0 => own[c].attr = 0
  /\ own[c].uid # 0 => own[c].gid # 0 /\ (own[c].gid = Shared => own[c].uid = UidOf[c])

\* A command agrees with what its client has.
CmdOK(c) ==
  LET r == cmd[c]
      o == own[c]
  IN
  \/ r = NoCmd
  \/ /\ DOMAIN r = CmdFields /\ DOMAIN r.answer = AnswerFields
     /\ \/ /\ r.op = "create_group" /\ r.pc \in Waiting \cup {"call", "done"}
           /\ o.gid = 0 /\ o.uid = 0 /\ r.gid \in {0, Shared}
           /\ r.pc = "done" => IF r.gid = 0 THEN r.answer.id \in Groups ELSE r.answer.id = Shared
        \/ /\ r.op = "remove_group" /\ r.pc \in Waiting \cup {"call", "done"}
           /\ o.gid \in Groups /\ o.uid = 0 /\ r.gid = o.gid
        \/ /\ r.op = "create" /\ r.pc \in Waiting \cup {"call"} \cup Made
           /\ o.gid # 0 /\ o.uid = 0 /\ r.gid = o.gid /\ r.set \in {0} \cup AttrValues
           /\ o.gid = Shared => r.uid = UidOf[c]
           /\ o.gid # Shared /\ r.pc \notin Made => r.uid = 0
           /\ r.pc \in Made => r.uid \in Uids /\ r.answer.id = r.uid
           /\ r.pc \in Made \ {"done"} => r.set # 0
        \/ /\ o.uid # 0 /\ r.gid = o.gid /\ r.uid = o.uid
           /\ \/ /\ r.op = "write" /\ r.pc \in Waiting \cup {"call", "write", "done"}
                 /\ r.off \in Nat /\ r.len \in Nat \ {0} /\ r.off + r.len <= Units
                 /\ r.unit \in WriteUnits
              \/ /\ r.op = "read" /\ r.pc \in Waiting \cup {"call", "read", "done"}
                 /\ r.len = Units
              \/ /\ r.op = "set_attr" /\ r.pc \in Waiting \cup {"open attr", "set attr", "done"}
                 /\ r.set \in AttrValues
              \/ /\ r.op = "get_attr" /\ r.pc \in Waiting \cup {"look up attr", "get attr", "done"}
                 /\ o.attr # 0
              \/ r.op = "remove" /\ r.pc \in Waiting \cup {"call", "unlink", "done"}

\* The queue holds commands that are not begun, each once.
QueueOK ==
  /\ queue \in Seq(Clients)
  /\ \A i \in DOMAIN queue : cmd[queue[i]].pc = "queued"
  /\ \A i, j \in DOMAIN queue : queue[i] = queue[j] => i = j

\* Names and contents
FilesOK ==
  /\ groups \subseteq Groups \cup {Shared}
  /\ file \in [Paths -> Inodes \cup {NoInode}]
  /\ \A p \in Paths : file[p] # NoInode => file[p][1] = p /\ p[1] \in groups
  /\ disk \in [Inodes -> Seq(Values)] /\ \A i \in Inodes : Len(disk[i]) <= Units

\* A group of its own belongs to a client from mkdir to rmdir.
Owns(c, g) ==
  /\ g \in Groups
  /\ \/ own[c].gid = g /\ ~(cmd[c].pc = "done" /\ cmd[c].op = "remove_group")
     \/ cmd[c].pc = "done" /\ cmd[c].op = "create_group" /\ cmd[c].answer.id = g

UsesShared(c) ==
  \/ own[c].gid = Shared
  \/ cmd[c].pc = "done" /\ cmd[c].op = "create_group" /\ cmd[c].gid = Shared

GroupsOK ==
  /\ \A c \in Clients : UsesShared(c) => Shared \in groups
  /\ \A c \in Clients, g \in Groups : Owns(c, g) => g \in groups
  /\ \A c, d \in Clients, g \in Groups : Owns(c, g) /\ Owns(d, g) => c = d
  /\ \A p \in Paths : file[p] # NoInode /\ p[1] = Shared => \E c \in Clients : p[2] = UidOf[c]

\* The paths that no other client's commands touch
Mine(c) == {p \in Paths : (p[1] = Shared /\ p[2] = UidOf[c]) \/ Owns(c, p[1])}

NoFile(c) == \A p \in Mine(c) : file[p] = NoInode
Only(c, gid, uid) == \A p \in Mine(c) : file[p] # NoInode => p[1] = gid /\ p[2] = uid
Content(p) == disk[file[p]]
Holds(p, s) == file[p] # NoInode /\ Content(p) = s
Unit(p, k) == IF k <= Len(Content(p)) THEN Content(p)[k] ELSE 0

\* What is in the files of a client, from its calls and the step its command is at
ObjectFiles(c) ==
  LET gid == own[c].gid
      uid == own[c].uid
  IN  /\ Only(c, gid, uid)
      /\ ~Busy(c, {"remove"}) =>
           /\ file[<<gid, uid, "data">>] # NoInode
           /\ \A k \in (1 .. Units) \ Touched(c) : own[c].data[k] = Unit(<<gid, uid, "data">>, k)
           /\ own[c].attr # 0 /\ ~Busy(c, {"set_attr"}) => Holds(<<gid, uid, "attr">>, <<own[c].attr>>)

CreateFiles(c) ==
  /\ own[c].gid # Shared /\ cmd[c].pc \notin Made => NoFile(c)
  /\ cmd[c].pc \in Made => Only(c, cmd[c].gid, cmd[c].uid) /\ Holds(Data(c), <<>>)
  /\ cmd[c].pc = "done" /\ cmd[c].set # 0 => Holds(Attr(c), <<cmd[c].set>>)

StepFiles(c) ==
  LET r == cmd[c]
  IN  /\ r.pc = "set attr" => file[Attr(c)] # NoInode /\ r.inode = file[Attr(c)]
      /\ r.pc = "get attr" => r.inode = file[Attr(c)]
      /\ r.pc \in {"read", "write"} => r.inode = file[Data(c)]
      /\ r.pc = "unlink" => /\ r.left \subseteq Mine(c)
                            /\ \A p \in Mine(c) : file[p] # NoInode => p \in r.left
      /\ r.pc = "done" =>
           /\ r.op = "write" => \A k \in Touched(c) : Unit(Data(c), k) = r.unit
           /\ r.op = "read" => r.answer.data = own[c].data
           /\ r.op = "set_attr" => Holds(Attr(c), <<r.set>>)
           /\ r.op = "get_attr" => r.answer.attr = own[c].attr
           /\ r.op = "remove" => NoFile(c)

ClientFiles(c) ==
  /\ own[c].uid = 0 /\ ~Busy(c, {"create"}) => NoFile(c)
  /\ own[c].uid # 0 => ObjectFiles(c)
  /\ Busy(c, {"create"}) => CreateFiles(c)
  /\ StepFiles(c)

Client(c) == OwnOK(c) /\ CmdOK(c) /\ ClientFiles(c)

StoreInv ==
  /\ DOMAIN own = Clients /\ DOMAIN cmd = Clients /\ ~exited
  /\ QueueOK /\ FilesOK /\ GroupsOK
  /\ \A c \in Clients : Client(c)

-----------------------------------------------------------------------------
(***************************************************************************)
(* Frames                                                                    *)
(***************************************************************************)

\* The paths of a client's object
LEMMA ObjectPaths ==
  ASSUME NEW c \in Clients, OwnOK(c), CmdOK(c), own[c].uid # 0, NEW x \in {"data", "attr"}
  PROVE  <<own[c].gid, own[c].uid, x>> \in Mine(c)
<1>1. PICK g : g = own[c].gid
  OBVIOUS
<1>2. PICK u : u = own[c].uid
  OBVIOUS
<1>3. g \in Groups \cup {Shared} /\ u \in Uids /\ (g = Shared => u = UidOf[c])
  BY <1>1, <1>2 DEF OwnOK
<1>4. <<g, u, x>> \in Paths /\ <<g, u, x>>[1] = g /\ <<g, u, x>>[2] = u
  BY <1>3 DEF Paths
<1>5. ~(cmd[c].pc = "done" /\ cmd[c].op = "remove_group")
  <2>1. CASE cmd[c] = NoCmd
    BY <2>1 DEF NoCmd
  <2>2. CASE cmd[c] # NoCmd
    BY <2>2 DEF CmdOK
  <2> QED BY <2>1, <2>2
<1>6. g # Shared => Owns(c, g)
  BY <1>1, <1>3, <1>5 DEF Owns
<1> QED BY <1>1, <1>2, <1>3, <1>4, <1>6 DEF Mine

\* The paths that a client's command names, from the step on at which it knows its object's id
Naming(c) ==
  cmd[c] # NoCmd /\ \/ cmd[c].op \in {"write", "read", "set_attr", "get_attr", "remove"}
                    \/ cmd[c].op = "create" /\ cmd[c].pc \in Made

LEMMA NamedPaths ==
  ASSUME NEW c \in Clients, OwnOK(c), CmdOK(c), Naming(c)
  PROVE  Data(c) \in Mine(c) /\ Attr(c) \in Mine(c)
<1>1. CASE own[c].uid # 0
  <2>1. cmd[c].gid = own[c].gid /\ cmd[c].uid = own[c].uid
    BY <1>1 DEF Naming, CmdOK
  <2> QED BY <1>1, <2>1, ObjectPaths DEF Data, Attr
<1>2. CASE own[c].uid = 0
  <2>1. PICK g : g = cmd[c].gid
    OBVIOUS
  <2>2. PICK u : u = cmd[c].uid
    OBVIOUS
  <2>3. /\ cmd[c].op = "create" /\ cmd[c].pc \in Made /\ g = own[c].gid /\ g # 0 /\ u \in Uids
        /\ g = Shared => u = UidOf[c]
    BY <1>2, <2>1, <2>2 DEF Naming, CmdOK
  <2>4. g \in Groups \cup {Shared}
    BY <2>3 DEF OwnOK
  <2>5. \A x \in {"data", "attr"} :
           <<g, u, x>> \in Paths /\ <<g, u, x>>[1] = g /\ <<g, u, x>>[2] = u
    BY <2>3, <2>4 DEF Paths
  <2>6. g # Shared => Owns(c, g)
    BY <2>3, <2>4 DEF Owns
  <2> QED BY <2>1, <2>2, <2>3, <2>5, <2>6 DEF Mine, Data, Attr
<1> QED BY <1>1, <1>2

\* A step that leaves a client, its command and its files alone
SameClient(d) == own'[d] = own[d] /\ cmd'[d] = cmd[d]
SameFiles(d) == \A p \in Mine(d) : /\ file'[p] = file[p]
                                   /\ file[p] # NoInode => Content(p)' = Content(p)

LEMMA ClientFrame ==
  ASSUME NEW d \in Clients, Client(d), SameClient(d), SameFiles(d)
  PROVE  Client(d)'
<1>1. /\ Mine(d)' = Mine(d) /\ Data(d)' = Data(d) /\ Attr(d)' = Attr(d)
      /\ Touched(d)' = Touched(d) /\ \A ops : Busy(d, ops)' <=> Busy(d, ops)
  BY DEF SameClient, Mine, Owns, Data, Attr, Touched, Busy
<1>2. OwnOK(d)' /\ CmdOK(d)'
  BY DEF Client, SameClient, OwnOK, CmdOK
<1>3. NoFile(d)' <=> NoFile(d)
  BY <1>1 DEF NoFile, SameFiles
<1>4. \A g, u : Only(d, g, u)' <=> Only(d, g, u)
  BY <1>1 DEF Only, SameFiles
<1>5. \A p \in Mine(d) : \A s : Holds(p, s)' <=> Holds(p, s)
  BY DEF Holds, SameFiles
<1>6. \A p \in Mine(d) : \A k : file[p] # NoInode => Unit(p, k)' = Unit(p, k)
  BY DEF Unit, SameFiles
<1>7. own[d].uid # 0 => ObjectFiles(d)'
  <2> SUFFICES ASSUME own[d].uid # 0 PROVE ObjectFiles(d)'
    OBVIOUS
  <2>0. PICK D : D = <<own[d].gid, own[d].uid, "data">>
    OBVIOUS
  <2>00. PICK A : A = <<own[d].gid, own[d].uid, "attr">>
    OBVIOUS
  <2>1. D \in Mine(d) /\ A \in Mine(d) /\ ObjectFiles(d)
    BY <2>0, <2>00, ObjectPaths DEF Client, ClientFiles
  <2>2. own'[d] = own[d]
    BY DEF SameClient
  <2>3. CASE Busy(d, {"remove"})
    BY <1>1, <1>4, <2>1, <2>2, <2>3 DEF ObjectFiles
  <2>4. CASE ~Busy(d, {"remove"})
    <3>1. file[D] # NoInode /\ file'[D] = file[D]
      BY <2>0, <2>1, <2>4 DEF ObjectFiles, SameFiles
    <3>2. \A k : Unit(D, k)' = Unit(D, k)
      BY <1>6, <2>1, <3>1
    <3>3. Holds(A, <<own[d].attr>>)' <=> Holds(A, <<own[d].attr>>)
      BY <1>5, <2>1, <2>2
    <3> QED BY <1>1, <1>4, <2>0, <2>00, <2>1, <2>2, <2>4, <3>1, <3>2, <3>3 DEF ObjectFiles
  <2> QED BY <2>3, <2>4
<1>8. Busy(d, {"create"}) => CreateFiles(d)'
  <2> SUFFICES ASSUME Busy(d, {"create"}) PROVE CreateFiles(d)'
    OBVIOUS
  <2>1. CreateFiles(d) /\ cmd[d] # NoCmd /\ cmd[d].op = "create"
    BY DEF Client, ClientFiles, Busy, NoCmd
  <2>2. own'[d] = own[d] /\ cmd'[d] = cmd[d]
    BY DEF SameClient
  <2>3. CASE cmd[d].pc \notin Made
    BY <1>3, <2>1, <2>2, <2>3 DEF CreateFiles, Made
  <2>4. CASE cmd[d].pc \in Made
    <3>1. PICK D : D = Data(d)
      OBVIOUS
    <3>2. PICK A : A = Attr(d)
      OBVIOUS
    <3>3. D \in Mine(d) /\ A \in Mine(d)
      BY <2>1, <2>4, <3>1, <3>2, NamedPaths DEF Naming, Client
    <3>4. \A s : (Holds(D, s)' <=> Holds(D, s)) /\ (Holds(A, s)' <=> Holds(A, s))
      BY <1>5, <3>3
    <3> QED BY <1>1, <1>4, <2>1, <2>2, <2>4, <3>1, <3>2, <3>4 DEF CreateFiles
  <2> QED BY <2>3, <2>4
<1>9. StepFiles(d)'
  <2>1. StepFiles(d) /\ OwnOK(d) /\ CmdOK(d)
    BY DEF Client, ClientFiles
  <2>2. own'[d] = own[d] /\ cmd'[d] = cmd[d]
    BY DEF SameClient
  <2>3. CASE cmd[d] = NoCmd
    BY <2>2, <2>3 DEF StepFiles, NoCmd
  <2>4. CASE ~Naming(d) /\ cmd[d] # NoCmd
    <3>1. /\ cmd[d].op \notin {"write", "read", "set_attr", "get_attr", "remove"}
          /\ cmd[d].pc \notin {"set attr", "get attr", "read", "write", "unlink"}
      BY <2>1, <2>4 DEF Naming, CmdOK, Made, Waiting
    <3> QED BY <2>2, <3>1 DEF StepFiles
  <2>5. CASE Naming(d)
    <3>1. PICK D : D = Data(d)
      OBVIOUS
    <3>2. PICK A : A = Attr(d)
      OBVIOUS
    <3>3. D \in Mine(d) /\ A \in Mine(d)
      BY <2>1, <2>5, <3>1, <3>2, NamedPaths
    <3>4. \A s : (Holds(D, s)' <=> Holds(D, s)) /\ (Holds(A, s)' <=> Holds(A, s))
      BY <1>5, <3>3
    <3>5. file'[D] = file[D] /\ file'[A] = file[A] /\ \A p \in Mine(d) : file'[p] = file[p]
      BY <3>3 DEF SameFiles
    <3>6. ASSUME cmd[d].pc = "done", cmd[d].op = "write"
          PROVE  \A k : Unit(D, k)' = Unit(D, k)
      <4>1. own[d].uid # 0 /\ cmd[d].gid = own[d].gid /\ cmd[d].uid = own[d].uid /\ ~Busy(d, {"remove"})
        BY <2>1, <2>5, <3>6 DEF Naming, CmdOK, Busy
      <4>2. file[D] # NoInode
        BY <3>1, <4>1 DEF Client, ClientFiles, ObjectFiles, Data
      <4> QED BY <1>6, <3>3, <4>2
    <3>7. \/ cmd[d].pc # "done"
          \/ cmd[d].pc = "done" /\ cmd[d].op # "write"
          \/ cmd[d].pc = "done" /\ cmd[d].op = "write"
      OBVIOUS
    <3> QED BY <1>1, <1>3, <2>1, <2>2, <3>1, <3>2, <3>4, <3>5, <3>6, <3>7 DEF StepFiles
  <2> QED BY <2>3, <2>4, <2>5
<1>10. ClientFiles(d)'
  <2>1. own'[d] = own[d] /\ (own[d].uid = 0 /\ ~Busy(d, {"create"}) => NoFile(d))
    BY DEF SameClient, Client, ClientFiles
  <2> QED BY <1>1, <1>3, <1>7, <1>8, <1>9, <2>1 DEF ClientFiles
<1> QED BY <1>2, <1>10 DEF Client

LEMMA MineApart ==
  ASSUME NamesApart, GroupsOK, NEW c \in Clients, NEW d \in Clients, c # d
  PROVE  Mine(c) \cap Mine(d) = {}
<1> SUFFICES ASSUME NEW p \in Paths, p \in Mine(c), p \in Mine(d) PROVE FALSE
  BY DEF Mine
<1>1. CASE p[1] = Shared
  <2>1. Shared \notin Groups
    BY StoreAssumption
  <2>2. p[2] = UidOf[c] /\ p[2] = UidOf[d]
    BY <1>1, <2>1 DEF Mine, Owns
  <2> QED BY <2>2 DEF NamesApart
<1>2. CASE p[1] # Shared
  <2>1. Owns(c, p[1]) /\ Owns(d, p[1]) /\ p[1] \in Groups
    BY <1>2 DEF Mine, Owns
  <2> QED BY <2>1 DEF GroupsOK
<1> QED BY <1>1, <1>2

\* A step for client c changes no file but its own, and nobody else's command.
Local(c) ==
  /\ DOMAIN own' = Clients /\ DOMAIN cmd' = Clients
  /\ \A d \in Clients \ {c} : SameClient(d)
  /\ \A p \in Paths : p \notin Mine(c) => file'[p] = file[p]
  /\ \A i \in Inodes : i[1] \notin Mine(c) => disk'[i] = disk[i]

LEMMA OthersKept ==
  ASSUME NamesApart, StoreInv, NEW c \in Clients, Local(c)
  PROVE  \A d \in Clients \ {c} : Client(d)'
<1> SUFFICES ASSUME NEW d \in Clients, d # c PROVE Client(d)'
  OBVIOUS
<1>1. Mine(c) \cap Mine(d) = {}
  BY MineApart DEF StoreInv
<1>2. ASSUME NEW p \in Mine(d)
      PROVE  file'[p] = file[p] /\ (file[p] # NoInode => Content(p)' = Content(p))
  <2>1. p \in Paths /\ p \notin Mine(c)
    BY <1>1, <1>2 DEF Mine
  <2>2. file'[p] = file[p]
    BY <2>1 DEF Local
  <2>3. ASSUME file[p] # NoInode PROVE disk'[file[p]] = disk[file[p]]
    <3>1. file[p] \in Inodes /\ file[p][1] = p
      BY <2>1, <2>3 DEF StoreInv, FilesOK
    <3> QED BY <2>1, <3>1 DEF Local
  <2> QED BY <2>2, <2>3 DEF Content
<1>3. Client(d) /\ SameClient(d)
  BY DEF StoreInv, Local
<1> QED BY <1>2, <1>3, ClientFrame DEF SameFiles

\* A step that moves no group
SameGroups(c) ==
  /\ UNCHANGED groups
  /\ \A g \in Groups : Owns(c, g)' => Owns(c, g)
  /\ UsesShared(c)' => UsesShared(c)

\* A step for client c in files that are its own
LEMMA LocalStep ==
  ASSUME NamesApart, StoreInv, NEW c \in Clients, Local(c), SameGroups(c), UNCHANGED exited,
         QueueOK', FilesOK', Client(c)'
  PROVE  StoreInv'
<1>1. \A d \in Clients : Client(d)'
  BY OthersKept
<1>2. \A d \in Clients, g \in Groups : Owns(d, g)' => Owns(d, g)
  BY DEF Local, SameClient, SameGroups, Owns
<1>3. \A d \in Clients : UsesShared(d)' => UsesShared(d)
  BY DEF Local, SameClient, SameGroups, UsesShared
<1>4. ASSUME NEW p \in Paths, file'[p] # NoInode, p[1] = Shared
      PROVE  \E d \in Clients : p[2] = UidOf[d]
  <2>1. CASE p \in Mine(c)
    BY <1>4, <2>1, StoreAssumption DEF Mine, Owns
  <2>2. CASE p \notin Mine(c)
    BY <1>4, <2>2 DEF Local, StoreInv, GroupsOK
  <2> QED BY <2>1, <2>2
<1>5. GroupsOK'
  BY <1>2, <1>3, <1>4 DEF StoreInv, GroupsOK, SameGroups
<1> QED BY <1>1, <1>5 DEF StoreInv, Local

-----------------------------------------------------------------------------
(***************************************************************************)
(* How a command goes on                                                     *)
(***************************************************************************)

\* The command of c is at pc now; its arguments are what they were.
Goes(c, pc) ==
  /\ DOMAIN cmd' = Clients /\ \A d \in Clients \ {c} : cmd'[d] = cmd[d]
  /\ DOMAIN cmd'[c] = CmdFields /\ DOMAIN cmd'[c].answer = AnswerFields /\ cmd'[c].pc = pc
  /\ cmd'[c].op = cmd[c].op /\ cmd'[c].gid = cmd[c].gid /\ cmd'[c].set = cmd[c].set
  /\ cmd'[c].off = cmd[c].off /\ cmd'[c].len = cmd[c].len /\ cmd'[c].unit = cmd[c].unit

Shaped(c) == /\ DOMAIN cmd = Clients /\ cmd[c] # NoCmd
             /\ DOMAIN cmd[c] = CmdFields /\ DOMAIN cmd[c].answer = AnswerFields

LEMMA InProgress ==
  ASSUME StoreInv, NEW c \in Clients, cmd[c].pc # "idle"
  PROVE  Shaped(c) /\ OwnOK(c) /\ CmdOK(c) /\ ClientFiles(c)
<1>1. cmd[c] # NoCmd
  BY DEF NoCmd
<1> QED BY <1>1 DEF StoreInv, Client, CmdOK, Shaped

\* A command that is done has no step before it, one that is not has a field for its answer.
LEMMA AnswerGoes ==
  ASSUME NEW c \in Clients, Shaped(c), NEW f \in AnswerFields, NEW v, Answer(c, f, v)
  PROVE  /\ Goes(c, "done") /\ cmd'[c].uid = cmd[c].uid /\ cmd'[c].answer[f] = v
         /\ \A h \in AnswerFields \ {f} : cmd'[c].answer[h] = cmd[c].answer[h]
<1> USE DEF Shaped
<1>1. PICK a : a = [cmd[c].answer EXCEPT ![f] = v]
  OBVIOUS
<1>2. DOMAIN a = AnswerFields /\ a[f] = v /\ \A h \in AnswerFields \ {f} : a[h] = cmd[c].answer[h]
  BY <1>1
<1>3. PICK no : no = FALSE
  OBVIOUS
<1>4. PICK r : r = [cmd[c] EXCEPT !.pc = "done", !.byLun = no, !.inode = NoInode, !.answer = a]
  OBVIOUS
<1>5. /\ DOMAIN r = CmdFields /\ r.answer = a /\ r.pc = "done" /\ r.op = cmd[c].op
      /\ r.gid = cmd[c].gid /\ r.uid = cmd[c].uid /\ r.set = cmd[c].set /\ r.off = cmd[c].off
      /\ r.len = cmd[c].len /\ r.unit = cmd[c].unit
  BY <1>4 DEF CmdFields
<1>6. cmd' = [cmd EXCEPT ![c] = r]
  BY <1>1, <1>3, <1>4 DEF Answer, Done
<1>7. DOMAIN cmd' = Clients /\ cmd'[c] = r /\ \A d \in Clients \ {c} : cmd'[d] = cmd[d]
  BY <1>6
<1> QED BY <1>2, <1>5, <1>7 DEF Goes

\* A file that a command has open is one of its client's.
LEMMA OpenElsewhere ==
  ASSUME StoreInv, NEW d \in Clients, cmd[d].pc \in Holding
  PROVE  cmd[d].inode \in Inodes /\ cmd[d].inode[1] \in Mine(d)
<1>1. Shaped(d) /\ OwnOK(d) /\ CmdOK(d) /\ ClientFiles(d)
  BY InProgress DEF Holding
<1>2. Naming(d) /\ (cmd[d].pc # "set attr" => own[d].uid # 0 /\ cmd[d].gid = own[d].gid
                                              /\ cmd[d].uid = own[d].uid)
  BY <1>1 DEF Shaped, CmdOK, Naming, Holding, Made, Waiting
<1>3. PICK q \in Mine(d) : cmd[d].inode = file[q] /\ file[q] # NoInode
  <2>1. Data(d) \in Mine(d) /\ Attr(d) \in Mine(d) /\ StepFiles(d)
    BY <1>1, <1>2, NamedPaths DEF ClientFiles
  <2>2. CASE cmd[d].pc = "set attr"
    BY <2>1, <2>2 DEF StepFiles
  <2>3. CASE cmd[d].pc \in {"read", "write"}
    <3>1. ~Busy(d, {"remove"})
      BY <1>1, <2>3 DEF Shaped, CmdOK, Busy, Waiting
    <3>2. file[Data(d)] # NoInode
      BY <1>1, <1>2, <2>3, <3>1 DEF ClientFiles, ObjectFiles, Data
    <3> QED BY <2>1, <2>3, <3>2 DEF StepFiles
  <2>4. CASE cmd[d].pc = "get attr"
    <3>1. ~Busy(d, {"remove"}) /\ ~Busy(d, {"set_attr"}) /\ own[d].attr # 0
      BY <1>1, <2>4 DEF Shaped, CmdOK, Busy, Waiting, Made
    <3>2. file[Attr(d)] # NoInode
      BY <1>1, <1>2, <2>4, <3>1 DEF ClientFiles, ObjectFiles, Attr, Holds
    <3> QED BY <2>1, <2>4, <3>2 DEF StepFiles
  <2> QED BY <2>2, <2>3, <2>4 DEF Holding
<1> QED BY <1>3 DEF StoreInv, FilesOK, Mine

\* A new file gets an inode of its path.
LEMMA NewInode ==
  ASSUME NamesApart, StoreInv, NEW c \in Clients, cmd[c].pc \notin Holding, NEW path \in Mine(c)
  PROVE  FreeInode(path) \in Inodes /\ FreeInode(path)[1] = path
<1>1. Cardinality(Clients) \in Nat
  BY StoreAssumption, FS_CardinalityType
<1>2. ASSUME NEW n \in 1 .. Cardinality(Clients) + 1, <<path, n>> \in OpenInodes
      PROVE  FALSE
  <2>1. PICK d \in Clients : cmd[d].pc \in Holding /\ <<path, n>> = cmd[d].inode
    BY <1>2 DEF OpenInodes
  <2>2. cmd[d].inode[1] \in Mine(d) /\ c # d
    BY <2>1, OpenElsewhere
  <2>3. path \in Mine(d)
    BY <2>1, <2>2
  <2> QED BY <2>2, <2>3, MineApart DEF StoreInv
<1> DEFINE S == {n \in 1 .. Cardinality(Clients) + 1 : <<path, n>> \notin OpenInodes}
<1>3. S = 1 .. Cardinality(Clients) + 1
  BY <1>2
<1>4. 1 \in S /\ \A n \in S : 1 <= n
  BY <1>1, <1>3
<1>5. Min(S) \in S
  BY <1>4 DEF Min
<1>6. PICK n \in 1 .. Cardinality(Clients) + 1 : n = Min(S)
  BY <1>3, <1>5
<1>7. FreeInode(path) = <<path, n>> /\ path \in Paths
  BY <1>6 DEF FreeInode, Mine
<1> QED BY <1>7 DEF Inodes

\* An inode is not the absence of one.
LEMMA InodesAre == NoInode \notin Inodes
  BY DEF NoInode, Inodes

\* One file is there and has new contents, and no other changes.
Changes(path) ==
  /\ file'[path] # NoInode
  /\ \A p \in Paths \ {path} : /\ file'[p] = file[p]
                               /\ file[p] # NoInode => Content(p)' = Content(p)
  /\ \A i \in Inodes : i[1] # path => disk'[i] = disk[i]

\* open as WRITE, READ and the attributes do it, and as CREATE does
OpenOld(c, path, r) == Open(c, path, FALSE, r)
OpenCut(c, path, r) == Open(c, path, TRUE, r)

\* The command of c is r now, but for the inode that it has open.
Becomes(c, r) ==
  /\ DOMAIN cmd' = Clients /\ \A d \in Clients \ {c} : cmd'[d] = cmd[d]
  /\ DOMAIN cmd'[c] = CmdFields /\ \A f \in CmdFields \ {"inode"} : cmd'[c][f] = r[f]

\* After open the file is there, empty if it was cut; one that was there and is not cut stays
\* as it is.
LEMMA OpenProperties ==
  ASSUME NamesApart, StoreInv, NEW c \in Clients, cmd[c].pc \notin Holding, NEW path \in Mine(c),
         path[1] \in groups, NEW r, DOMAIN r = CmdFields,
         OpenOld(c, path, r) \/ OpenCut(c, path, r)
  PROVE  /\ UNCHANGED <<groups, exited>> /\ FilesOK' /\ Changes(path)
         /\ OpenCut(c, path, r) => Content(path)' = <<>>
         /\ OpenOld(c, path, r) /\ file[path] # NoInode => UNCHANGED <<file, disk>>
         /\ Becomes(c, r) /\ (r.pc \in Holding => cmd'[c].inode = file'[path])
<1>1. PICK i : i = IF file[path] = NoInode THEN FreeInode(path) ELSE file[path]
  OBVIOUS
<1>2. path \in Paths
  BY DEF Mine
<1>3. i \in Inodes /\ i[1] = path /\ i # NoInode
  <2>1. CASE file[path] = NoInode
    BY <1>1, <2>1, NewInode, InodesAre
  <2>2. CASE file[path] # NoInode
    BY <1>1, <1>2, <2>2 DEF StoreInv, FilesOK
  <2> QED BY <2>1, <2>2
<1>4. /\ file' = [file EXCEPT ![path] = i]
      /\ disk' = [disk EXCEPT ![i] = <<>>] \/ disk' = disk
      /\ OpenCut(c, path, r) => disk' = [disk EXCEPT ![i] = <<>>]
      /\ OpenOld(c, path, r) /\ file[path] # NoInode => disk' = disk
      /\ cmd' = [cmd EXCEPT ![c] = [r EXCEPT !.inode = IF r.pc \in Holding THEN i ELSE NoInode]]
      /\ UNCHANGED <<groups, exited>>
  BY <1>1 DEF Open, OpenOld, OpenCut
<1>5. file \in [Paths -> Inodes \cup {NoInode}] /\ disk \in [Inodes -> Seq(Values)]
      /\ \A p \in Paths : file[p] # NoInode => file[p] \in Inodes /\ file[p][1] = p /\ p[1] \in groups
  BY DEF StoreInv, FilesOK
<1>6. file'[path] = i /\ \A p \in Paths \ {path} : file'[p] = file[p]
  BY <1>2, <1>4, <1>5
<1>7. \A j \in Inodes : j # i => disk'[j] = disk[j]
  BY <1>4, <1>5
<1>8. OpenCut(c, path, r) => Content(path)' = <<>>
  BY <1>3, <1>4, <1>5, <1>6 DEF Content
<1>9. Changes(path)
  <2>1. \A p \in Paths \ {path} : file[p] # NoInode => Content(p)' = Content(p)
    <3> SUFFICES ASSUME NEW p \in Paths \ {path}, file[p] # NoInode PROVE Content(p)' = Content(p)
      OBVIOUS
    <3>1. file[p] \in Inodes /\ file[p] # i
      BY <1>3, <1>5
    <3> QED BY <1>6, <1>7, <3>1 DEF Content
  <2>2. \A j \in Inodes : j[1] # path => disk'[j] = disk[j]
    BY <1>3, <1>7
  <2> QED BY <1>3, <1>6, <2>1, <2>2 DEF Changes
<1>10. OpenOld(c, path, r) /\ file[path] # NoInode => UNCHANGED <<file, disk>>
  BY <1>1, <1>4, <1>5
<1>11. FilesOK'
  <2>1. file' \in [Paths -> Inodes \cup {NoInode}]
    BY <1>3, <1>4, <1>5
  <2>2. <<>> \in Seq(Values) /\ Len(<<>>) = 0 /\ 0 <= Units
    BY StoreAssumption
  <2>3. disk' \in [Inodes -> Seq(Values)] /\ \A j \in Inodes : Len(disk'[j]) <= Units
    <3>1. CASE disk' = disk
      BY <1>5, <3>1 DEF StoreInv, FilesOK
    <3>2. CASE disk' = [disk EXCEPT ![i] = <<>>]
      <4>1. disk' \in [Inodes -> Seq(Values)]
        BY <1>5, <2>2, <3>2
      <4>2. \A j \in Inodes : disk'[j] = disk[j] \/ disk'[j] = <<>>
        BY <1>5, <3>2
      <4> QED BY <2>2, <4>1, <4>2 DEF StoreInv, FilesOK
    <3> QED BY <1>4, <3>1, <3>2
  <2>4. \A p \in Paths : file'[p] # NoInode => file'[p][1] = p /\ p[1] \in groups
    BY <1>3, <1>5, <1>6
  <2> QED BY <1>4, <2>1, <2>3, <2>4 DEF StoreInv, FilesOK
<1>12. PICK s : s = [r EXCEPT !.inode = IF r.pc \in Holding THEN i ELSE NoInode]
  OBVIOUS
<1>13. /\ DOMAIN s = CmdFields /\ \A f \in CmdFields \ {"inode"} : s[f] = r[f]
       /\ r.pc \in Holding => s.inode = i
  BY <1>12 DEF CmdFields
<1>14. cmd'[c] = s /\ DOMAIN cmd' = Clients /\ \A d \in Clients \ {c} : cmd'[d] = cmd[d]
  BY <1>4, <1>12 DEF StoreInv
<1>15. Becomes(c, r)
  BY <1>13, <1>14 DEF Becomes
<1> QED BY <1>4, <1>6, <1>8, <1>9, <1>10, <1>11, <1>13, <1>14, <1>15

-----------------------------------------------------------------------------
(***************************************************************************)
(* Steps of a command                                                        *)
(***************************************************************************)

LEMMA QueueKept ==
  ASSUME StoreInv, NEW c \in Clients, cmd[c].pc # "queued", UNCHANGED queue,
         \A d \in Clients \ {c} : cmd'[d] = cmd[d]
  PROVE  QueueOK'
<1>1. \A i \in DOMAIN queue : queue[i] \in Clients /\ queue[i] # c
  BY DEF StoreInv, QueueOK
<1> QED BY <1>1 DEF StoreInv, QueueOK

\* The command of c goes on; the groups and the object stay as they are.
GoesOn(c) ==
  /\ Goes(c, cmd'[c].pc) /\ UNCHANGED own
  /\ cmd[c].op \in {"create_group", "remove_group"} => cmd'[c].pc # "done" /\ cmd[c].pc # "done"
  /\ cmd'[c].pc # "idle" /\ cmd[c].pc # "idle"

LEMMA SameHoldings ==
  ASSUME NEW c \in Clients, GoesOn(c)
  PROVE  /\ Mine(c)' = Mine(c) /\ \A g : Owns(c, g)' <=> Owns(c, g)
         /\ UsesShared(c)' <=> UsesShared(c)
         /\ Touched(c)' = Touched(c) /\ \A ops : Busy(c, ops)' <=> Busy(c, ops)
<1>1. own' = own /\ cmd'[c].op = cmd[c].op /\ cmd'[c].pc # "idle" /\ cmd[c].pc # "idle"
      /\ cmd'[c].off = cmd[c].off /\ cmd'[c].len = cmd[c].len
      /\ (cmd[c].op \in {"create_group", "remove_group"} => cmd'[c].pc # "done" /\ cmd[c].pc # "done")
  BY DEF GoesOn, Goes
<1>2. \A g : Owns(c, g)' <=> Owns(c, g)
  BY <1>1 DEF Owns
<1>3. Mine(c)' = Mine(c)
  BY <1>2 DEF Mine
<1>4. UsesShared(c)' <=> UsesShared(c)
  BY <1>1 DEF UsesShared
<1>5. Touched(c)' = Touched(c) /\ \A ops : Busy(c, ops)' <=> Busy(c, ops)
  BY <1>1 DEF Touched, Busy
<1> QED BY <1>2, <1>3, <1>4, <1>5

\* Such a step, in files of c
LEMMA CommandStep ==
  ASSUME NamesApart, StoreInv, NEW c \in Clients, GoesOn(c), QueueOK', FilesOK',
         UNCHANGED <<groups, exited>>,
         \A p \in Paths : p \notin Mine(c) => file'[p] = file[p],
         \A i \in Inodes : i[1] \notin Mine(c) => disk'[i] = disk[i],
         CmdOK(c)', ClientFiles(c)'
  PROVE  StoreInv'
<1>1. DOMAIN own' = Clients /\ UNCHANGED own
  BY DEF StoreInv, GoesOn
<1>2. Local(c)
  BY <1>1 DEF Local, SameClient, GoesOn, Goes
<1>3. SameGroups(c)
  BY SameHoldings DEF SameGroups
<1>4. OwnOK(c)'
  BY <1>1 DEF StoreInv, Client, OwnOK
<1> QED BY <1>2, <1>3, <1>4, LocalStep DEF Client

\* A step that changes no file
LEMMA QuietFiles ==
  ASSUME StoreInv, NEW c \in Clients, GoesOn(c), cmd'[c].uid = cmd[c].uid,
         UNCHANGED <<file, disk>>, StepFiles(c)',
         cmd[c].op = "create" => cmd[c].pc \notin Made /\ cmd'[c].pc \notin Made
  PROVE  ClientFiles(c)'
<1>1. ClientFiles(c) /\ own' = own /\ cmd'[c].op = cmd[c].op
  BY DEF StoreInv, Client, GoesOn, Goes
<1>2. /\ NoFile(c)' <=> NoFile(c) 
      /\ \A g, u : Only(c, g, u)' <=> Only(c, g, u)
      /\ \A p, s : Holds(p, s)' <=> Holds(p, s)
      /\ \A p, k : Unit(p, k)' = Unit(p, k)
  BY SameHoldings DEF NoFile, Only, Holds, Content, Unit
<1>3. ObjectFiles(c) => ObjectFiles(c)'
  BY <1>1, <1>2, SameHoldings DEF ObjectFiles
<1>4. Busy(c, {"create"}) => CreateFiles(c)'
  BY <1>1, <1>2 DEF CreateFiles, Busy, Made, ClientFiles
<1> QED BY <1>1, <1>2, <1>3, <1>4, SameHoldings DEF ClientFiles

LEMMA QuietStep ==
  ASSUME NamesApart, StoreInv, NEW c \in Clients, GoesOn(c), cmd'[c].uid = cmd[c].uid,
         UNCHANGED <<groups, exited, file, disk>>, StepFiles(c)', QueueOK', CmdOK(c)',
         cmd[c].op = "create" => cmd[c].pc \notin Made /\ cmd'[c].pc \notin Made
  PROVE  StoreInv'
<1>1. FilesOK'
  BY DEF StoreInv, FilesOK
<1>2. ClientFiles(c)'
  BY QuietFiles
<1> QED BY <1>1, <1>2, CommandStep

\* What a command is, by the step that it is at
LEMMA FirstStep ==
  ASSUME StoreInv, NEW c \in Clients, cmd[c].pc \in Waiting, Goes(c, cmd'[c].pc), UNCHANGED own,
         cmd'[c].uid = cmd[c].uid, cmd'[c].pc \in {"data to come", FirstCall(c)}
  PROVE  /\ GoesOn(c) /\ CmdOK(c)' /\ StepFiles(c)'
         /\ cmd[c].op = "create" => cmd[c].pc \notin Made /\ cmd'[c].pc \notin Made
<1>1. Shaped(c) /\ OwnOK(c) /\ CmdOK(c)
  BY InProgress DEF Waiting
<1>2. cmd[c].pc \notin Made /\ cmd[c].pc # "done" /\ cmd[c].pc # "idle"
  BY DEF Waiting, Made
<1>3. /\ cmd'[c].pc \in {"data to come", "call", "open attr", "look up attr"}
      /\ cmd'[c].pc = "open attr" => cmd[c].op = "set_attr"
      /\ cmd'[c].pc = "look up attr" => cmd[c].op = "get_attr"
      /\ cmd'[c].pc = "call" => cmd[c].op \notin {"set_attr", "get_attr"}
  BY DEF FirstCall
<1>4. GoesOn(c)
  BY <1>2, <1>3 DEF GoesOn
<1>5. StepFiles(c)'
  BY <1>3 DEF StepFiles
<1>6. cmd[c].op = "create" => cmd[c].pc \notin Made /\ cmd'[c].pc \notin Made
  BY <1>2, <1>3 DEF Made
<1>7. CmdOK(c)'
  <2> DEFINE r == cmd'[c]
  <2>1. /\ DOMAIN r = CmdFields /\ DOMAIN r.answer = AnswerFields /\ r.op = cmd[c].op
        /\ r.gid = cmd[c].gid /\ r.uid = cmd[c].uid /\ r.set = cmd[c].set
        /\ r.off = cmd[c].off /\ r.len = cmd[c].len /\ r.unit = cmd[c].unit /\ own' = own
    BY DEF Goes
  <2>2. CASE cmd[c].op \in {"create_group", "remove_group"}
    BY <1>1, <1>2, <1>3, <2>1, <2>2 DEF CmdOK, Waiting, Shaped
  <2>3. CASE cmd[c].op = "create"
    BY <1>1, <1>2, <1>3, <1>6, <2>1, <2>3 DEF CmdOK, Waiting, Shaped
  <2>4. CASE cmd[c].op \notin {"create_group", "remove_group", "create"}
    BY <1>1, <1>2, <1>3, <2>1, <2>4 DEF CmdOK, Waiting, Shaped
  <2> QED BY <2>2, <2>3, <2>4
<1> QED BY <1>4, <1>5, <1>6, <1>7

LEMMA PlacedData ==
  ASSUME NamesApart, StoreInv, NEW c \in Clients, device_place_data(c)
  PROVE  StoreInv'
<1>1. /\ cmd[c].pc = "data to come" /\ cmd' = [cmd EXCEPT ![c].pc = FirstCall(c)]
      /\ UNCHANGED <<own, queue, groups, file, disk, exited>>
  BY DEF device_place_data
<1>2. Shaped(c)
  BY <1>1, InProgress
<1>3. PICK pc : pc = FirstCall(c)
  OBVIOUS
<1>4. PICK r : r = [cmd[c] EXCEPT !.pc = pc]
  OBVIOUS
<1>5. /\ DOMAIN r = CmdFields /\ r.pc = pc /\ \A f \in CmdFields \ {"pc"} : r[f] = cmd[c][f]
  BY <1>2, <1>4 DEF Shaped, CmdFields
<1>6. cmd'[c] = r /\ DOMAIN cmd' = Clients /\ \A d \in Clients \ {c} : cmd'[d] = cmd[d]
  BY <1>1, <1>2, <1>3, <1>4 DEF Shaped
<1>7. Goes(c, cmd'[c].pc) /\ cmd'[c].uid = cmd[c].uid
  BY <1>2, <1>5, <1>6 DEF Goes, CmdFields, Shaped
<1>8. QueueOK'
  BY <1>1, <1>6, QueueKept
<1>9. cmd[c].pc \in Waiting /\ cmd'[c].pc = FirstCall(c)
  BY <1>1, <1>3, <1>5, <1>6 DEF Waiting
<1> QED BY <1>1, <1>7, <1>8, <1>9, FirstStep, QuietStep

LEMMA FirstQueued ==
  ASSUME StoreInv, queue # <<>>
  PROVE  Head(queue) \in Clients /\ cmd[Head(queue)].pc = "queued"
<1>1. queue \in Seq(Clients) /\ \A i \in DOMAIN queue : cmd[queue[i]].pc = "queued"
  BY DEF StoreInv, QueueOK
<1>2. Head(queue) = queue[1] /\ 1 \in DOMAIN queue /\ Head(queue) \in Clients
  BY <1>1
<1> QED BY <1>1, <1>2

LEMMA TailKept ==
  ASSUME StoreInv, queue # <<>>, queue' = Tail(queue),
         \A d \in Clients \ {Head(queue)} : cmd'[d] = cmd[d]
  PROVE  QueueOK'
<1>1. /\ queue \in Seq(Clients) /\ \A i \in DOMAIN queue : cmd[queue[i]].pc = "queued"
      /\ \A i, j \in DOMAIN queue : queue[i] = queue[j] => i = j
  BY DEF StoreInv, QueueOK
<1>2. Head(queue) = queue[1] /\ 1 \in DOMAIN queue /\ Head(queue) \in Clients
  BY <1>1
<1>3. /\ queue' \in Seq(Clients)
      /\ \A i \in DOMAIN queue' : i + 1 \in DOMAIN queue /\ i \in Nat /\ i + 1 # 1 /\ queue'[i] = queue[i + 1]
  BY <1>1
<1>4. \A i \in DOMAIN queue' : queue'[i] \in Clients \ {Head(queue)} /\ cmd'[queue'[i]].pc = "queued"
  BY <1>1, <1>2, <1>3
<1>5. \A i, j \in DOMAIN queue' : queue'[i] = queue'[j] => i = j
  <2> SUFFICES ASSUME NEW i \in DOMAIN queue', NEW j \in DOMAIN queue', queue'[i] = queue'[j] PROVE i = j
    OBVIOUS
  <2>1. i + 1 = j + 1 /\ i \in Nat /\ j \in Nat
    BY <1>1, <1>3
  <2> QED BY <2>1
<1> QED BY <1>1, <1>2, <1>3, <1>4, <1>5 DEF QueueOK

LEMMA LunStep ==
  ASSUME NamesApart, StoreInv, lun_worker_proc
  PROVE  StoreInv'
<1> DEFINE c == Head(queue)
<1>1. /\ queue # <<>> /\ queue' = Tail(queue) /\ UNCHANGED <<own, groups, file, disk, exited>>
      /\ \/ cmd' = [cmd EXCEPT ![c].pc = FirstCall(c), ![c].byLun = TRUE]
         \/ cmd' = [cmd EXCEPT ![c].pc = "data to come"]
  BY DEF lun_worker_proc
<1>2. c \in Clients /\ cmd[c].pc = "queued"
  BY <1>1, FirstQueued
<1>3. Shaped(c)
  BY <1>2, InProgress
<1> HIDE DEF c
<1>4. PICK yes \in BOOLEAN : yes = TRUE
  OBVIOUS
<1>5. PICK pc : pc = IF cmd' = [cmd EXCEPT ![c].pc = "data to come"] THEN "data to come" ELSE FirstCall(c)
  OBVIOUS
<1>6. \E r : /\ r = [cmd[c] EXCEPT !.pc = pc] \/ r = [cmd[c] EXCEPT !.pc = pc, !.byLun = yes]
             /\ cmd' = [cmd EXCEPT ![c] = r]
  <2>1. CASE cmd' = [cmd EXCEPT ![c].pc = "data to come"]
    BY <1>5, <2>1
  <2>2. CASE cmd' # [cmd EXCEPT ![c].pc = "data to come"]
    BY <1>1, <1>4, <1>5, <2>2, Zenon
  <2> QED BY <2>1, <2>2
<1>7. PICK r : /\ r = [cmd[c] EXCEPT !.pc = pc] \/ r = [cmd[c] EXCEPT !.pc = pc, !.byLun = yes]
               /\ cmd' = [cmd EXCEPT ![c] = r]
  BY <1>6
<1>8. /\ DOMAIN r = CmdFields /\ r.pc = pc /\ \A f \in CmdFields \ {"pc", "byLun"} : r[f] = cmd[c][f]
  BY <1>3, <1>7 DEF Shaped, CmdFields
<1>9. cmd'[c] = r /\ DOMAIN cmd' = Clients /\ \A d \in Clients \ {c} : cmd'[d] = cmd[d]
  BY <1>2, <1>3, <1>7 DEF Shaped
<1>10. Goes(c, cmd'[c].pc) /\ cmd'[c].uid = cmd[c].uid
  BY <1>3, <1>8, <1>9 DEF Goes, CmdFields, Shaped
<1>11. QueueOK'
  BY <1>1, <1>9, TailKept DEF c
<1>12. cmd[c].pc \in Waiting /\ cmd'[c].pc \in {"data to come", FirstCall(c)}
  BY <1>2, <1>5, <1>8, <1>9 DEF Waiting
<1> QED BY <1>1, <1>2, <1>10, <1>11, <1>12, FirstStep, QuietStep

-----------------------------------------------------------------------------
(***************************************************************************)
(* Steps that only look                                                      *)
(***************************************************************************)

ObjectOps == {"write", "read", "set_attr", "get_attr", "remove"}

LEMMA OpOfStep ==
  ASSUME StoreInv, NEW c \in Clients, cmd[c].pc # "idle"
  PROVE  /\ cmd[c].pc = "read" => cmd[c].op = "read"
         /\ cmd[c].pc = "write" => cmd[c].op = "write"
         /\ cmd[c].pc = "unlink" => cmd[c].op = "remove"
         /\ cmd[c].pc \in {"look up attr", "get attr"} => cmd[c].op = "get_attr"
         /\ cmd[c].pc \in {"open attr", "set attr"} => cmd[c].op \in {"set_attr", "create"}
<1>1. Shaped(c) /\ CmdOK(c)
  BY InProgress
<1> QED BY <1>1 DEF CmdOK, Shaped, Waiting, Made

\* A command on an object names its client's object.
LEMMA OnObject ==
  ASSUME StoreInv, NEW c \in Clients, cmd[c].pc # "idle", cmd[c].op \in ObjectOps
  PROVE  /\ Shaped(c) /\ OwnOK(c) /\ CmdOK(c) /\ ObjectFiles(c) /\ StepFiles(c)
         /\ own[c].uid # 0 /\ cmd[c].gid = own[c].gid /\ cmd[c].uid = own[c].uid
         /\ Data(c) = <<own[c].gid, own[c].uid, "data">> /\ Attr(c) = <<own[c].gid, own[c].uid, "attr">>
         /\ Data(c) \in Mine(c) /\ Attr(c) \in Mine(c)
<1>1. Shaped(c) /\ OwnOK(c) /\ CmdOK(c) /\ ClientFiles(c)
  BY InProgress
<1>2. own[c].uid # 0 /\ cmd[c].gid = own[c].gid /\ cmd[c].uid = own[c].uid
  BY <1>1 DEF CmdOK, Shaped, ObjectOps
<1>3. Naming(c)
  BY <1>1 DEF Naming, Shaped, ObjectOps
<1>4. ObjectFiles(c) /\ StepFiles(c)
  BY <1>1, <1>2 DEF ClientFiles
<1> QED BY <1>1, <1>2, <1>3, <1>4, NamedPaths DEF Data, Attr

LEMMA ObjectGoes ==
  ASSUME StoreInv, NEW c \in Clients, cmd[c].pc # "idle", cmd[c].op \in ObjectOps,
         Goes(c, cmd'[c].pc), cmd'[c].uid = cmd[c].uid, UNCHANGED own,
         \/ cmd'[c].pc = "done"
         \/ cmd[c].op = "write" /\ cmd'[c].pc = "write"
         \/ cmd[c].op = "read" /\ cmd'[c].pc = "read"
         \/ cmd[c].op = "set_attr" /\ cmd'[c].pc = "set attr"
         \/ cmd[c].op = "get_attr" /\ cmd'[c].pc = "get attr"
         \/ cmd[c].op = "remove" /\ cmd'[c].pc = "unlink"
  PROVE  GoesOn(c) /\ CmdOK(c)' /\ Data(c)' = Data(c) /\ Attr(c)' = Attr(c)
<1>1. GoesOn(c)
  BY DEF GoesOn, ObjectOps
<1>2. Data(c)' = Data(c) /\ Attr(c)' = Attr(c)
  BY DEF Goes, Data, Attr
<1>3. CmdOK(c)'
  <2> DEFINE r == cmd'[c]
  <2>1. /\ DOMAIN r = CmdFields /\ DOMAIN r.answer = AnswerFields /\ r.op = cmd[c].op
        /\ r.gid = cmd[c].gid /\ r.uid = cmd[c].uid /\ r.set = cmd[c].set
        /\ r.off = cmd[c].off /\ r.len = cmd[c].len /\ r.unit = cmd[c].unit /\ own' = own
    BY DEF Goes
  <2>2. Shaped(c) /\ CmdOK(c)
    BY InProgress
  <2> QED BY <2>1, <2>2 DEF CmdOK, Shaped, ObjectOps
<1> QED BY <1>1, <1>2, <1>3

\* The answer to a command on an object
LEMMA QuietAnswer ==
  ASSUME NamesApart, StoreInv, NEW c \in Clients, NEW pc, pc \notin {"idle", "queued"}, Step(c, pc),
         cmd[c].op \in {"read", "get_attr", "remove"},
         NEW f \in AnswerFields, NEW v, Answer(c, f, v), UNCHANGED <<groups, file, disk, exited>>,
         cmd[c].op = "read" => f = "data" /\ v = own[c].data,
         cmd[c].op = "get_attr" => f = "attr" /\ v = own[c].attr,
         cmd[c].op = "remove" => NoFile(c)
  PROVE  StoreInv'
<1>1. cmd[c].pc = pc /\ UNCHANGED <<own, queue>> /\ cmd[c].op \in ObjectOps
  BY DEF Step, ObjectOps
<1>2. Shaped(c)
  BY <1>1, InProgress
<1>3. Goes(c, "done") /\ cmd'[c].uid = cmd[c].uid /\ cmd'[c].answer[f] = v
  BY <1>2, AnswerGoes
<1>4. cmd'[c].pc = "done" /\ Goes(c, cmd'[c].pc) /\ cmd'[c].op = cmd[c].op
  BY <1>3 DEF Goes
<1>5. GoesOn(c) /\ CmdOK(c)'
  BY <1>1, <1>3, <1>4, ObjectGoes
<1>6. QueueOK'
  BY <1>1, <1>4, QueueKept DEF Goes
<1>7. NoFile(c)' <=> NoFile(c)
  BY <1>5, SameHoldings DEF NoFile
<1>8. StepFiles(c)'
  <2>1. cmd'[c].op = "read" => cmd'[c].answer.data = own'[c].data
    BY <1>1, <1>3, <1>4
  <2>2. cmd'[c].op = "get_attr" => cmd'[c].answer.attr = own'[c].attr
    BY <1>1, <1>3, <1>4
  <2> QED BY <1>4, <1>7, <2>1, <2>2 DEF StepFiles
<1>9. cmd[c].op # "create"
  OBVIOUS
<1> QED BY <1>3, <1>5, <1>6, <1>8, <1>9, QuietStep

\* The next system call of a command on an object
LEMMA QuietNext ==
  ASSUME NamesApart, StoreInv, NEW c \in Clients, NEW pc, pc \notin {"idle", "queued"}, Step(c, pc),
         UNCHANGED <<groups, file, disk, exited>>,
         Goes(c, cmd'[c].pc), cmd'[c].uid = cmd[c].uid,
         \/ /\ cmd[c].op = "get_attr" /\ cmd'[c].pc = "get attr" /\ cmd'[c].inode = file[Attr(c)]
         \/ /\ cmd[c].op = "remove" /\ cmd'[c].pc = "unlink" /\ cmd'[c].left \subseteq Mine(c)
            /\ \A p \in Mine(c) : file[p] # NoInode => p \in cmd'[c].left
  PROVE  StoreInv'
<1>1. cmd[c].pc = pc /\ UNCHANGED <<own, queue>> /\ cmd[c].op \in ObjectOps
  BY DEF Step, ObjectOps
<1>2. GoesOn(c) /\ CmdOK(c)' /\ Attr(c)' = Attr(c)
  BY <1>1, ObjectGoes
<1>3. QueueOK'
  BY <1>1, QueueKept DEF Goes
<1>4. StepFiles(c)'
  BY <1>2, SameHoldings DEF StepFiles
<1>5. cmd[c].op # "create"
  OBVIOUS
<1> QED BY <1>2, <1>3, <1>4, <1>5, QuietStep

LEMMA ReadStep ==
  ASSUME NamesApart, StoreInv, NEW c \in Clients, Read(c)
  PROVE  StoreInv'
<1>1. /\ Step(c, "read") /\ cmd[c].pc = "read" /\ UNCHANGED <<groups, file, disk, exited>>
      /\ Answer(c, "data", ReadUnits(disk[cmd[c].inode], cmd[c].len))
  BY DEF Read, Step
<1>2. cmd[c].op = "read" /\ cmd[c].op \in ObjectOps
  BY <1>1, OpOfStep DEF ObjectOps
<1>3. cmd[c].inode = file[Data(c)] /\ cmd[c].len = Units /\ own[c].data \in [1 .. Units -> Values]
  BY <1>1, <1>2, OnObject DEF StepFiles, CmdOK, Shaped, OwnOK
<1>4. \A k \in 1 .. Units : own[c].data[k] = Unit(Data(c), k)
  BY <1>1, <1>2, OnObject DEF ObjectFiles, Busy, Touched
<1>5. ReadUnits(disk[cmd[c].inode], cmd[c].len) = own[c].data
  BY <1>3, <1>4 DEF ReadUnits, Unit, Content
<1> QED BY <1>1, <1>2, <1>5, QuietAnswer DEF AnswerFields

LEMMA GetAttrStep ==
  ASSUME NamesApart, StoreInv, NEW c \in Clients, GetAttr(c)
  PROVE  StoreInv'
<1>1. Step(c, "get attr") /\ cmd[c].pc = "get attr"
  BY DEF GetAttr, Step
<1>2. cmd[c].op = "get_attr" /\ cmd[c].op \in ObjectOps
  BY <1>1, OpOfStep DEF ObjectOps
<1>3. cmd[c].inode = file[Attr(c)] /\ own[c].attr # 0
  BY <1>1, <1>2, OnObject DEF StepFiles, CmdOK, Shaped
<1>4. disk[cmd[c].inode] = <<own[c].attr>>
  BY <1>1, <1>2, <1>3, OnObject DEF ObjectFiles, Busy, Holds, Content
<1>5. Answer(c, "attr", own[c].attr) /\ UNCHANGED <<groups, file, disk, exited>>
  <2>1. PICK s : s = disk[cmd[c].inode]
    OBVIOUS
  <2>2. s # <<>> /\ s[1] = own[c].attr
    BY <1>4, <2>1
  <2>3. s # <<>> => Answer(c, "attr", s[1]) /\ UNCHANGED <<groups, file, disk, exited>>
    BY <2>1, Zenon DEF GetAttr
  <2> QED BY <2>2, <2>3
<1> QED BY <1>1, <1>2, <1>5, QuietAnswer DEF AnswerFields

LEMMA LookUpStep ==
  ASSUME NamesApart, StoreInv, NEW c \in Clients, LookUpAttr(c)
  PROVE  StoreInv'
<1>1. Step(c, "look up attr") /\ cmd[c].pc = "look up attr"
  BY DEF LookUpAttr, Step
<1>2. cmd[c].op = "get_attr" /\ cmd[c].op \in ObjectOps
  BY <1>1, OpOfStep DEF ObjectOps
<1>3. own[c].attr # 0 /\ Shaped(c)
  BY <1>1, <1>2, OnObject DEF CmdOK, Shaped
<1>4. file[Attr(c)] # NoInode
  BY <1>1, <1>2, <1>3, OnObject DEF ObjectFiles, Busy, Holds
<1>5. /\ cmd' = [cmd EXCEPT ![c].pc = "get attr", ![c].inode = file[Attr(c)]]
      /\ UNCHANGED <<groups, file, disk, exited>>
  BY <1>4 DEF LookUpAttr
<1>6. PICK i : i = file[Attr(c)]
  OBVIOUS
<1>7. PICK r : r = [cmd[c] EXCEPT !.pc = "get attr", !.inode = i]
  OBVIOUS
<1>8. /\ DOMAIN r = CmdFields /\ r.pc = "get attr" /\ r.inode = i
      /\ \A f \in CmdFields \ {"pc", "inode"} : r[f] = cmd[c][f]
  BY <1>3, <1>7 DEF Shaped, CmdFields
<1>9. cmd'[c] = r /\ DOMAIN cmd' = Clients /\ \A d \in Clients \ {c} : cmd'[d] = cmd[d]
  BY <1>3, <1>5, <1>6, <1>7 DEF Shaped
<1>10. Goes(c, cmd'[c].pc) /\ cmd'[c].uid = cmd[c].uid
  BY <1>3, <1>8, <1>9 DEF Goes, CmdFields, Shaped
<1> QED BY <1>1, <1>2, <1>5, <1>6, <1>8, <1>9, <1>10, QuietNext

LEMMA ListStep ==
  ASSUME NamesApart, StoreInv, NEW c \in Clients, ListNames(c)
  PROVE  StoreInv'
<1> DEFINE names == {p \in Paths : file[p] # NoInode /\ Matches(c, p)}
<1>1. /\ Step(c, "call") /\ cmd[c].pc = "call" /\ cmd[c].op = "remove" /\ cmd[c].op \in ObjectOps
      /\ UNCHANGED <<groups, file, disk, exited>>
  BY DEF ListNames, Step, ObjectOps
<1>2. Shaped(c) /\ Only(c, cmd[c].gid, cmd[c].uid)
  BY <1>1, OnObject DEF ObjectFiles
<1>3. \A p \in Mine(c) : file[p] # NoInode => p \in names
  BY <1>2 DEF Only, Mine, Matches
<1>4. names \subseteq Mine(c)
  <2> SUFFICES ASSUME NEW p \in Paths, file[p] # NoInode, Matches(c, p) PROVE p \in Mine(c)
    OBVIOUS
  <2>1. p[1] = own[c].gid /\ (p[2] = own[c].uid \/ <<own[c].uid, p[2]>> \in Begins)
    BY <1>1, OnObject DEF Matches
  <2>2. CASE p[1] = Shared
    <3>1. own[c].uid = UidOf[c]
      BY <1>1, <2>1, <2>2, OnObject DEF OwnOK
    <3>2. PICK d \in Clients : p[2] = UidOf[d]
      BY <2>2 DEF StoreInv, GroupsOK
    <3>3. d = c \/ p[2] = UidOf[c]
      BY <2>1, <3>1, <3>2 DEF NamesApart
    <3> QED BY <2>2, <3>2, <3>3 DEF Mine
  <2>3. CASE p[1] # Shared
    <3>1. p[1] \in Groups
      BY <2>3 DEF Paths
    <3> QED BY <1>1, <2>1, <3>1 DEF Mine, Owns
  <2> QED BY <2>2, <2>3
<1>5. CASE names = {}
  <2>1. Answer(c, "id", 0) /\ NoFile(c)
    BY <1>3, <1>5 DEF ListNames, NoFile
  <2> QED BY <1>1, <2>1, QuietAnswer DEF AnswerFields
<1>6. CASE names # {}
  <2>1. PICK l : l = names
    OBVIOUS
  <2>2. cmd' = [cmd EXCEPT ![c].pc = "unlink", ![c].left = l]
    BY <1>6, <2>1 DEF ListNames
  <2>3. PICK r : r = [cmd[c] EXCEPT !.pc = "unlink", !.left = l]
    OBVIOUS
  <2>4. /\ DOMAIN r = CmdFields /\ r.pc = "unlink" /\ r.left = l
        /\ \A f \in CmdFields \ {"pc", "left"} : r[f] = cmd[c][f]
    BY <1>2, <2>3 DEF Shaped, CmdFields
  <2>5. cmd'[c] = r /\ DOMAIN cmd' = Clients /\ \A d \in Clients \ {c} : cmd'[d] = cmd[d]
    BY <1>2, <2>2, <2>3 DEF Shaped
  <2>6. Goes(c, cmd'[c].pc) /\ cmd'[c].uid = cmd[c].uid
    BY <1>2, <2>4, <2>5 DEF Goes, CmdFields, Shaped
  <2> HIDE DEF names
  <2> QED BY <1>1, <1>3, <1>4, <2>1, <2>4, <2>5, <2>6, QuietNext
<1> QED BY <1>5, <1>6

-----------------------------------------------------------------------------
(***************************************************************************)
(* Steps that change a file                                                  *)
(***************************************************************************)

LEMMA OtherFiles ==
  ASSUME NEW c \in Clients, GoesOn(c), NEW path \in Mine(c), Changes(path)
  PROVE  /\ \A p \in Paths \ {path} : \A s : Holds(p, s)' <=> Holds(p, s)
         /\ \A p \in Paths \ {path} : \A k : file[p] # NoInode => Unit(p, k)' = Unit(p, k)
         /\ Only(c, path[1], path[2]) => Only(c, path[1], path[2])'
         /\ \A p \in Paths : p \notin Mine(c) => file'[p] = file[p]
         /\ \A i \in Inodes : i[1] \notin Mine(c) => disk'[i] = disk[i]
<1>1. \A p \in Paths \ {path} : \A s : Holds(p, s)' <=> Holds(p, s)
  BY DEF Changes, Holds
<1>2. \A p \in Paths \ {path} : \A k : file[p] # NoInode => Unit(p, k)' = Unit(p, k)
  BY DEF Changes, Unit
<1>3. Only(c, path[1], path[2]) => Only(c, path[1], path[2])'
  BY SameHoldings DEF Only, Changes, Mine
<1>4. /\ \A p \in Paths : p \notin Mine(c) => file'[p] = file[p]
      /\ \A i \in Inodes : i[1] \notin Mine(c) => disk'[i] = disk[i]
  BY DEF Changes
<1> QED BY <1>1, <1>2, <1>3, <1>4

LEMMA NewContents ==
  ASSUME StoreInv, NEW path \in Paths, file[path] # NoInode, UNCHANGED <<groups, file>>,
         NEW s \in Seq(Values), Len(s) <= Units, disk' = [disk EXCEPT ![file[path]] = s]
  PROVE  FilesOK' /\ Changes(path) /\ Content(path)' = s
<1>1. PICK i : i = file[path]
  OBVIOUS
<1>2. /\ file \in [Paths -> Inodes \cup {NoInode}] /\ disk \in [Inodes -> Seq(Values)]
      /\ \A p \in Paths : file[p] # NoInode => file[p] \in Inodes /\ file[p][1] = p
      /\ \A j \in Inodes : Len(disk[j]) <= Units
  BY DEF StoreInv, FilesOK
<1>3. i \in Inodes /\ i[1] = path /\ disk' = [disk EXCEPT ![i] = s]
  BY <1>1, <1>2
<1>4. disk' \in [Inodes -> Seq(Values)] /\ disk'[i] = s /\ \A j \in Inodes : j # i => disk'[j] = disk[j]
  BY <1>2, <1>3
<1>5. FilesOK'
  BY <1>2, <1>4 DEF StoreInv, FilesOK
<1>6. \A p \in Paths \ {path} : file[p] # NoInode => Content(p)' = Content(p)
  <2> SUFFICES ASSUME NEW p \in Paths \ {path}, file[p] # NoInode PROVE Content(p)' = Content(p)
    OBVIOUS
  <2>1. file[p] \in Inodes /\ file[p] # i
    BY <1>2, <1>3
  <2> QED BY <1>4, <2>1 DEF Content
<1>7. Changes(path)
  BY <1>3, <1>4, <1>6 DEF Changes
<1> QED BY <1>1, <1>4, <1>5, <1>7 DEF Content

\* A unit of a file, zero where nothing was written
UnitOf(s, k) == IF k <= Len(s) THEN s[k] ELSE 0

\* The units of a write are its unit, the others what they were.
UnitsAfter(new, old, off, len, unit) ==
  \A k \in 1 .. Units : UnitOf(new, k) = IF k \in off + 1 .. off + len THEN unit ELSE UnitOf(old, k)

LEMMA WrittenProperties ==
  ASSUME NEW old \in Seq(Values), Len(old) <= Units, NEW off \in Nat, NEW len \in Nat \ {0},
         off + len <= Units, NEW unit \in Values
  PROVE  /\ Written(old, off, len, unit) \in Seq(Values)
         /\ Len(Written(old, off, len, unit)) <= Units
         /\ UnitsAfter(Written(old, off, len, unit), old, off, len, unit)
         /\ Len(old) = Units => Len(Written(old, off, len, unit)) = Units
<1>1. Units \in Nat /\ Len(old) \in Nat /\ 0 \in Values
  BY StoreAssumption DEF Values
<1>2. PICK m : m = Max({Len(old), off + len})
  OBVIOUS
<1>3. m \in Nat /\ m >= Len(old) /\ m >= off + len /\ m \in {Len(old), off + len}
  <2>1. \E x \in {Len(old), off + len} : \A y \in {Len(old), off + len} : x >= y
    BY <1>1
  <2>2. m \in {Len(old), off + len} /\ \A y \in {Len(old), off + len} : m >= y
    BY <1>2, <2>1 DEF Max
  <2> QED BY <1>1, <2>2
<1>4. PICK new : new = [k \in 1 .. m |->
        IF k \in off + 1 .. off + len THEN unit ELSE IF k <= Len(old) THEN old[k] ELSE 0]
  OBVIOUS
<1>5. Written(old, off, len, unit) = new
  BY <1>2, <1>4 DEF Written
<1>6. new \in Seq(Values) /\ Len(new) = m
  <2>1. \A k \in 1 .. m : (IF k \in off + 1 .. off + len THEN unit ELSE IF k <= Len(old) THEN old[k] ELSE 0)
                          \in Values
    BY <1>1, <1>3
  <2>2. new \in [1 .. m -> Values]
    BY <1>4, <2>1
  <2> QED BY <1>3, <2>2
<1>7. \A k \in 1 .. Units : UnitOf(new, k) = IF k \in off + 1 .. off + len THEN unit ELSE UnitOf(old, k)
  <2> SUFFICES ASSUME NEW k \in 1 .. Units
               PROVE  UnitOf(new, k) = IF k \in off + 1 .. off + len THEN unit ELSE UnitOf(old, k)
    OBVIOUS
  <2>1. CASE k <= m
    <3>1. k \in 1 .. m
      BY <1>3, <2>1
    <3>2. new[k] = IF k \in off + 1 .. off + len THEN unit ELSE IF k <= Len(old) THEN old[k] ELSE 0
      BY <1>4, <3>1
    <3> QED BY <1>6, <2>1, <3>2 DEF UnitOf
  <2>2. CASE ~(k <= m)
    <3>1. k \notin off + 1 .. off + len /\ ~(k <= Len(old))
      BY <1>1, <1>3, <2>2
    <3> QED BY <1>6, <2>2, <3>1 DEF UnitOf
  <2> QED BY <2>1, <2>2
<1>8. m <= Units /\ (Len(old) = Units => m = Units)
  BY <1>1, <1>3
<1> QED BY <1>5, <1>6, <1>7, <1>8 DEF UnitsAfter

LEMMA WriteStep ==
  ASSUME NamesApart, StoreInv, NEW c \in Clients, Write(c)
  PROVE  StoreInv'
<1>1. /\ cmd[c].pc = "write" /\ UNCHANGED <<own, queue, groups, file, exited>> /\ Answer(c, "id", 0)
      /\ disk' = [disk EXCEPT ![cmd[c].inode] =
                    Written(disk[cmd[c].inode], cmd[c].off, cmd[c].len, cmd[c].unit)]
  BY DEF Write, Step
<1>2. cmd[c].op = "write" /\ cmd[c].op \in ObjectOps
  BY <1>1, OpOfStep DEF ObjectOps
<1>3. PICK D : D = Data(c)
  OBVIOUS
<1>4. PICK A : A = Attr(c)
  OBVIOUS
<1>5. /\ Shaped(c) /\ OwnOK(c) /\ CmdOK(c) /\ ObjectFiles(c) /\ StepFiles(c) /\ own[c].uid # 0
      /\ D = <<own[c].gid, own[c].uid, "data">> /\ A = <<own[c].gid, own[c].uid, "attr">>
      /\ D \in Mine(c) /\ A \in Mine(c) /\ D \in Paths /\ A \in Paths
  BY <1>1, <1>2, <1>3, <1>4, OnObject DEF Mine
<1>6. /\ ~Busy(c, {"remove"}) /\ ~Busy(c, {"set_attr"}) /\ ~Busy(c, {"create"})
      /\ Touched(c) = cmd[c].off + 1 .. cmd[c].off + cmd[c].len
  BY <1>1, <1>2 DEF Busy, Touched
<1>7. /\ cmd[c].inode = file[D] /\ file[D] # NoInode
      /\ \A k \in (1 .. Units) \ Touched(c) : own[c].data[k] = Unit(D, k)
      /\ own[c].attr # 0 => Holds(A, <<own[c].attr>>)
      /\ Only(c, own[c].gid, own[c].uid)
  BY <1>1, <1>3, <1>5, <1>6 DEF ObjectFiles, StepFiles
<1>8. PICK old : old = Content(D)
  OBVIOUS
<1>9. PICK off : off = cmd[c].off
  OBVIOUS
<1>10. PICK len : len = cmd[c].len
  OBVIOUS
<1>11. PICK unit : unit = cmd[c].unit
  OBVIOUS
<1>12. off \in Nat /\ len \in Nat \ {0} /\ off + len <= Units /\ unit \in Values
  BY <1>2, <1>5, <1>9, <1>10, <1>11 DEF CmdOK, Shaped, Values
<1>13. old \in Seq(Values) /\ Len(old) <= Units
  BY <1>5, <1>7, <1>8 DEF StoreInv, FilesOK, Content
<1>14. PICK new : new = Written(old, off, len, unit)
  OBVIOUS
<1>15. /\ new \in Seq(Values) /\ Len(new) <= Units
       /\ UnitsAfter(new, old, off, len, unit)
  BY <1>12, <1>13, <1>14, WrittenProperties
<1>16. FilesOK' /\ Changes(D) /\ Content(D)' = new
  <2>1. disk' = [disk EXCEPT ![file[D]] = new]
    BY <1>1, <1>7, <1>8, <1>9, <1>10, <1>11, <1>14 DEF Content
  <2> QED BY <1>1, <1>5, <1>7, <1>15, <2>1, NewContents
<1>17. Goes(c, "done") /\ cmd'[c].uid = cmd[c].uid /\ Goes(c, cmd'[c].pc) /\ cmd'[c].pc = "done"
  <2>1. Goes(c, "done") /\ cmd'[c].uid = cmd[c].uid
    BY <1>1, <1>5, AnswerGoes DEF AnswerFields
  <2> QED BY <2>1 DEF Goes
<1>18. GoesOn(c) /\ CmdOK(c)' /\ Data(c)' = D /\ Attr(c)' = A /\ cmd'[c].op = "write" /\ cmd'[c].unit = unit
  BY <1>1, <1>2, <1>3, <1>4, <1>11, <1>17, ObjectGoes DEF Goes
<1>19. QueueOK'
  BY <1>1, <1>17, QueueKept DEF Goes
<1>20. D # A
  BY <1>5
<1>21. \A k : Unit(D, k)' = UnitOf(new, k) /\ Unit(D, k) = UnitOf(old, k)
  BY <1>8, <1>16 DEF Unit, UnitOf
<1>22. ObjectFiles(c)'
  <2>1. Only(c, own[c].gid, own[c].uid)'
    <3>1. D[1] = own[c].gid /\ D[2] = own[c].uid
      BY <1>5
    <3> QED BY <1>1, <1>5, <1>7, <1>16, <1>18, <3>1, OtherFiles
  <2>2. \A k \in (1 .. Units) \ Touched(c) : own[c].data[k] = Unit(D, k)'
    BY <1>6, <1>7, <1>9, <1>10, <1>15, <1>21 DEF UnitsAfter
  <2>3. own[c].attr # 0 => Holds(A, <<own[c].attr>>)'
    BY <1>1, <1>5, <1>7, <1>16, <1>18, <1>20, OtherFiles
  <2>4. file'[D] # NoInode
    BY <1>16 DEF Changes
  <2> QED BY <1>1, <1>5, <1>6, <1>18, <2>1, <2>2, <2>3, <2>4, SameHoldings DEF ObjectFiles
<1>23. StepFiles(c)'
  <2>1. \A k \in Touched(c) : k \in 1 .. Units
    BY <1>6, <1>9, <1>10, <1>12, StoreAssumption
  <2>2. \A k \in Touched(c) : Unit(D, k)' = unit
    BY <1>6, <1>9, <1>10, <1>15, <1>21, <2>1 DEF UnitsAfter
  <2> QED BY <1>17, <1>18, <2>2, SameHoldings DEF StepFiles
<1>24. ClientFiles(c)'
  BY <1>1, <1>5, <1>6, <1>18, <1>22, <1>23, SameHoldings DEF ClientFiles
<1> QED BY <1>1, <1>5, <1>16, <1>18, <1>19, <1>24, OtherFiles, CommandStep

\* open for READ and WRITE finds the object, and nothing changes.
LEMMA OpenThere ==
  ASSUME NamesApart, StoreInv, NEW c \in Clients, NEW pc \in {"read", "write"},
         cmd[c].pc = "call", cmd[c].op = pc, UNCHANGED <<own, queue>>,
         Open(c, Data(c), FALSE, [cmd[c] EXCEPT !.pc = pc])
  PROVE  StoreInv'
<1>1. cmd[c].op \in ObjectOps /\ cmd[c].pc # "idle"
  BY DEF ObjectOps
<1>2. PICK D : D = Data(c)
  OBVIOUS
<1>3. /\ Shaped(c) /\ ObjectFiles(c) /\ D \in Mine(c) /\ D \in Paths
      /\ D = <<own[c].gid, own[c].uid, "data">>
  BY <1>1, <1>2, OnObject DEF Mine
<1>4. ~Busy(c, {"remove"})
  BY DEF Busy
<1>5. file[D] # NoInode /\ D[1] \in groups
  BY <1>3, <1>4 DEF ObjectFiles, StoreInv, FilesOK
<1>6. PICK r : r = [cmd[c] EXCEPT !.pc = pc]
  OBVIOUS
<1>7. DOMAIN r = CmdFields /\ r.pc = pc /\ \A f \in CmdFields \ {"pc"} : r[f] = cmd[c][f]
  BY <1>3, <1>6 DEF Shaped, CmdFields
<1>9. OpenOld(c, D, r)
  BY <1>2, <1>6 DEF OpenOld
<1>10. /\ UNCHANGED <<groups, exited>> /\ UNCHANGED <<file, disk>>
       /\ Becomes(c, r) /\ (r.pc \in Holding => cmd'[c].inode = file'[D])
  <2>1. cmd[c].pc \notin Holding
    BY DEF Holding
  <2> QED BY <1>3, <1>5, <1>7, <1>9, <2>1, OpenProperties
<1>11. UNCHANGED <<file, disk>>
  BY <1>10
<1>12. Goes(c, cmd'[c].pc) /\ cmd'[c].uid = cmd[c].uid /\ cmd'[c].pc = pc /\ cmd'[c].inode = file[D]
  <2>1. cmd'[c].inode = file[D]
    BY <1>7, <1>10, <1>11 DEF Holding
  <2> QED BY <1>3, <1>7, <1>10, <2>1 DEF Goes, Becomes, CmdFields, Shaped
<1>13. GoesOn(c) /\ CmdOK(c)' /\ Data(c)' = Data(c)
  BY <1>1, <1>12, ObjectGoes
<1>14. QueueOK'
  BY <1>10, QueueKept DEF Becomes
<1>15. StepFiles(c)'
  BY <1>2, <1>11, <1>12, <1>13 DEF StepFiles
<1>16. cmd[c].op # "create"
  OBVIOUS
<1> QED BY <1>10, <1>11, <1>12, <1>13, <1>14, <1>15, <1>16, QuietStep

LEMMA OpenStep ==
  ASSUME NamesApart, StoreInv, NEW c \in Clients, OpenWrite(c) \/ OpenRead(c)
  PROVE  StoreInv'
<1>1. CASE OpenWrite(c)
  <2>1. /\ cmd[c].pc = "call" /\ cmd[c].op = "write" /\ UNCHANGED <<own, queue>>
        /\ Open(c, Data(c), FALSE, [cmd[c] EXCEPT !.pc = "write"])
    BY <1>1 DEF OpenWrite, OpenForWrite, Step
  <2> QED BY <2>1, OpenThere
<1>2. CASE OpenRead(c)
  <2>1. /\ cmd[c].pc = "call" /\ cmd[c].op = "read" /\ UNCHANGED <<own, queue>>
        /\ Open(c, Data(c), FALSE, [cmd[c] EXCEPT !.pc = "read"])
    BY <1>2 DEF OpenRead, Step
  <2> QED BY <2>1, OpenThere
<1> QED BY <1>1, <1>2

\* The attribute's file is opened or written: the object's others stay as they are.
LEMMA AttrFiles ==
  ASSUME StoreInv, NEW c \in Clients, cmd[c].pc # "idle", cmd[c].op \in {"set_attr", "create"},
         cmd[c].op = "create" => cmd[c].pc \in Made /\ cmd[c].pc # "done",
         Goes(c, cmd'[c].pc), cmd'[c].uid = cmd[c].uid, UNCHANGED own, cmd'[c].pc \in {"set attr", "done"},
         cmd'[c].answer.id = cmd[c].answer.id,
         NEW A, A = Attr(c), Changes(A),
         cmd'[c].pc = "done" => Content(A)' = <<cmd[c].set>>,
         cmd'[c].pc = "set attr" => cmd'[c].inode = file'[A]
  PROVE  GoesOn(c) /\ CmdOK(c)' /\ ClientFiles(c)'
<1>1. Shaped(c) /\ OwnOK(c) /\ CmdOK(c) /\ ClientFiles(c) /\ CmdOK(c)
  BY InProgress
<1>2. GoesOn(c)
  BY DEF GoesOn
<1>3. PICK D : D = Data(c)
  OBVIOUS
<1>4. A = Attr(c)
  OBVIOUS
<1>5. /\ D = <<cmd[c].gid, cmd[c].uid, "data">> /\ A = <<cmd[c].gid, cmd[c].uid, "attr">> /\ D # A
      /\ A[1] = cmd[c].gid /\ A[2] = cmd[c].uid /\ Data(c)' = D /\ Attr(c)' = A
  <2>1. D = <<cmd[c].gid, cmd[c].uid, "data">> /\ A = <<cmd[c].gid, cmd[c].uid, "attr">>
    BY <1>3, <1>4 DEF Data, Attr
  <2>2. Data(c)' = D /\ Attr(c)' = A
    BY <2>1 DEF Data, Attr, Goes
  <2>3. PICK g : g = cmd[c].gid
    OBVIOUS
  <2>4. PICK u : u = cmd[c].uid
    OBVIOUS
  <2>5. PICK d : d = <<g, u, "data">>
    OBVIOUS
  <2>6. PICK a : a = <<g, u, "attr">>
    OBVIOUS
  <2>7. d # a /\ a[1] = g /\ a[2] = u
    BY <2>5, <2>6
  <2>8. d = D /\ a = A
    BY <2>1, <2>3, <2>4, <2>5, <2>6
  <2>9. D # A /\ A[1] = cmd[c].gid /\ A[2] = cmd[c].uid
    BY <2>3, <2>4, <2>7, <2>8
  <2> QED BY <2>1, <2>2, <2>9
<1>6. Naming(c)
  BY <1>1 DEF Naming, Shaped
<1>7. D \in Mine(c) /\ A \in Mine(c) /\ D \in Paths
  BY <1>1, <1>3, <1>4, <1>6, NamedPaths DEF Mine
<1>8. /\ cmd'[c].op = cmd[c].op /\ cmd'[c].set = cmd[c].set /\ cmd'[c].gid = cmd[c].gid /\ own' = own
      /\ Busy(c, {"set_attr"})' = Busy(c, {"set_attr"})
  BY DEF Goes, Busy
<1>9. Changes(A)
  BY <1>4
<1>10. /\ \A s : Holds(D, s)' <=> Holds(D, s)
       /\ file[D] # NoInode => file'[D] # NoInode /\ \A k : Unit(D, k)' = Unit(D, k)
       /\ Only(c, cmd[c].gid, cmd[c].uid) => Only(c, cmd[c].gid, cmd[c].uid)'
  <2>1. D \in Paths \ {A}
    BY <1>5, <1>7
  <2>2. file'[D] = file[D]
    BY <1>9, <2>1 DEF Changes
  <2> QED BY <1>2, <1>5, <1>7, <1>8, <1>9, <2>1, <2>2, OtherFiles
<1>11. cmd'[c].pc = "done" => Holds(A, <<cmd[c].set>>)'
  <2>2. ASSUME cmd'[c].pc = "done" PROVE Content(A)' = <<cmd'[c].set>>
    BY <1>4, <1>8, <2>2
  <2> QED BY <1>9, <2>2 DEF Changes, Holds
<1>12. StepFiles(c)'
  <2>1. cmd'[c].pc = "set attr" => file'[A] # NoInode /\ cmd'[c].inode = file'[A]
    BY <1>4, <1>9 DEF Changes
  <2> QED BY <1>5, <1>8, <1>11, <2>1 DEF StepFiles
<1>13. CASE cmd[c].op = "set_attr"
  <2>1. cmd[c].op \in ObjectOps /\ ~Busy(c, {"remove"}) /\ Busy(c, {"set_attr"}) /\ ~Busy(c, {"create"})
    BY <1>13 DEF ObjectOps, Busy
  <2>2. /\ ObjectFiles(c) /\ own[c].uid # 0 /\ cmd[c].gid = own[c].gid /\ cmd[c].uid = own[c].uid
    BY <2>1, OnObject
  <2>3. CmdOK(c)'
    BY <1>13, <2>1, ObjectGoes
  <2>4. ObjectFiles(c)'
    <3>1. D = <<own[c].gid, own[c].uid, "data">>
      BY <1>5, <2>2
    <3>2. /\ Only(c, own[c].gid, own[c].uid)'
          /\ file'[D] # NoInode
          /\ \A k \in (1 .. Units) \ Touched(c) : own[c].data[k] = Unit(D, k)'
      BY <1>8, <1>10, <2>1, <2>2, <3>1 DEF ObjectFiles
    <3>3. Busy(c, {"set_attr"})' /\ Touched(c)' = Touched(c)
      BY <1>2, <2>1, SameHoldings
    <3>4. D # A
      BY <1>5
    <3> QED BY <1>8, <3>1, <3>2, <3>3 DEF ObjectFiles, Busy
  <2> QED BY <1>2, <1>8, <1>12, <2>1, <2>2, <2>3, <2>4, SameHoldings DEF ClientFiles
<1>14. CASE cmd[c].op = "create"
  <2>1. cmd[c].pc \in Made /\ cmd'[c].pc \in Made /\ Busy(c, {"create"}) /\ own[c].uid = 0
    BY <1>1, <1>14 DEF Made, Busy, CmdOK, Shaped
  <2>2. CreateFiles(c)
    BY <1>1, <2>1 DEF ClientFiles
  <2>3. CreateFiles(c)'
    BY <1>3, <1>5, <1>8, <1>10, <1>11, <2>1, <2>2 DEF CreateFiles
  <2>4. CmdOK(c)'
    <3> DEFINE r == cmd'[c]
    <3>1. /\ DOMAIN r = CmdFields /\ DOMAIN r.answer = AnswerFields /\ r.op = "create"
          /\ r.gid = cmd[c].gid /\ r.uid = cmd[c].uid /\ r.set = cmd[c].set /\ own' = own
      BY <1>8, <1>14 DEF Goes
    <3> QED BY <1>1, <1>14, <2>1, <3>1 DEF CmdOK, Shaped
  <2> QED BY <1>2, <1>8, <1>12, <2>1, <2>3, <2>4, SameHoldings DEF ClientFiles
<1> QED BY <1>13, <1>14

\* The group of the attribute's file is there, and so is the object.
LEMMA AttrReady ==
  ASSUME StoreInv, NEW c \in Clients, cmd[c].pc \in {"open attr", "set attr"}
  PROVE  /\ Shaped(c) /\ CmdOK(c) /\ StepFiles(c) /\ cmd[c].op \in {"set_attr", "create"}
         /\ cmd[c].pc \in Made /\ Attr(c) \in Mine(c) /\ Attr(c)[1] \in groups
         /\ cmd[c].set \in Values
<1>1. /\ Shaped(c) /\ CmdOK(c) /\ OwnOK(c) /\ ClientFiles(c) /\ cmd[c].op \in {"set_attr", "create"}
      /\ cmd[c].pc \in Made
  BY InProgress, OpOfStep DEF Made
<1>2. Naming(c)
  BY <1>1 DEF Naming, Shaped
<1>3. Attr(c) \in Mine(c) /\ Data(c) \in Mine(c)
  BY <1>1, <1>2, NamedPaths
<1>4. file[Data(c)] # NoInode
  <2>1. CASE cmd[c].op = "set_attr"
    <3>1. ObjectFiles(c) /\ Data(c) = <<own[c].gid, own[c].uid, "data">> /\ ~Busy(c, {"remove"})
      BY <2>1, OnObject DEF ObjectOps, Busy
    <3> QED BY <3>1 DEF ObjectFiles
  <2>2. CASE cmd[c].op = "create"
    <3>1. CreateFiles(c)
      BY <1>1, <2>2 DEF ClientFiles, Busy
    <3> QED BY <1>1, <3>1 DEF CreateFiles, Holds
  <2> QED BY <1>1, <2>1, <2>2
<1>5. Data(c)[1] \in groups
  BY <1>3, <1>4 DEF StoreInv, FilesOK, Mine
<1>6. Attr(c)[1] = Data(c)[1]
  BY DEF Attr, Data
<1>7. cmd[c].set \in Values
  BY <1>1 DEF CmdOK, Shaped, Values
<1> QED BY <1>1, <1>3, <1>5, <1>6, <1>7 DEF ClientFiles

LEMMA OpenAttrStep ==
  ASSUME NamesApart, StoreInv, NEW c \in Clients, OpenAttr(c)
  PROVE  StoreInv'
<1>1. /\ cmd[c].pc = "open attr" /\ UNCHANGED <<own, queue>>
      /\ Open(c, Attr(c), FALSE, [cmd[c] EXCEPT !.pc = "set attr"])
  BY DEF OpenAttr, Step
<1>2. /\ Shaped(c) /\ CmdOK(c) /\ cmd[c].op \in {"set_attr", "create"} /\ cmd[c].pc \in Made
      /\ Attr(c) \in Mine(c) /\ Attr(c)[1] \in groups
  BY <1>1, AttrReady
<1>3. PICK A : A = Attr(c)
  OBVIOUS
<1>4. PICK r : r = [cmd[c] EXCEPT !.pc = "set attr"]
  OBVIOUS
<1>5. DOMAIN r = CmdFields /\ r.pc = "set attr" /\ \A f \in CmdFields \ {"pc"} : r[f] = cmd[c][f]
  BY <1>2, <1>4 DEF Shaped, CmdFields
<1>7. OpenOld(c, A, r)
  BY <1>1, <1>3, <1>4 DEF OpenOld
<1>8. /\ UNCHANGED <<groups, exited>> /\ FilesOK' /\ Changes(A)
      /\ Becomes(c, r) /\ (r.pc \in Holding => cmd'[c].inode = file'[A])
  <2>1. cmd[c].pc \notin Holding
    BY <1>1 DEF Holding
  <2>2. A \in Mine(c) /\ A[1] \in groups
    BY <1>2, <1>3
  <2> QED BY <1>5, <1>7, <2>1, <2>2, OpenProperties
<1>9. Changes(A)
  BY <1>8
<1>10. /\ Goes(c, cmd'[c].pc) /\ cmd'[c].uid = cmd[c].uid /\ cmd'[c].pc = "set attr"
       /\ cmd'[c].inode = file'[A] /\ cmd'[c].answer = cmd[c].answer
  <2>1. cmd'[c].inode = file'[A]
    BY <1>5, <1>8 DEF Holding
  <2> QED BY <1>2, <1>5, <1>8, <2>1 DEF Goes, Becomes, CmdFields, Shaped
<1>11. QueueOK'
  BY <1>1, <1>8, QueueKept DEF Becomes
<1>12. GoesOn(c) /\ CmdOK(c)' /\ ClientFiles(c)'
  BY <1>1, <1>2, <1>3, <1>9, <1>10, AttrFiles
<1> QED BY <1>2, <1>3, <1>8, <1>9, <1>11, <1>12, OtherFiles, CommandStep

LEMMA SetAttrStep ==
  ASSUME NamesApart, StoreInv, NEW c \in Clients, SetAttr(c)
  PROVE  StoreInv'
<1>1. /\ cmd[c].pc = "set attr" /\ UNCHANGED <<own, queue, groups, file, exited>>
      /\ Answer(c, "id", cmd[c].answer.id)
      /\ disk' = [disk EXCEPT ![cmd[c].inode] = <<cmd[c].set>>]
  BY DEF SetAttr, Step
<1>2. /\ Shaped(c) /\ CmdOK(c) /\ StepFiles(c) /\ cmd[c].op \in {"set_attr", "create"}
      /\ cmd[c].pc \in Made /\ Attr(c) \in Mine(c) /\ cmd[c].set \in Values
  BY <1>1, AttrReady
<1>3. PICK A : A = Attr(c)
  OBVIOUS
<1>4. A \in Paths /\ file[A] # NoInode /\ cmd[c].inode = file[A]
  BY <1>1, <1>2, <1>3 DEF StepFiles, Mine
<1>5. PICK s : s = <<cmd[c].set>>
  OBVIOUS
<1>6. s \in Seq(Values) /\ Len(s) <= Units
  BY <1>2, <1>5, StoreAssumption
<1>7. disk' = [disk EXCEPT ![file[A]] = s]
  BY <1>1, <1>4, <1>5
<1>8. FilesOK' /\ Changes(A) /\ Content(A)' = s
  BY <1>1, <1>4, <1>6, <1>7, NewContents
<1>9. /\ Goes(c, "done") /\ cmd'[c].uid = cmd[c].uid /\ cmd'[c].answer.id = cmd[c].answer.id
  BY <1>1, <1>2, AnswerGoes DEF AnswerFields
<1>10. Goes(c, cmd'[c].pc) /\ cmd'[c].pc = "done"
  BY <1>9 DEF Goes
<1>11. QueueOK'
  BY <1>1, <1>10, QueueKept DEF Goes
<1>12. GoesOn(c) /\ CmdOK(c)' /\ ClientFiles(c)'
  BY <1>1, <1>2, <1>3, <1>5, <1>8, <1>9, <1>10, AttrFiles
<1> QED BY <1>1, <1>2, <1>3, <1>8, <1>11, <1>12, OtherFiles, CommandStep

LEMMA UnlinkStep ==
  ASSUME NamesApart, StoreInv, NEW c \in Clients, Unlink(c)
  PROVE  StoreInv'
<1>1. cmd[c].pc = "unlink" /\ UNCHANGED <<own, queue, groups, exited>>
  BY DEF Unlink, Step
<1>2. cmd[c].op = "remove" /\ cmd[c].op \in ObjectOps
  BY <1>1, OpOfStep DEF ObjectOps
<1>3. PICK p \in cmd[c].left :
        /\ file' = [file EXCEPT ![p] = NoInode]
        /\ disk' = IF file[p] \in OpenInodes \cup {NoInode} THEN disk ELSE [disk EXCEPT ![file[p]] = <<>>]
        /\ LET r == [cmd[c] EXCEPT !.left = @ \ {p}]
           IN  cmd' = [cmd EXCEPT ![c] = IF r.left = {} THEN Done(r, "id", 0) ELSE r]
  BY DEF Unlink
<1>4. /\ Shaped(c) /\ ObjectFiles(c) /\ StepFiles(c) /\ own[c].uid # 0
  BY <1>1, <1>2, OnObject
<1>5. /\ p \in Mine(c) /\ p \in Paths /\ cmd[c].left \subseteq Mine(c)
      /\ \A q \in Mine(c) : file[q] # NoInode => q \in cmd[c].left
  BY <1>1, <1>3, <1>4 DEF StepFiles, Mine
<1>6. /\ file \in [Paths -> Inodes \cup {NoInode}] /\ disk \in [Inodes -> Seq(Values)]
      /\ \A q \in Paths : file[q] # NoInode => file[q] \in Inodes /\ file[q][1] = q /\ q[1] \in groups
      /\ \A i \in Inodes : Len(disk[i]) <= Units
  BY DEF StoreInv, FilesOK
<1>7. file'[p] = NoInode /\ \A q \in Paths \ {p} : file'[q] = file[q]
  BY <1>3, <1>5, <1>6
<1>8. disk' = disk \/ (file[p] # NoInode /\ disk' = [disk EXCEPT ![file[p]] = <<>>])
  BY <1>3
<1>9. \A i \in Inodes : disk'[i] = disk[i] \/ (disk'[i] = <<>> /\ i[1] = p)
  BY <1>5, <1>6, <1>8
<1>10. <<>> \in Seq(Values) /\ Len(<<>>) = 0 /\ 0 <= Units
  BY StoreAssumption
<1>11. FilesOK'
  <2>1. file' \in [Paths -> Inodes \cup {NoInode}]
    BY <1>3, <1>6
  <2>2. disk' \in [Inodes -> Seq(Values)]
    BY <1>6, <1>8, <1>10
  <2>3. \A i \in Inodes : Len(disk'[i]) <= Units
    BY <1>6, <1>9, <1>10
  <2>4. \A q \in Paths : file'[q] # NoInode => file'[q][1] = q /\ q[1] \in groups
    BY <1>6, <1>7
  <2> QED BY <1>1, <2>1, <2>2, <2>3, <2>4 DEF StoreInv, FilesOK
<1>12. PICK l : l = cmd[c].left \ {p}
  OBVIOUS
<1>13. PICK r : r = [cmd[c] EXCEPT !.left = l]
  OBVIOUS
<1>14. DOMAIN r = CmdFields /\ r.left = l /\ \A f \in CmdFields \ {"left"} : r[f] = cmd[c][f]
  BY <1>4, <1>13 DEF Shaped, CmdFields
<1>15. cmd' = [cmd EXCEPT ![c] = IF l = {} THEN Done(r, "id", 0) ELSE r]
  BY <1>3, <1>12, <1>13, <1>14
<1>16. PICK a : a = [r.answer EXCEPT !["id"] = 0]
  OBVIOUS
<1>17. PICK no \in BOOLEAN : no = FALSE
  OBVIOUS
<1>18. PICK s : s = [r EXCEPT !.pc = "done", !.byLun = no, !.inode = NoInode, !.answer = a]
  OBVIOUS
<1>19. Done(r, "id", 0) = s
  BY <1>16, <1>17, <1>18 DEF Done
<1>20. DOMAIN a = AnswerFields
  BY <1>4, <1>14, <1>16 DEF Shaped, CmdFields
<1>21. /\ DOMAIN s = CmdFields /\ s.pc = "done" /\ s.answer = a /\ s.left = r.left
       /\ \A f \in CmdFields \ {"pc", "byLun", "inode", "answer"} : s[f] = r[f]
  BY <1>14, <1>18 DEF CmdFields
<1>22. /\ cmd'[c] = IF l = {} THEN s ELSE r
       /\ DOMAIN cmd' = Clients /\ \A d \in Clients \ {c} : cmd'[d] = cmd[d]
  BY <1>4, <1>15, <1>19 DEF Shaped
<1>23. /\ Goes(c, cmd'[c].pc) /\ cmd'[c].uid = cmd[c].uid /\ cmd'[c].left = l
       /\ cmd'[c].pc = IF l = {} THEN "done" ELSE "unlink"
  <2>1. CASE l = {}
    <3>1. cmd'[c] = s
      BY <1>22, <2>1
    <3> QED BY <1>4, <1>14, <1>20, <1>21, <1>22, <2>1, <3>1 DEF Goes, CmdFields, Shaped
  <2>2. CASE l # {}
    <3>1. cmd'[c] = r
      BY <1>22, <2>2
    <3> QED BY <1>1, <1>4, <1>14, <1>22, <2>2, <3>1 DEF Goes, CmdFields, Shaped
  <2> QED BY <2>1, <2>2
<1>24. GoesOn(c) /\ CmdOK(c)'
  BY <1>1, <1>2, <1>23, ObjectGoes
<1>25. QueueOK'
  BY <1>1, <1>22, QueueKept
<1>26. cmd'[c].op = "remove" /\ Busy(c, {"remove"})' /\ ~Busy(c, {"create"})'
  BY <1>2, <1>23 DEF Goes, Busy
<1>27. \A q \in Mine(c) : file'[q] # NoInode => q \in l /\ file[q] # NoInode
  <2> SUFFICES ASSUME NEW q \in Mine(c), file'[q] # NoInode PROVE q \in l /\ file[q] # NoInode
    OBVIOUS
  <2>1. q \in Paths
    BY DEF Mine
  <2> QED BY <1>5, <1>7, <1>12, <2>1
<1>28. StepFiles(c)'
  <2>1. Mine(c)' = Mine(c) /\ l \subseteq Mine(c)
    BY <1>5, <1>12, <1>24, SameHoldings
  <2>2. l = {} => NoFile(c)'
    BY <1>27, <2>1 DEF NoFile
  <2> QED BY <1>23, <1>26, <1>27, <2>1, <2>2 DEF StepFiles
<1>29. ObjectFiles(c)'
  <2>1. Only(c, own[c].gid, own[c].uid)'
    BY <1>1, <1>4, <1>24, <1>27, SameHoldings DEF ObjectFiles, Only
  <2> QED BY <1>1, <1>26, <2>1 DEF ObjectFiles
<1>30. ClientFiles(c)'
  BY <1>1, <1>4, <1>26, <1>28, <1>29 DEF ClientFiles
<1>31. /\ \A q \in Paths : q \notin Mine(c) => file'[q] = file[q]
       /\ \A i \in Inodes : i[1] \notin Mine(c) => disk'[i] = disk[i]
  BY <1>5, <1>7, <1>9
<1> QED BY <1>1, <1>11, <1>24, <1>25, <1>30, <1>31, CommandStep

LEMMA CreateStep ==
  ASSUME NamesApart, StoreInv, NEW c \in Clients, Create(c)
  PROVE  StoreInv'
<1>1. /\ cmd[c].pc = "call" /\ cmd[c].op = "create" /\ UNCHANGED <<own, queue>>
  BY DEF Create, Step
<1>2. PICK u \in IF cmd[c].uid = 0 THEN RandomUids ELSE {cmd[c].uid} :
        LET assigned == [cmd[c] EXCEPT !.uid = u, !.answer.id = u]
        IN  Open(c, <<cmd[c].gid, u, "data">>, TRUE,
                 IF cmd[c].set = 0 THEN Done(assigned, "id", u)
                                   ELSE [assigned EXCEPT !.pc = "open attr"])
  BY DEF Create
<1>3. Shaped(c) /\ OwnOK(c) /\ CmdOK(c) /\ ClientFiles(c)
  BY <1>1, InProgress
<1>4. PICK g : g = cmd[c].gid
  OBVIOUS
<1>5. /\ g # 0 /\ own[c].gid = g /\ own[c].uid = 0 /\ cmd[c].set \in {0} \cup AttrValues
      /\ g = Shared => cmd[c].uid = UidOf[c]
      /\ g # Shared => cmd[c].uid = 0
  BY <1>1, <1>3, <1>4 DEF CmdOK, Shaped, Made
<1>6. u \in Uids /\ u # 0 /\ g \in Groups \cup {Shared} /\ (g = Shared => u = UidOf[c])
  BY <1>2, <1>3, <1>5, StoreAssumption DEF OwnOK
<1>7. PICK D : D = <<g, u, "data">>
  OBVIOUS
<1>8. D \in Paths /\ D[1] = g /\ D[2] = u
  BY <1>6, <1>7 DEF Paths
<1>9. g # Shared => Owns(c, g)
  BY <1>1, <1>5, <1>6 DEF Owns
<1>10. D \in Mine(c) /\ D[1] \in groups
  <2>1. D \in Mine(c)
    BY <1>6, <1>8, <1>9 DEF Mine
  <2>2. g \in groups
    BY <1>5, <1>6, <1>9 DEF StoreInv, GroupsOK, UsesShared
  <2> QED BY <1>8, <2>1, <2>2
<1>11. PICK a : a = [cmd[c].answer EXCEPT !.id = u]
  OBVIOUS
<1>12. DOMAIN a = AnswerFields /\ a.id = u /\ a = [a EXCEPT !["id"] = u]
  BY <1>3, <1>11 DEF Shaped, AnswerFields
<1>13. PICK r : r = [cmd[c] EXCEPT !.uid = u, !.answer = a]
  OBVIOUS
<1>14. DOMAIN r = CmdFields /\ r.uid = u /\ r.answer = a /\ \A f \in CmdFields \ {"uid", "answer"} : r[f] = cmd[c][f]
  BY <1>3, <1>13 DEF Shaped, CmdFields
<1>15. PICK no \in BOOLEAN : no = FALSE
  OBVIOUS
<1>16. PICK s : s = IF cmd[c].set = 0
                    THEN [r EXCEPT !.pc = "done", !.byLun = no, !.inode = NoInode, !.answer = a]
                    ELSE [r EXCEPT !.pc = "open attr"]
  OBVIOUS
<1>17. /\ DOMAIN s = CmdFields /\ s.uid = u /\ s.answer = a
       /\ s.pc = IF cmd[c].set = 0 THEN "done" ELSE "open attr"
       /\ \A f \in CmdFields \ {"uid", "answer", "pc", "byLun", "inode"} : s[f] = cmd[c][f]
  <2>1. CASE cmd[c].set = 0
    BY <1>14, <1>16, <2>1 DEF CmdFields
  <2>2. CASE cmd[c].set # 0
    BY <1>14, <1>16, <2>2 DEF CmdFields
  <2> QED BY <2>1, <2>2
<1>18. OpenCut(c, D, s)
  <2>1. Done(r, "id", u) = [r EXCEPT !.pc = "done", !.byLun = no, !.inode = NoInode, !.answer = a]
    <3>1. [r.answer EXCEPT !["id"] = u] = a
      BY <1>12, <1>14
    <3> QED BY <1>15, <3>1 DEF Done
  <2>2. r = [cmd[c] EXCEPT !.uid = u, !.answer.id = u]
    BY <1>11, <1>13
  <2>3. s = IF cmd[c].set = 0 THEN Done(r, "id", u) ELSE [r EXCEPT !.pc = "open attr"]
    BY <1>16, <2>1
  <2> QED BY <1>2, <1>4, <1>7, <2>2, <2>3 DEF OpenCut
<1>19. UNCHANGED <<groups, exited>> /\ FilesOK' /\ Changes(D) /\ Content(D)' = <<>> /\ Becomes(c, s)
  <2>1. cmd[c].pc \notin Holding
    BY <1>1 DEF Holding
  <2> QED BY <1>10, <1>17, <1>18, <2>1, OpenProperties
<1>20. /\ Goes(c, cmd'[c].pc) /\ cmd'[c].uid = u /\ cmd'[c].answer.id = u
       /\ cmd'[c].pc = IF cmd[c].set = 0 THEN "done" ELSE "open attr"
       /\ cmd'[c].op = "create" /\ cmd'[c].gid = g /\ cmd'[c].set = cmd[c].set
  BY <1>1, <1>4, <1>12, <1>17, <1>19 DEF Becomes, Goes, CmdFields
<1>21. GoesOn(c)
  BY <1>1, <1>20 DEF GoesOn
<1>22. QueueOK'
  BY <1>1, <1>19, QueueKept DEF Becomes
<1>23. CmdOK(c)'
  <2> DEFINE n == cmd'[c]
  <2>1. /\ DOMAIN n = CmdFields /\ DOMAIN n.answer = AnswerFields /\ n.op = "create" /\ n.pc \in Made
        /\ n.gid = g /\ n.uid = u /\ n.set = cmd[c].set /\ n.answer.id = u /\ own' = own
        /\ (n.pc # "done" => n.set # 0)
    BY <1>1, <1>20 DEF Goes, Made
  <2> QED BY <1>5, <1>6, <2>1 DEF CmdOK
<1>24. StepFiles(c)'
  BY <1>20 DEF StepFiles
<1>25. Holds(D, <<>>)'
  BY <1>19 DEF Holds, Changes
<1>26. Only(c, g, u)'
  <2> SUFFICES ASSUME NEW p \in Mine(c), file'[p] # NoInode PROVE p[1] = g /\ p[2] = u
    BY <1>21, SameHoldings DEF Only
  <2>1. CASE p = D
    BY <1>8, <2>1
  <2>2. CASE p # D
    <3>1. p \in Paths /\ file[p] # NoInode
      BY <1>19, <2>2 DEF Changes, Mine
    <3>2. g = Shared
      BY <1>1, <1>3, <1>5, <3>1 DEF ClientFiles, CreateFiles, Busy, Made, NoFile
    <3>3. \A h : ~Owns(c, h)
      BY <1>1, <1>5, <3>2, StoreAssumption DEF Owns
    <3> QED BY <1>6, <3>2, <3>3 DEF Mine
  <2> QED BY <2>1, <2>2
<1>27. CreateFiles(c)'
  <2>1. Data(c)' = D
    BY <1>7, <1>20 DEF Data
  <2> QED BY <1>20, <1>25, <1>26, <2>1 DEF CreateFiles, Made
<1>28. ClientFiles(c)'
  BY <1>1, <1>5, <1>20, <1>24, <1>27 DEF ClientFiles, Busy
<1> QED BY <1>10, <1>19, <1>21, <1>22, <1>23, <1>28, OtherFiles, CommandStep

-----------------------------------------------------------------------------
(***************************************************************************)
(* Calls and their return                                                    *)
(***************************************************************************)

\* A caller whose command is idle has none.
LEMMA IdleIsNone ==
  ASSUME StoreInv, NEW c \in Clients, cmd[c].pc = "idle"
  PROVE  cmd[c] = NoCmd
<1>1. CmdOK(c)
  BY DEF StoreInv, Client
<1> QED BY <1>1 DEF CmdOK, Waiting, Made

LEMMA QueueAppended ==
  ASSUME StoreInv, NEW c \in Clients, cmd[c].pc = "idle", queue' = Append(queue, c),
         cmd'[c].pc = "queued", \A d \in Clients \ {c} : cmd'[d] = cmd[d]
  PROVE  QueueOK'
<1>1. /\ queue \in Seq(Clients) /\ \A i \in DOMAIN queue : cmd[queue[i]].pc = "queued"
      /\ \A i, j \in DOMAIN queue : queue[i] = queue[j] => i = j
  BY DEF StoreInv, QueueOK
<1>2. /\ queue' \in Seq(Clients) /\ Len(queue) \in Nat /\ Len(queue') = Len(queue) + 1
      /\ DOMAIN queue' = 1 .. Len(queue) + 1 /\ DOMAIN queue = 1 .. Len(queue)
      /\ queue'[Len(queue) + 1] = c /\ \A i \in 1 .. Len(queue) : queue'[i] = queue[i]
  BY <1>1
<1>3. \A i \in DOMAIN queue' : i \in DOMAIN queue \/ i = Len(queue) + 1
  BY <1>2
<1>4. \A i \in DOMAIN queue : queue'[i] = queue[i] /\ queue[i] \in Clients \ {c} /\ cmd'[queue[i]].pc = "queued"
  BY <1>1, <1>2
<1>5. \A i \in DOMAIN queue' : cmd'[queue'[i]].pc = "queued"
  BY <1>2, <1>3, <1>4
<1>6. \A i, j \in DOMAIN queue' : queue'[i] = queue'[j] => i = j
  <2> SUFFICES ASSUME NEW i \in DOMAIN queue', NEW j \in DOMAIN queue', queue'[i] = queue'[j] PROVE i = j
    OBVIOUS
  <2> QED BY <1>1, <1>2, <1>3, <1>4
<1> QED BY <1>2, <1>5, <1>6 DEF QueueOK

LEMMA NewCommand ==
  ASSUME NamesApart, StoreInv, NEW c \in Clients, cmd[c].pc = "idle",
         UNCHANGED <<own, groups, file, disk, exited>>, queue' = Append(queue, c),
         DOMAIN cmd' = Clients, \A d \in Clients \ {c} : cmd'[d] = cmd[d],
         cmd'[c].pc = "queued", CmdOK(c)'
  PROVE  StoreInv'
<1>1. OwnOK(c) /\ ClientFiles(c) /\ cmd[c] = NoCmd
  BY IdleIsNone DEF StoreInv, Client
<1>2. /\ Mine(c)' = Mine(c) /\ \A g : Owns(c, g)' <=> Owns(c, g)
      /\ UsesShared(c)' <=> UsesShared(c)
  <2>1. \A g : Owns(c, g)' <=> Owns(c, g)
    BY DEF Owns
  <2>2. Mine(c)' = Mine(c)
    BY <2>1 DEF Mine
  <2>3. UsesShared(c)' <=> UsesShared(c)
    BY DEF UsesShared
  <2> QED BY <2>1, <2>2, <2>3
<1>3. /\ Touched(c) = {} /\ \A ops : ~Busy(c, ops)
  BY DEF Touched, Busy
<1>4. /\ NoFile(c)' <=> NoFile(c)
      /\ \A g, u : Only(c, g, u)' <=> Only(c, g, u)
      /\ \A p, s : Holds(p, s)' <=> Holds(p, s)
      /\ \A p, k : Unit(p, k)' = Unit(p, k)
  BY <1>2 DEF NoFile, Only, Holds, Content, Unit
<1>5. StepFiles(c)'
  BY DEF StepFiles
<1>6. Busy(c, {"create"})' => CreateFiles(c)'
  <2> SUFFICES ASSUME Busy(c, {"create"})' PROVE CreateFiles(c)'
    OBVIOUS
  <2>1. own'[c] = own[c] /\ cmd'[c] # NoCmd
    BY DEF NoCmd
  <2>2. cmd'[c].op = "create"
    BY DEF Busy
  <2>3. own[c].uid = 0
    BY <2>1, <2>2 DEF CmdOK
  <2>4. NoFile(c)'
    BY <1>1, <1>3, <1>4, <2>3 DEF ClientFiles
  <2> QED BY <2>4 DEF CreateFiles, Made
<1>7. own[c].uid # 0 => ObjectFiles(c)'
  <2> SUFFICES ASSUME own[c].uid # 0 PROVE ObjectFiles(c)'
    OBVIOUS
  <2>1. ObjectFiles(c) /\ own' = own
    BY <1>1 DEF ClientFiles
  <2> QED BY <1>3, <1>4, <2>1 DEF ObjectFiles
<1>8. ClientFiles(c)'
  <2>1. own[c].uid = 0 => NoFile(c)'
    BY <1>1, <1>3, <1>4 DEF ClientFiles
  <2> QED BY <1>5, <1>6, <1>7, <2>1 DEF ClientFiles
<1>9. Client(c)'
  BY <1>1, <1>8 DEF Client, OwnOK
<1>10. Local(c)
  BY DEF Local, SameClient, StoreInv
<1>11. SameGroups(c)
  BY <1>2 DEF SameGroups
<1>12. QueueOK' /\ FilesOK'
  BY QueueAppended DEF StoreInv, FilesOK
<1> QED BY <1>9, <1>10, <1>11, <1>12, LocalStep

LEMMA NewCmdFields ==
  ASSUME NEW c, NEW op
  PROVE  /\ DOMAIN NewCmd(c, op) = CmdFields /\ NewCmd(c, op).op = op /\ NewCmd(c, op).pc = "queued"
         /\ NewCmd(c, op).gid = own[c].gid /\ NewCmd(c, op).uid = own[c].uid
         /\ NewCmd(c, op).len = 0 /\ NewCmd(c, op).set = 0
         /\ DOMAIN NewCmd(c, op).answer = AnswerFields
<1>1. PICK no \in BOOLEAN : no = FALSE
  OBVIOUS
<1>2. PICK a : a = NoAnswer
  OBVIOUS
<1>3. DOMAIN a = AnswerFields
  BY <1>2 DEF NoAnswer, AnswerFields
<1>4. PICK r : r = [op |-> op, pc |-> "queued", gid |-> own[c].gid, uid |-> own[c].uid, byLun |-> no,
                    off |-> 0, len |-> 0, unit |-> 0, set |-> 0, todev |-> no,
                    inode |-> NoInode, left |-> {}, answer |-> a]
  OBVIOUS
<1>5. NewCmd(c, op) = r
  BY <1>1, <1>2, <1>4 DEF NewCmd
<1> QED BY <1>3, <1>4, <1>5 DEF CmdFields

\* A command is sent with the arguments that its call gives it.
LEMMA Sent ==
  ASSUME StoreInv, NEW c \in Clients, NEW op, NEW args, osd_command(c, op, args)
  PROVE  /\ cmd[c].pc = "idle" /\ UNCHANGED <<own, groups, file, disk, exited>>
         /\ queue' = Append(queue, c)
         /\ DOMAIN cmd' = Clients /\ \A d \in Clients \ {c} : cmd'[d] = cmd[d]
         /\ DOMAIN cmd'[c] = CmdFields
         /\ \A f \in CmdFields : cmd'[c][f] = IF f \in DOMAIN args THEN args[f] ELSE NewCmd(c, op)[f]
<1>1. PICK r : r = With(NewCmd(c, op), args)
  OBVIOUS
<1>2. /\ DOMAIN r = CmdFields
      /\ \A f \in CmdFields : r[f] = IF f \in DOMAIN args THEN args[f] ELSE NewCmd(c, op)[f]
  BY <1>1, NewCmdFields DEF With
<1>3. cmd' = [cmd EXCEPT ![c] = r]
  BY <1>1 DEF osd_command
<1>4. DOMAIN cmd' = Clients /\ cmd'[c] = r /\ \A d \in Clients \ {c} : cmd'[d] = cmd[d]
  BY <1>3 DEF StoreInv
<1> QED BY <1>2, <1>4 DEF osd_command

\* The fields that CmdOK speaks of
LEMMA SentFields ==
  ASSUME StoreInv, NEW c \in Clients, NEW op, NEW args, osd_command(c, op, args),
         DOMAIN args \subseteq {"gid", "uid", "off", "len", "unit", "set", "todev"}
  PROVE  /\ cmd[c].pc = "idle" /\ UNCHANGED <<own, groups, file, disk, exited>>
         /\ queue' = Append(queue, c)
         /\ DOMAIN cmd' = Clients /\ \A d \in Clients \ {c} : cmd'[d] = cmd[d]
         /\ DOMAIN cmd'[c] = CmdFields /\ DOMAIN cmd'[c].answer = AnswerFields
         /\ cmd'[c].op = op /\ cmd'[c].pc = "queued"
         /\ cmd'[c].gid = IF "gid" \in DOMAIN args THEN args.gid ELSE own[c].gid
         /\ cmd'[c].uid = IF "uid" \in DOMAIN args THEN args.uid ELSE own[c].uid
         /\ cmd'[c].set = IF "set" \in DOMAIN args THEN args.set ELSE 0
         /\ cmd'[c].len = IF "len" \in DOMAIN args THEN args.len ELSE 0
         /\ "off" \in DOMAIN args => cmd'[c].off = args.off
         /\ "unit" \in DOMAIN args => cmd'[c].unit = args.unit
<1>1. /\ cmd[c].pc = "idle" /\ UNCHANGED <<own, groups, file, disk, exited>>
      /\ queue' = Append(queue, c)
      /\ DOMAIN cmd' = Clients /\ \A d \in Clients \ {c} : cmd'[d] = cmd[d]
      /\ DOMAIN cmd'[c] = CmdFields
      /\ \A f \in CmdFields : cmd'[c][f] = IF f \in DOMAIN args THEN args[f] ELSE NewCmd(c, op)[f]
  BY Sent
<1>2. CmdFields = {"op", "pc", "gid", "uid", "byLun", "off", "len", "unit", "set", "todev", "inode",
                   "left", "answer"}
  BY DEF CmdFields
<1> QED BY <1>1, <1>2, NewCmdFields

LEMMA CallStep ==
  ASSUME NamesApart, StoreInv, NEW c \in Clients, Call(c)
  PROVE  StoreInv'
<1>1. OwnOK(c)
  BY DEF StoreInv, Client
<1>2. ASSUME NEW op, NEW args, osd_command(c, op, args),
             DOMAIN args \subseteq {"gid", "uid", "off", "len", "unit", "set", "todev"}, CmdOK(c)'
      PROVE  StoreInv'
  BY <1>2, SentFields, NewCommand
<1>3. CASE osd_create_group(c)
  <2>1. PICK g \in {0, Shared} : osd_command(c, "create_group", [gid |-> g])
    BY <1>3 DEF osd_create_group
  <2>2. PICK args : args = [gid |-> g]
    OBVIOUS
  <2>3. DOMAIN args = {"gid"} /\ args.gid = g /\ osd_command(c, "create_group", args)
    BY <2>1, <2>2
  <2>4. own[c].gid = 0 /\ own[c].uid = 0
    BY <1>1, <1>3 DEF osd_create_group, OwnOK
  <2>5. CmdOK(c)'
    BY <2>3, <2>4, SentFields DEF CmdOK, Waiting
  <2> QED BY <1>2, <2>3, <2>5
<1>4. CASE osd_create(c)
  <2>1. PICK u \in IdsToAsk(c) : osd_command(c, "create", [uid |-> u])
    BY <1>4 DEF osd_create
  <2>2. PICK args : args = [uid |-> u]
    OBVIOUS
  <2>3. DOMAIN args = {"uid"} /\ args.uid = u /\ osd_command(c, "create", args)
    BY <2>1, <2>2
  <2>4. own[c].gid # 0 /\ own[c].uid = 0 /\ u = IF own[c].gid = Shared THEN UidOf[c] ELSE 0
    BY <1>4, <2>1 DEF osd_create, MayCreate, IdsToAsk
  <2>5. CmdOK(c)'
    <3>1. /\ own' = own /\ DOMAIN cmd'[c] = CmdFields /\ DOMAIN cmd'[c].answer = AnswerFields
          /\ cmd'[c].op = "create" /\ cmd'[c].pc = "queued" /\ cmd'[c].gid = own[c].gid
          /\ cmd'[c].uid = u /\ cmd'[c].set = 0
      BY <2>3, SentFields
    <3> QED BY <2>4, <3>1 DEF CmdOK, Waiting, Made
  <2> QED BY <1>2, <2>3, <2>5
<1>5. CASE osd_create_and_set(c)
  <2>1. PICK u \in IdsToAsk(c), v \in AttrValues :
          osd_command(c, "create", [uid |-> u, set |-> v, todev |-> TRUE])
    BY <1>5 DEF osd_create_and_set
  <2>2. PICK yes \in BOOLEAN : yes = TRUE
    OBVIOUS
  <2>3. PICK args : args = [uid |-> u, set |-> v, todev |-> yes]
    OBVIOUS
  <2>4. DOMAIN args = {"uid", "set", "todev"} /\ args.uid = u /\ args.set = v
    BY <2>3
  <2>5. osd_command(c, "create", args)
    BY <2>1, <2>2, <2>3
  <2>6. own[c].gid # 0 /\ own[c].uid = 0 /\ u = IF own[c].gid = Shared THEN UidOf[c] ELSE 0
    BY <1>5, <2>1 DEF osd_create_and_set, MayCreate, IdsToAsk
  <2>7. CmdOK(c)'
    <3>1. /\ own' = own /\ DOMAIN cmd'[c] = CmdFields /\ DOMAIN cmd'[c].answer = AnswerFields
          /\ cmd'[c].op = "create" /\ cmd'[c].pc = "queued" /\ cmd'[c].gid = own[c].gid
          /\ cmd'[c].uid = u /\ cmd'[c].set = v
      BY <2>4, <2>5, SentFields
    <3> QED BY <2>1, <2>6, <3>1 DEF CmdOK, Waiting, Made
  <2> QED BY <1>2, <2>4, <2>5, <2>7
<1>6. CASE osd_write(c)
  <2>1. PICK off \in 0 .. Units - 1, len \in 1 .. Units, unit \in WriteUnits :
          /\ off + len <= Units
          /\ osd_command(c, "write", [off |-> off, len |-> len, unit |-> unit, todev |-> TRUE])
    BY <1>6 DEF osd_write
  <2>2. PICK yes \in BOOLEAN : yes = TRUE
    OBVIOUS
  <2>3. PICK args : args = [off |-> off, len |-> len, unit |-> unit, todev |-> yes]
    OBVIOUS
  <2>4. DOMAIN args = {"off", "len", "unit", "todev"} /\ args.off = off /\ args.len = len /\ args.unit = unit
    BY <2>3
  <2>5. osd_command(c, "write", args)
    BY <2>1, <2>2, <2>3
  <2>6. own[c].uid # 0 /\ off \in Nat /\ len \in Nat \ {0} /\ off + len <= Units
    BY <1>6, <2>1, StoreAssumption DEF osd_write
  <2>7. CmdOK(c)'
    <3>1. /\ own' = own /\ DOMAIN cmd'[c] = CmdFields /\ DOMAIN cmd'[c].answer = AnswerFields
          /\ cmd'[c].op = "write" /\ cmd'[c].pc = "queued" /\ cmd'[c].gid = own[c].gid
          /\ cmd'[c].uid = own[c].uid /\ cmd'[c].off = off /\ cmd'[c].len = len /\ cmd'[c].unit = unit
      BY <2>4, <2>5, SentFields
    <3> QED BY <2>1, <2>6, <3>1 DEF CmdOK, Waiting
  <2> QED BY <1>2, <2>4, <2>5, <2>7
<1>7. CASE osd_read(c)
  <2>1. own[c].uid # 0 /\ osd_command(c, "read", [len |-> Units])
    BY <1>7 DEF osd_read
  <2>2. PICK args : args = [len |-> Units]
    OBVIOUS
  <2>3. DOMAIN args = {"len"} /\ args.len = Units /\ osd_command(c, "read", args)
    BY <2>1, <2>2
  <2>4. CmdOK(c)'
    BY <2>1, <2>3, SentFields DEF CmdOK, Waiting
  <2> QED BY <1>2, <2>3, <2>4
<1>8. CASE osd_set_one_attr(c)
  <2>1. PICK v \in AttrValues : osd_command(c, "set_attr", [set |-> v, todev |-> TRUE])
    BY <1>8 DEF osd_set_one_attr
  <2>2. PICK yes \in BOOLEAN : yes = TRUE
    OBVIOUS
  <2>3. PICK args : args = [set |-> v, todev |-> yes]
    OBVIOUS
  <2>4. DOMAIN args = {"set", "todev"} /\ args.set = v
    BY <2>3
  <2>5. osd_command(c, "set_attr", args) /\ own[c].uid # 0
    BY <1>8, <2>1, <2>2, <2>3 DEF osd_set_one_attr
  <2>6. CmdOK(c)'
    <3>1. /\ own' = own /\ DOMAIN cmd'[c] = CmdFields /\ DOMAIN cmd'[c].answer = AnswerFields
          /\ cmd'[c].op = "set_attr" /\ cmd'[c].pc = "queued" /\ cmd'[c].gid = own[c].gid
          /\ cmd'[c].uid = own[c].uid /\ cmd'[c].set = v
      BY <2>4, <2>5, SentFields
    <3> QED BY <2>1, <2>5, <3>1 DEF CmdOK, Waiting
  <2> QED BY <1>2, <2>4, <2>5, <2>6
<1>9. CASE osd_get_one_attr(c)
  <2>1. PICK index \in BOOLEAN : osd_command(c, "get_attr", [todev |-> index])
    BY <1>9 DEF osd_get_one_attr
  <2>2. PICK args : args = [todev |-> index]
    OBVIOUS
  <2>3. DOMAIN args = {"todev"} /\ osd_command(c, "get_attr", args)
    BY <2>1, <2>2
  <2>4. own[c].attr # 0 /\ own[c].uid # 0
    BY <1>1, <1>9 DEF osd_get_one_attr, OwnOK
  <2>5. CmdOK(c)'
    BY <2>3, <2>4, SentFields DEF CmdOK, Waiting
  <2> QED BY <1>2, <2>3, <2>5
<1>10. CASE osd_remove(c)
  <2>1. own[c].uid # 0 /\ osd_command(c, "remove", <<>>)
    BY <1>10 DEF osd_remove
  <2>2. PICK args : args = <<>>
    OBVIOUS
  <2>3. DOMAIN args = {} /\ osd_command(c, "remove", args)
    BY <2>1, <2>2
  <2>4. CmdOK(c)'
    BY <2>1, <2>3, SentFields DEF CmdOK, Waiting
  <2> QED BY <1>2, <2>3, <2>4
<1>11. CASE osd_remove_group(c)
  <2>1. own[c].gid \in Groups /\ own[c].uid = 0 /\ osd_command(c, "remove_group", <<>>)
    BY <1>11 DEF osd_remove_group
  <2>2. PICK args : args = <<>>
    OBVIOUS
  <2>3. DOMAIN args = {} /\ osd_command(c, "remove_group", args)
    BY <2>1, <2>2
  <2>4. CmdOK(c)'
    BY <2>1, <2>3, SentFields DEF CmdOK, Waiting
  <2> QED BY <1>2, <2>3, <2>4
<1> QED BY <1>3, <1>4, <1>5, <1>6, <1>7, <1>8, <1>9, <1>10, <1>11 DEF Call

LEMMA ReturnStep ==
  ASSUME NamesApart, StoreInv, NEW c \in Clients, Return(c)
  PROVE  StoreInv'
<1>1. /\ cmd[c].pc = "done" /\ UNCHANGED <<queue, groups, file, disk, exited>>
      /\ own' = [own EXCEPT ![c] = Returned(own[c], cmd[c])] /\ cmd' = [cmd EXCEPT ![c] = NoCmd]
  BY DEF Return
<1>2. Shaped(c) /\ OwnOK(c) /\ CmdOK(c) /\ ClientFiles(c) /\ DOMAIN own = Clients
  BY <1>1, InProgress DEF StoreInv
<1>3. PICK o : o = own[c]
  OBVIOUS
<1>4. PICK r : r = cmd[c]
  OBVIOUS
<1>5. PICK n : n = Returned(o, r)
  OBVIOUS
<1>6. /\ own'[c] = n /\ DOMAIN own' = Clients /\ \A d \in Clients \ {c} : own'[d] = own[d]
      /\ cmd'[c] = NoCmd /\ DOMAIN cmd' = Clients /\ \A d \in Clients \ {c} : cmd'[d] = cmd[d]
  BY <1>1, <1>2, <1>3, <1>4, <1>5 DEF Shaped
<1>7. /\ DOMAIN o = {"gid", "uid", "data", "attr"}
      /\ o.gid \in {0, Shared} \cup Groups /\ o.uid \in {0} \cup Uids
      /\ o.data \in [1 .. Units -> Values] /\ o.attr \in {0} \cup AttrValues
      /\ o.uid = 0 => o.attr = 0
      /\ o.uid # 0 => o.gid # 0 /\ (o.gid = Shared => o.uid = UidOf[c])
  BY <1>2, <1>3 DEF OwnOK
<1>8. 0 \in Values /\ Units \in Nat /\ Zeros \in [1 .. Units -> Values] /\ \A k \in 1 .. Units : Zeros[k] = 0
  BY StoreAssumption DEF Values, Zeros
<1>9. CmdOK(c)' /\ StepFiles(c)' /\ Touched(c)' = {} /\ \A ops : ~Busy(c, ops)'
  BY <1>6 DEF CmdOK, StepFiles, Touched, Busy, NoCmd
<1>10. Local(c) /\ QueueOK' /\ FilesOK'
  BY <1>1, <1>6, QueueKept DEF Local, SameClient, StoreInv, FilesOK
<1>11. ~(cmd'[c].pc = "done")
  BY <1>6 DEF NoCmd
\* What the client has is well formed, it takes no new group, and its files are as they should be.
<1> DEFINE Good(m) ==
      /\ DOMAIN m = {"gid", "uid", "data", "attr"}
      /\ m.gid \in {0, Shared} \cup Groups /\ m.uid \in {0} \cup Uids
      /\ m.data \in [1 .. Units -> Values] /\ m.attr \in {0} \cup AttrValues
      /\ m.uid = 0 => m.attr = 0
      /\ m.uid # 0 => m.gid # 0 /\ (m.gid = Shared => m.uid = UidOf[c])
      /\ \A g \in Groups : m.gid = g => Owns(c, g)
      /\ m.gid = Shared => UsesShared(c)
      /\ m.uid = 0 => NoFile(c)
      /\ m.uid # 0 =>
           /\ Only(c, m.gid, m.uid)
           /\ file[<<m.gid, m.uid, "data">>] # NoInode
           /\ \A k \in 1 .. Units : m.data[k] = Unit(<<m.gid, m.uid, "data">>, k)
           /\ m.attr # 0 => Holds(<<m.gid, m.uid, "attr">>, <<m.attr>>)
<1>12. Good(n)
  <2>0. r.pc = "done" /\ r # NoCmd
    BY <1>1, <1>2, <1>4 DEF Shaped
  <2>1. CASE r.op = "create_group"
    <3>1. /\ o.gid = 0 /\ o.uid = 0
          /\ r.gid \in {0, Shared} /\ (IF r.gid = 0 THEN r.answer.id \in Groups ELSE r.answer.id = Shared)
      BY <1>2, <1>3, <1>4, <2>0, <2>1 DEF CmdOK
    <3>2. n = [o EXCEPT !.gid = r.answer.id]
      BY <1>5, <2>1 DEF Returned
    <3>3. n.gid = r.answer.id /\ n.uid = 0 /\ n.data = o.data /\ n.attr = 0
          /\ DOMAIN n = {"gid", "uid", "data", "attr"}
      BY <1>7, <3>1, <3>2
    <3>4. NoFile(c)
      BY <1>2, <1>3, <1>4, <2>1, <3>1 DEF ClientFiles, Busy
    <3>5. \A g \in Groups : n.gid = g => Owns(c, g)
      BY <1>4, <2>0, <2>1, <3>3 DEF Owns
    <3>6. n.gid = Shared => UsesShared(c)
      BY <1>4, <2>0, <2>1, <3>1, <3>3, StoreAssumption DEF UsesShared
    <3>7. n.gid \in {0, Shared} \cup Groups
      BY <3>1, <3>3
    <3> QED BY <1>7, <3>3, <3>4, <3>5, <3>6, <3>7
  <2>2. CASE r.op = "remove_group"
    <3>1. o.uid = 0
      BY <1>2, <1>3, <1>4, <2>0, <2>2 DEF CmdOK
    <3>2. n = NoObject
      BY <1>5, <2>2 DEF Returned
    <3>3. n.gid = 0 /\ n.uid = 0 /\ n.data = Zeros /\ n.attr = 0
          /\ DOMAIN n = {"gid", "uid", "data", "attr"}
      BY <3>2 DEF NoObject
    <3>4. NoFile(c)
      BY <1>2, <1>3, <1>4, <2>2, <3>1 DEF ClientFiles, Busy
    <3>5. 0 \notin Groups /\ 0 # Shared
      BY StoreAssumption
    <3> QED BY <1>8, <3>3, <3>4, <3>5
  <2>3. CASE r.op = "create"
    <3>1. /\ o.gid # 0 /\ o.uid = 0 /\ r.gid = o.gid /\ r.set \in {0} \cup AttrValues
          /\ (o.gid = Shared => r.uid = UidOf[c]) /\ r.uid \in Uids /\ r.answer.id = r.uid
      BY <1>2, <1>3, <1>4, <2>0, <2>3 DEF CmdOK, Made
    <3>2. n = [o EXCEPT !.uid = r.answer.id, !.data = Zeros, !.attr = r.set]
      BY <1>5, <2>3 DEF Returned
    <3>3. n.gid = r.gid /\ n.uid = r.uid /\ n.data = Zeros /\ n.attr = r.set
          /\ DOMAIN n = {"gid", "uid", "data", "attr"}
      BY <1>7, <3>1, <3>2
    <3>4. r.uid # 0
      BY <3>1, StoreAssumption
    <3>5. CreateFiles(c)
      BY <1>2, <1>4, <2>0, <2>3 DEF ClientFiles, Busy
    <3>6. PICK D : D = Data(c)
      OBVIOUS
    <3>7. D = <<n.gid, n.uid, "data">> /\ Attr(c) = <<n.gid, n.uid, "attr">>
      BY <1>4, <3>3, <3>6 DEF Data, Attr
    <3>8. Only(c, n.gid, n.uid) /\ Holds(D, <<>>) /\ (n.attr # 0 => Holds(Attr(c), <<n.attr>>))
      BY <1>4, <2>0, <3>3, <3>5, <3>6 DEF CreateFiles, Made
    <3>9. \A k \in 1 .. Units : n.data[k] = Unit(D, k)
      <4>1. Content(D) = <<>> /\ \A k \in 1 .. Units : ~(k <= Len(<<>>))
        BY <1>8, <3>8 DEF Holds
      <4> QED BY <1>8, <3>3, <4>1 DEF Unit
    <3>10. \A g \in Groups : n.gid = g => Owns(c, g)
      BY <1>3, <1>4, <2>3, <3>1, <3>3 DEF Owns
    <3>11. n.gid = Shared => UsesShared(c)
      BY <1>3, <3>1, <3>3 DEF UsesShared
    <3>12. file[D] # NoInode
      BY <3>8 DEF Holds
    <3> QED BY <1>7, <1>8, <3>1, <3>3, <3>4, <3>7, <3>8, <3>9, <3>10, <3>11, <3>12
  <2>4. CASE r.op \in ObjectOps
    <3>1. /\ ObjectFiles(c) /\ StepFiles(c) /\ o.uid # 0 /\ r.gid = o.gid /\ r.uid = o.uid
          /\ Data(c) = <<o.gid, o.uid, "data">> /\ Attr(c) = <<o.gid, o.uid, "attr">>
      BY <1>1, <1>3, <1>4, <2>4, OnObject
    <3>2. \A m : m.gid = o.gid => /\ \A g \in Groups : m.gid = g => Owns(c, g)
                                  /\ m.gid = Shared => UsesShared(c)
      BY <1>3, <1>4, <2>4 DEF Owns, UsesShared, ObjectOps
    <3>3. PICK D : D = Data(c)
      OBVIOUS
    <3>4. PICK A : A = Attr(c)
      OBVIOUS
    <3>5. D = <<o.gid, o.uid, "data">> /\ A = <<o.gid, o.uid, "attr">>
      BY <3>1, <3>3, <3>4
    <3>6. Only(c, o.gid, o.uid)
      BY <1>3, <3>1 DEF ObjectFiles
    <3>7. r.op # "remove" => /\ file[D] # NoInode
                             /\ \A k \in (1 .. Units) \ Touched(c) : o.data[k] = Unit(D, k)
                             /\ o.attr # 0 /\ r.op # "set_attr" => Holds(A, <<o.attr>>)
      BY <1>3, <1>4, <3>1, <3>5 DEF ObjectFiles, Busy
    <3>8. r.op # "write" => Touched(c) = {}
      BY <1>4 DEF Touched
    <3>9. CASE r.op \in {"read", "get_attr"}
      <4>1. n = o
        BY <1>5, <3>9 DEF Returned
      <4> QED BY <1>7, <3>1, <3>2, <3>5, <3>6, <3>7, <3>8, <3>9, <4>1
    <3>10. CASE r.op = "set_attr"
      <4>1. n = [o EXCEPT !.attr = r.set]
        BY <1>5, <3>10 DEF Returned
      <4>2. n.gid = o.gid /\ n.uid = o.uid /\ n.data = o.data /\ n.attr = r.set
            /\ DOMAIN n = {"gid", "uid", "data", "attr"}
        BY <1>7, <4>1
      <4>3. r.set \in AttrValues
        BY <1>2, <1>3, <1>4, <2>0, <3>10 DEF CmdOK
      <4>4. Holds(A, <<r.set>>)
        BY <1>4, <2>0, <3>1, <3>4, <3>10 DEF StepFiles
      <4> QED BY <1>7, <3>1, <3>2, <3>5, <3>6, <3>7, <3>8, <3>10, <4>2, <4>3, <4>4
    <3>11. CASE r.op = "remove"
      <4>1. n = [NoObject EXCEPT !.gid = o.gid]
        BY <1>5, <3>11 DEF Returned
      <4>2. n.gid = o.gid /\ n.uid = 0 /\ n.data = Zeros /\ n.attr = 0
            /\ DOMAIN n = {"gid", "uid", "data", "attr"}
        BY <4>1 DEF NoObject
      <4>3. NoFile(c)
        BY <1>4, <2>0, <3>1, <3>11 DEF StepFiles
      <4> QED BY <1>7, <1>8, <3>2, <4>2, <4>3
    <3>12. CASE r.op = "write"
      <4>1. PICK data : data = Written(o.data, r.off, r.len, r.unit)
        OBVIOUS
      <4>2. n = [o EXCEPT !.data = data]
        BY <1>5, <3>12, <4>1 DEF Returned
      <4>3. n.gid = o.gid /\ n.uid = o.uid /\ n.data = data /\ n.attr = o.attr
            /\ DOMAIN n = {"gid", "uid", "data", "attr"}
        BY <1>7, <4>2
      <4>4. /\ r.off \in Nat /\ r.len \in Nat \ {0} /\ r.off + r.len <= Units /\ r.unit \in Values
            /\ Touched(c) = r.off + 1 .. r.off + r.len
        BY <1>2, <1>3, <1>4, <2>0, <3>12 DEF CmdOK, Values, Touched
      <4>5. o.data \in Seq(Values) /\ Len(o.data) = Units
        BY <1>7, <1>8
      <4>6. /\ data \in Seq(Values) /\ Len(data) = Units
            /\ UnitsAfter(data, o.data, r.off, r.len, r.unit)
        <5>1. PICK old : old = o.data
          OBVIOUS
        <5>2. PICK off : off = r.off
          OBVIOUS
        <5>3. PICK len : len = r.len
          OBVIOUS
        <5>4. PICK unit : unit = r.unit
          OBVIOUS
        <5>5. /\ old \in Seq(Values) /\ Len(old) = Units /\ Len(old) <= Units
              /\ off \in Nat /\ len \in Nat \ {0} /\ off + len <= Units /\ unit \in Values
          BY <1>8, <4>4, <4>5, <5>1, <5>2, <5>3, <5>4
        <5>6. data = Written(old, off, len, unit)
          BY <4>1, <5>1, <5>2, <5>3, <5>4
        <5> QED BY <5>1, <5>2, <5>3, <5>4, <5>5, <5>6, WrittenProperties
      <4>7. \A k \in 1 .. Units : UnitOf(data, k) = data[k] /\ UnitOf(o.data, k) = o.data[k]
        BY <1>8, <4>5, <4>6 DEF UnitOf
      <4>8. \A k \in Touched(c) : Unit(D, k) = r.unit
        BY <1>4, <2>0, <3>1, <3>3, <3>12 DEF StepFiles
      <4>9. \A k \in 1 .. Units : data[k] = Unit(D, k)
        BY <3>7, <3>12, <4>4, <4>6, <4>7, <4>8 DEF UnitsAfter
      <4>10. data \in [1 .. Units -> Values]
        BY <1>8, <4>6
      <4> QED BY <1>7, <3>1, <3>2, <3>5, <3>6, <3>7, <3>12, <4>3, <4>9, <4>10
    <3> QED BY <2>4, <3>9, <3>10, <3>11, <3>12 DEF ObjectOps
  <2> QED BY <1>2, <1>4, <2>0, <2>1, <2>2, <2>3, <2>4 DEF CmdOK, ObjectOps
<1>13. /\ \A g \in Groups : Owns(c, g)' => Owns(c, g)
       /\ UsesShared(c)' => UsesShared(c)
  BY <1>6, <1>11, <1>12 DEF Owns, UsesShared
<1>14. SameGroups(c)
  BY <1>1, <1>13 DEF SameGroups
<1>15. Mine(c)' \subseteq Mine(c)
  <2>1. \A p \in Paths : Owns(c, p[1])' => p[1] \in Groups
    BY DEF Owns
  <2> QED BY <1>13, <2>1 DEF Mine
<1>16. OwnOK(c)'
  BY <1>6, <1>12 DEF OwnOK
<1>17. ClientFiles(c)'
  <2>1. NoFile(c) => NoFile(c)'
    BY <1>1, <1>15 DEF NoFile
  <2>2. \A g, u : Only(c, g, u) => Only(c, g, u)'
    BY <1>1, <1>15 DEF Only
  <2>3. \A p : \A k : Unit(p, k)' = Unit(p, k)
    BY <1>1 DEF Unit, Content
  <2>4. \A p, s : Holds(p, s)' <=> Holds(p, s)
    BY <1>1 DEF Holds, Content
  <2>5. n.uid # 0 => ObjectFiles(c)'
    BY <1>1, <1>6, <1>12, <2>2, <2>3, <2>4 DEF ObjectFiles
  <2> QED BY <1>6, <1>9, <1>12, <2>1, <2>5 DEF ClientFiles
<1> QED BY <1>1, <1>9, <1>10, <1>14, <1>16, <1>17, LocalStep DEF Client

-----------------------------------------------------------------------------
(***************************************************************************)
(* Groups come and go                                                        *)
(***************************************************************************)

LEMMA CreateGroupStep ==
  ASSUME NamesApart, StoreInv, NEW c \in Clients, CreateGroup(c)
  PROVE  StoreInv'
<1>1. /\ cmd[c].pc = "call" /\ cmd[c].op = "create_group"
      /\ UNCHANGED <<own, queue, file, disk, exited>>
  BY DEF CreateGroup, Step
<1>2. PICK g \in NewGroup(cmd[c].gid) : groups' = groups \cup {g} /\ Answer(c, "id", g)
  BY DEF CreateGroup
<1>3. Shaped(c) /\ OwnOK(c) /\ CmdOK(c) /\ ClientFiles(c)
  BY <1>1, InProgress
<1>4. own[c].gid = 0 /\ own[c].uid = 0 /\ cmd[c].gid \in {0, Shared}
  BY <1>1, <1>3 DEF CmdOK, Shaped
<1>5. IF cmd[c].gid = 0 THEN g \in Groups \ groups ELSE g = Shared
  BY <1>2, <1>4 DEF NewGroup
<1>6. 0 \notin Groups /\ Shared \notin Groups /\ 0 # Shared
  BY StoreAssumption
<1>7. Goes(c, "done") /\ cmd'[c].uid = cmd[c].uid /\ cmd'[c].answer.id = g
  BY <1>2, <1>3, AnswerGoes DEF AnswerFields
<1>8. /\ DOMAIN cmd' = Clients /\ \A d \in Clients \ {c} : cmd'[d] = cmd[d]
      /\ cmd'[c].pc = "done" /\ cmd'[c].op = "create_group" /\ cmd'[c].gid = cmd[c].gid
      /\ DOMAIN cmd'[c] = CmdFields /\ DOMAIN cmd'[c].answer = AnswerFields
  BY <1>1, <1>7 DEF Goes
<1>9. QueueOK' /\ Local(c)
  BY <1>1, <1>8, QueueKept DEF Local, SameClient, StoreInv
<1>10. \A d \in Clients \ {c} : Client(d)'
  BY <1>9, OthersKept
<1>11. \A d \in Clients \ {c} : (UsesShared(d)' <=> UsesShared(d)) /\ \A h : Owns(d, h)' <=> Owns(d, h)
  BY <1>1, <1>8 DEF UsesShared, Owns
<1>12. \A h : Owns(c, h)' <=> h \in Groups /\ h = g
  BY <1>1, <1>4, <1>6, <1>7, <1>8 DEF Owns
<1>13. g \in Groups => g \notin groups
  BY <1>5, <1>6
<1>14. NoFile(c)'
  <2> SUFFICES ASSUME NEW p \in Paths, p \in Mine(c)' PROVE file[p] = NoInode
    BY <1>1 DEF NoFile, Mine
  <2>1. CASE p[1] = Shared /\ p[2] = UidOf[c]
    <3>1. p \in Mine(c) /\ NoFile(c)
      BY <1>1, <1>3, <1>4, <2>1 DEF Mine, ClientFiles, Busy
    <3> QED BY <3>1 DEF NoFile
  <2>2. CASE Owns(c, p[1])'
    <3>1. p[1] \notin groups
      BY <1>12, <1>13, <2>2
    <3> QED BY <3>1 DEF StoreInv, FilesOK
  <2> QED BY <2>1, <2>2 DEF Mine
<1>15. Client(c)'
  <2>1. OwnOK(c)'
    BY <1>1, <1>3 DEF OwnOK
  <2>2. CmdOK(c)'
    <3>1. own' = own
      BY <1>1
    <3>2. IF cmd'[c].gid = 0 THEN cmd'[c].answer.id \in Groups ELSE cmd'[c].answer.id = Shared
      BY <1>5, <1>7, <1>8
    <3> QED BY <1>4, <1>8, <3>1, <3>2 DEF CmdOK
  <2>3. StepFiles(c)'
    BY <1>8 DEF StepFiles
  <2>4. ClientFiles(c)'
    BY <1>1, <1>4, <1>8, <1>14, <2>3 DEF ClientFiles, Busy
  <2> QED BY <2>1, <2>2, <2>4 DEF Client
<1>16. FilesOK'
  <2>1. groups' \subseteq Groups \cup {Shared}
    BY <1>2, <1>5 DEF StoreInv, FilesOK
  <2> QED BY <1>1, <1>2, <2>1 DEF StoreInv, FilesOK
<1>17. GroupsOK'
  <2>1. \A d \in Clients : UsesShared(d)' => Shared \in groups'
    <3>1. UsesShared(c)' => Shared \in groups'
      BY <1>1, <1>2, <1>4, <1>5, <1>6, <1>8 DEF UsesShared
    <3> QED BY <1>2, <1>11, <3>1 DEF StoreInv, GroupsOK
  <2>2. \A d \in Clients, h \in Groups : Owns(d, h)' => h \in groups'
    BY <1>2, <1>11, <1>12 DEF StoreInv, GroupsOK
  <2>3. \A d, e \in Clients, h \in Groups : Owns(d, h)' /\ Owns(e, h)' => d = e
    BY <1>11, <1>12, <1>13 DEF StoreInv, GroupsOK
  <2>4. \A p \in Paths : file'[p] # NoInode /\ p[1] = Shared => \E d \in Clients : p[2] = UidOf[d]
    BY <1>1 DEF StoreInv, GroupsOK
  <2> QED BY <2>1, <2>2, <2>3, <2>4 DEF GroupsOK
<1> QED BY <1>1, <1>9, <1>10, <1>15, <1>16, <1>17 DEF StoreInv, Local

LEMMA RemoveGroupStep ==
  ASSUME NamesApart, StoreInv, NEW c \in Clients, RemoveGroup(c)
  PROVE  StoreInv'
<1>1. /\ cmd[c].pc = "call" /\ cmd[c].op = "remove_group" /\ UNCHANGED <<own, queue>>
  BY DEF RemoveGroup, Step
<1>2. Shaped(c) /\ OwnOK(c) /\ CmdOK(c) /\ ClientFiles(c)
  BY <1>1, InProgress
<1>3. PICK g : g = cmd[c].gid
  OBVIOUS
<1>4. g \in Groups /\ own[c].gid = g /\ own[c].uid = 0
  BY <1>1, <1>2, <1>3 DEF CmdOK, Shaped
<1>5. Shared \notin Groups
  BY StoreAssumption
<1>6. Owns(c, g) /\ g \in groups
  <2>1. Owns(c, g)
    BY <1>1, <1>4 DEF Owns
  <2> QED BY <1>4, <2>1 DEF StoreInv, GroupsOK
<1>7. NoFile(c)
  BY <1>1, <1>2, <1>4 DEF ClientFiles, Busy
<1>8. \A p \in Paths : p[1] = g => file[p] = NoInode
  BY <1>6, <1>7 DEF NoFile, Mine
<1>9. groups' = groups \ {g} /\ Answer(c, "id", 0) /\ UNCHANGED <<file, disk, exited>>
  BY <1>3, <1>6, <1>8 DEF RemoveGroup
<1>10. Goes(c, "done") /\ cmd'[c].uid = cmd[c].uid
  BY <1>2, <1>9, AnswerGoes DEF AnswerFields
<1>11. /\ DOMAIN cmd' = Clients /\ \A d \in Clients \ {c} : cmd'[d] = cmd[d]
       /\ cmd'[c].pc = "done" /\ cmd'[c].op = "remove_group" /\ cmd'[c].gid = g
       /\ DOMAIN cmd'[c] = CmdFields /\ DOMAIN cmd'[c].answer = AnswerFields
  BY <1>1, <1>3, <1>10 DEF Goes
<1>12. QueueOK' /\ Local(c)
  BY <1>1, <1>9, <1>11, QueueKept DEF Local, SameClient, StoreInv
<1>13. \A d \in Clients \ {c} : Client(d)'
  BY <1>12, OthersKept
<1>14. \A d \in Clients \ {c} : (UsesShared(d)' <=> UsesShared(d)) /\ \A h : Owns(d, h)' <=> Owns(d, h)
  BY <1>1, <1>11 DEF UsesShared, Owns
<1>15. ~UsesShared(c)' /\ \A h : ~Owns(c, h)'
  BY <1>1, <1>4, <1>5, <1>11 DEF UsesShared, Owns
<1>16. Client(c)'
  <2>1. NoFile(c)'
    BY <1>7, <1>9, <1>15 DEF NoFile, Mine
  <2>2. OwnOK(c)'
    BY <1>1, <1>2 DEF OwnOK
  <2>3. CmdOK(c)'
    <3>1. own' = own
      BY <1>1
    <3> QED BY <1>4, <1>11, <3>1 DEF CmdOK
  <2>4. StepFiles(c)'
    BY <1>11 DEF StepFiles
  <2>5. ClientFiles(c)'
    BY <1>1, <1>4, <1>11, <2>1, <2>4 DEF ClientFiles, Busy
  <2> QED BY <2>2, <2>3, <2>5 DEF Client
<1>17. FilesOK'
  <2>1. \A p \in Paths : file'[p] # NoInode => file'[p][1] = p /\ p[1] \in groups'
    BY <1>8, <1>9 DEF StoreInv, FilesOK
  <2> QED BY <1>9, <2>1 DEF StoreInv, FilesOK
<1>18. GroupsOK'
  <2>1. \A d \in Clients : UsesShared(d)' => Shared \in groups'
    BY <1>4, <1>5, <1>9, <1>14, <1>15 DEF StoreInv, GroupsOK
  <2>2. \A d \in Clients, h \in Groups : Owns(d, h)' => h \in groups'
    <3> SUFFICES ASSUME NEW d \in Clients, NEW h \in Groups, Owns(d, h)' PROVE h \in groups'
      OBVIOUS
    <3>1. d # c /\ Owns(d, h)
      BY <1>14, <1>15
    <3>2. h \in groups /\ h # g
      BY <1>6, <3>1 DEF StoreInv, GroupsOK
    <3> QED BY <1>9, <3>2
  <2>3. \A d, e \in Clients, h \in Groups : Owns(d, h)' /\ Owns(e, h)' => d = e
    BY <1>14, <1>15 DEF StoreInv, GroupsOK
  <2>4. \A p \in Paths : file'[p] # NoInode /\ p[1] = Shared => \E d \in Clients : p[2] = UidOf[d]
    BY <1>9 DEF StoreInv, GroupsOK
  <2> QED BY <2>1, <2>2, <2>3, <2>4 DEF GroupsOK
<1> QED BY <1>1, <1>9, <1>12, <1>13, <1>16, <1>17, <1>18 DEF StoreInv, Local

-----------------------------------------------------------------------------
(***************************************************************************)
(* The target dies and is started again                                      *)
(***************************************************************************)

LEMMA Requeued ==
  ASSUME NEW S, IsFiniteSet(S), NEW q \in SetToSeqs(S)
  PROVE  q \in Seq(S) /\ \A i, j \in DOMAIN q : q[i] = q[j] => i = j
<1>1. Cardinality(S) \in Nat
  BY FS_CardinalityType
<1>2. q \in [1 .. Cardinality(S) -> S] /\ \A i, j \in DOMAIN q : q[i] = q[j] => i = j
  BY DEF SetToSeqs, IsInjective
<1> QED BY <1>1, <1>2

LEMMA RestartStep ==
  ASSUME NamesApart, StoreInv, Restart
  PROVE  StoreInv'
<1>1. /\ UNCHANGED <<own, groups, file, disk, exited>> /\ queue' \in SetToSeqs(Outstanding)
      /\ \A c \in Outstanding : Repeatable(c)
      /\ cmd' = [c \in Clients |->
           IF c \notin Outstanding THEN cmd[c]
           ELSE [cmd[c] EXCEPT !.pc = "queued", !.byLun = FALSE, !.inode = NoInode,
                               !.left = {}, !.answer = NoAnswer]]
  BY DEF Restart
<1>2. DOMAIN cmd' = Clients /\ \A c \in Clients \ Outstanding : cmd'[c] = cmd[c]
  BY <1>1
<1>3. ASSUME NEW c \in Outstanding
      PROVE  /\ c \in Clients /\ Shaped(c) /\ OwnOK(c) /\ CmdOK(c) /\ ClientFiles(c) /\ Repeatable(c)
             /\ DOMAIN cmd'[c] = CmdFields /\ DOMAIN cmd'[c].answer = AnswerFields
             /\ cmd'[c].pc = "queued" /\ cmd'[c].op = cmd[c].op /\ cmd'[c].gid = cmd[c].gid
             /\ cmd'[c].uid = cmd[c].uid /\ cmd'[c].set = cmd[c].set /\ cmd'[c].off = cmd[c].off
             /\ cmd'[c].len = cmd[c].len /\ cmd'[c].unit = cmd[c].unit
  <2>1. c \in Clients /\ cmd[c].pc # "idle"
    BY DEF Outstanding
  <2>2. Shaped(c) /\ OwnOK(c) /\ CmdOK(c) /\ ClientFiles(c)
    BY <2>1, InProgress
  <2>3. PICK no \in BOOLEAN : no = FALSE
    OBVIOUS
  <2>4. PICK a : a = NoAnswer
    OBVIOUS
  <2>5. DOMAIN a = AnswerFields
    BY <2>4 DEF NoAnswer, AnswerFields
  <2>6. PICK r : r = [cmd[c] EXCEPT !.pc = "queued", !.byLun = no, !.inode = NoInode,
                                    !.left = {}, !.answer = a]
    OBVIOUS
  <2>7. /\ DOMAIN r = CmdFields /\ r.pc = "queued" /\ r.answer = a
        /\ \A f \in CmdFields \ {"pc", "byLun", "inode", "left", "answer"} : r[f] = cmd[c][f]
    BY <2>2, <2>6 DEF Shaped, CmdFields
  <2>8. cmd'[c] = r
    BY <1>1, <2>1, <2>3, <2>4, <2>6
  <2> QED BY <1>1, <2>1, <2>2, <2>5, <2>7, <2>8 DEF CmdFields
<1>4. QueueOK'
  <2>1. Outstanding \subseteq Clients /\ IsFiniteSet(Outstanding)
    BY StoreAssumption, FS_Subset DEF Outstanding
  <2>2. queue' \in Seq(Outstanding) /\ \A i, j \in DOMAIN queue' : queue'[i] = queue'[j] => i = j
    BY <1>1, <2>1, Requeued
  <2>3. \A i \in DOMAIN queue' : queue'[i] \in Outstanding /\ cmd'[queue'[i]].pc = "queued"
    BY <1>3, <2>2
  <2>4. queue' \in Seq(Clients)
    BY <2>1, <2>2
  <2> QED BY <2>2, <2>3, <2>4 DEF QueueOK
<1>5. \A c \in Clients : UsesShared(c)' => UsesShared(c)
  <2> TAKE c \in Clients
  <2>1. CASE c \in Outstanding
    BY <1>1, <1>3, <2>1 DEF UsesShared
  <2>2. CASE c \notin Outstanding
    BY <1>1, <1>2, <2>2 DEF UsesShared
  <2> QED BY <2>1, <2>2
<1>6. \A c \in Clients : \A g : Owns(c, g)' <=> Owns(c, g)
  <2> TAKE c \in Clients
  <2>1. CASE c \in Outstanding
    <3>1. /\ Shaped(c) /\ CmdOK(c) /\ Repeatable(c) /\ own' = own
          /\ cmd'[c].pc = "queued" /\ cmd'[c].op = cmd[c].op
      BY <1>1, <1>3, <2>1
    <3>2. cmd[c].op # "remove_group" /\ (cmd[c].op = "create_group" => cmd[c].gid # 0)
      BY <3>1 DEF Repeatable
    <3>3. cmd[c].op = "create_group" /\ cmd[c].pc = "done" => cmd[c].answer.id \notin Groups
      BY <3>1, <3>2, StoreAssumption DEF CmdOK, Shaped
    <3> QED BY <3>1, <3>2, <3>3 DEF Owns
  <2>2. CASE c \notin Outstanding
    BY <1>1, <1>2, <2>2 DEF Owns
  <2> QED BY <2>1, <2>2
<1>7. ASSUME NEW c \in Clients PROVE Client(c)'
  <2>1. CASE c \notin Outstanding
    <3>1. SameClient(c) /\ SameFiles(c) /\ Client(c)
      BY <1>1, <1>2, <2>1 DEF SameClient, SameFiles, Content, StoreInv
    <3> QED BY <3>1, ClientFrame
  <2>2. CASE c \in Outstanding
    <3>1. own' = own /\ file' = file /\ disk' = disk
      BY <1>1
    <3>2. /\ Shaped(c) /\ OwnOK(c) /\ CmdOK(c) /\ ClientFiles(c) /\ Repeatable(c)
          /\ DOMAIN cmd'[c] = CmdFields /\ DOMAIN cmd'[c].answer = AnswerFields
          /\ cmd'[c].pc = "queued" /\ cmd'[c].op = cmd[c].op /\ cmd'[c].gid = cmd[c].gid
          /\ cmd'[c].uid = cmd[c].uid /\ cmd'[c].set = cmd[c].set /\ cmd'[c].off = cmd[c].off
          /\ cmd'[c].len = cmd[c].len /\ cmd'[c].unit = cmd[c].unit /\ cmd[c].pc # "idle"
      BY <1>3, <2>2 DEF Outstanding
    <3>3. OwnOK(c)'
      BY <3>1, <3>2 DEF OwnOK
    <3>4. CmdOK(c)'
      <4>1. CASE cmd[c].op \in {"create_group", "remove_group"}
        BY <3>1, <3>2, <4>1 DEF CmdOK, Shaped, Waiting
      <4>2. CASE cmd[c].op = "create"
        BY <3>1, <3>2, <4>2 DEF CmdOK, Shaped, Waiting, Made, Repeatable
      <4>3. CASE cmd[c].op \notin {"create_group", "remove_group", "create"}
        BY <3>1, <3>2, <4>3 DEF CmdOK, Shaped, Waiting
      <4> QED BY <4>1, <4>2, <4>3
    <3>5. /\ Mine(c)' = Mine(c) /\ Touched(c)' = Touched(c) /\ \A ops : Busy(c, ops)' <=> Busy(c, ops)
      BY <1>6, <3>2 DEF Mine, Touched, Busy
    <3>6. /\ NoFile(c)' <=> NoFile(c)
          /\ \A g, u : Only(c, g, u)' <=> Only(c, g, u)
          /\ \A p, s : Holds(p, s)' <=> Holds(p, s)
          /\ \A p, k : Unit(p, k)' = Unit(p, k)
      BY <3>1, <3>5 DEF NoFile, Only, Holds, Content, Unit
    <3>7. own[c].uid # 0 => ObjectFiles(c)'
      <4> SUFFICES ASSUME own[c].uid # 0 PROVE ObjectFiles(c)'
        OBVIOUS
      <4>1. ObjectFiles(c)
        BY <3>2 DEF ClientFiles
      <4> QED BY <3>1, <3>5, <3>6, <4>1 DEF ObjectFiles
    <3>8. Busy(c, {"create"}) => CreateFiles(c)'
      <4> SUFFICES ASSUME Busy(c, {"create"}) PROVE CreateFiles(c)'
        OBVIOUS
      <4>1. own'[c].gid = Shared
        BY <3>1, <3>2 DEF Busy, Repeatable
      <4> QED BY <3>2, <4>1 DEF CreateFiles, Made
    <3>9. StepFiles(c)'
      BY <3>2 DEF StepFiles
    <3>10. ClientFiles(c)'
      BY <3>1, <3>2, <3>5, <3>6, <3>7, <3>8, <3>9 DEF ClientFiles
    <3> QED BY <3>3, <3>4, <3>10 DEF Client
  <2> QED BY <2>1, <2>2
<1>8. FilesOK'
  BY <1>1 DEF StoreInv, FilesOK
<1>9. GroupsOK'
  BY <1>1, <1>5, <1>6 DEF StoreInv, GroupsOK
<1> QED BY <1>1, <1>2, <1>4, <1>7, <1>8, <1>9 DEF StoreInv

-----------------------------------------------------------------------------
(***************************************************************************)
(* The theorems                                                              *)
(***************************************************************************)

LEMMA StoreUnchanged ==
  ASSUME StoreInv, UNCHANGED vars
  PROVE  StoreInv'
<1>1. UNCHANGED <<own, cmd, queue, groups, file, disk, exited>>
  BY DEF vars
<1>2. ASSUME NEW c \in Clients PROVE Client(c)'
  <2>1. SameClient(c) /\ SameFiles(c) /\ Client(c)
    BY <1>1 DEF SameClient, SameFiles, Content, StoreInv
  <2> QED BY <2>1, ClientFrame
<1>3. QueueOK' /\ FilesOK'
  BY <1>1 DEF StoreInv, QueueOK, FilesOK
<1>4. GroupsOK'
  BY <1>1 DEF StoreInv, GroupsOK, UsesShared, Owns
<1> QED BY <1>1, <1>2, <1>3, <1>4 DEF StoreInv

LEMMA StoreInit ==
  ASSUME Init
  PROVE  StoreInv
<1>1. /\ DOMAIN own = Clients /\ DOMAIN cmd = Clients /\ ~exited /\ queue = <<>> /\ groups = {}
      /\ \A c \in Clients : own[c] = NoObject /\ cmd[c] = NoCmd
      /\ file = [p \in Paths |-> NoInode] /\ disk = [i \in Inodes |-> <<>>]
  BY DEF Init
<1>2. /\ NoObject.gid = 0 /\ NoObject.uid = 0 /\ NoObject.data = Zeros /\ NoObject.attr = 0
      /\ DOMAIN NoObject = {"gid", "uid", "data", "attr"} /\ NoCmd.pc = "idle"
  BY DEF NoObject, NoCmd
<1>3. 0 \in Values /\ Units \in Nat /\ Zeros \in [1 .. Units -> Values] /\ 0 \notin Groups /\ 0 # Shared
  BY StoreAssumption DEF Values, Zeros
<1>4. QueueOK
  BY <1>1 DEF QueueOK
<1>5. FilesOK
  <2>1. <<>> \in Seq(Values) /\ Len(<<>>) = 0 /\ 0 <= Units
    BY <1>3
  <2>2. disk \in [Inodes -> Seq(Values)] /\ \A i \in Inodes : Len(disk[i]) <= Units
    BY <1>1, <2>1
  <2> QED BY <1>1, <2>2 DEF FilesOK
<1>6. \A c \in Clients : ~UsesShared(c) /\ \A g : ~Owns(c, g)
  BY <1>1, <1>2, <1>3 DEF UsesShared, Owns
<1>7. GroupsOK
  BY <1>1, <1>6 DEF GroupsOK
<1>8. ASSUME NEW c \in Clients PROVE Client(c)
  <2>1. own[c] = NoObject /\ cmd[c] = NoCmd
    BY <1>1
  <2>2. OwnOK(c)
    BY <1>2, <1>3, <2>1 DEF OwnOK
  <2>3. CmdOK(c)
    BY <2>1 DEF CmdOK
  <2>4. NoFile(c)
    BY <1>1 DEF NoFile, Mine
  <2>5. StepFiles(c)
    BY <1>2, <2>1 DEF StepFiles
  <2> QED BY <1>2, <2>1, <2>2, <2>3, <2>4, <2>5 DEF Client, ClientFiles, Busy
<1> QED BY <1>1, <1>4, <1>5, <1>7, <1>8 DEF StoreInv

LEMMA StoreNext ==
  ASSUME NamesApart, StoreInv, [Next]_vars
  PROVE  StoreInv'
<1>1. ASSUME NEW c \in Clients, exec_upper(c) PROVE StoreInv'
  BY <1>1, CreateGroupStep, RemoveGroupStep, CreateStep, ListStep, UnlinkStep, OpenStep, WriteStep,
     ReadStep, OpenAttrStep, SetAttrStep, LookUpStep, GetAttrStep DEF exec_upper
<1>2. CASE UNCHANGED vars
  BY <1>2, StoreUnchanged
<1>3. CASE Next
  BY <1>1, <1>3, CallStep, PlacedData, ReturnStep, LunStep, RestartStep DEF Next
<1> QED BY <1>2, <1>3

\* Where no client's name begins with another's, the invariant holds.
LEMMA StoreAlways ==
  ASSUME NamesApart
  PROVE  Spec => []StoreInv
<1>1. Init => StoreInv
  BY StoreInit
<1>2. StoreInv /\ [Next]_vars => StoreInv'
  BY StoreNext
<1> QED BY <1>1, <1>2, PTL DEF Spec

\* An object and its attribute hold what their owner's calls put there, however the system calls
\* of several commands interleave and however often a command comes again after a crash
\* (osd.c:473-575).
THEOREM ObjectsKept ==
  ASSUME NamesApart
  PROVE  Spec => []ObjectKept
<1>1. StoreInv => ObjectKept
  <2> SUFFICES ASSUME StoreInv PROVE ObjectKept
    OBVIOUS
  <2>1. TypeOK
    BY DEF StoreInv, FilesOK, TypeOK
  <2>2. ASSUME NEW c \in Clients, own[c].uid # 0, ~Busy(c, {"remove"})
        PROVE  /\ file[<<own[c].gid, own[c].uid, "data">>] # NoInode
               /\ \A k \in (1 .. Units) \ Touched(c) :
                    own[c].data[k] = Unit(<<own[c].gid, own[c].uid, "data">>, k)
               /\ own[c].attr # 0 /\ ~Busy(c, {"set_attr"}) =>
                    Holds(<<own[c].gid, own[c].uid, "attr">>, <<own[c].attr>>)
    <3>1. ObjectFiles(c)
      BY <2>2 DEF StoreInv, Client, ClientFiles
    <3> QED BY <2>2, <3>1 DEF ObjectFiles
  <2> QED BY <2>1, <2>2 DEF ObjectKept, Unit, Holds, Content
<1> QED BY <1>1, StoreAlways, PTL

\* A call returns what its caller's earlier calls lead it to expect, a group that nobody else
\* has among it (osd_ops.c:135-177, 298-431).
THEOREM AnswersRight ==
  ASSUME NamesApart
  PROVE  Spec => []RightAnswers
<1>1. StoreInv => RightAnswers
  <2> SUFFICES ASSUME StoreInv, NEW c \in Clients, cmd[c].pc = "done"
               PROVE  /\ cmd[c].op = "read" => cmd[c].answer.data = own[c].data
                      /\ cmd[c].op = "get_attr" => cmd[c].answer.attr = own[c].attr
                      /\ cmd[c].op = "create_group" /\ cmd[c].gid = 0 =>
                           \A d \in Clients \ {c} :
                             own[d].gid = cmd[c].answer.id => Busy(d, {"remove_group"})
    BY DEF RightAnswers
  <2>1. Shaped(c) /\ CmdOK(c) /\ StepFiles(c)
    BY InProgress DEF ClientFiles
  <2>2. ASSUME cmd[c].op = "create_group", cmd[c].gid = 0,
               NEW d \in Clients \ {c}, own[d].gid = cmd[c].answer.id
        PROVE  Busy(d, {"remove_group"})
    <3>1. cmd[c].answer.id \in Groups /\ Owns(c, cmd[c].answer.id)
      BY <2>1, <2>2 DEF CmdOK, Shaped, Owns
    <3>2. ~Owns(d, cmd[c].answer.id)
      BY <3>1 DEF StoreInv, GroupsOK
    <3> QED BY <2>2, <3>1, <3>2 DEF Owns, Busy
  <2> QED BY <2>1, <2>2 DEF StepFiles
<1> QED BY <1>1, StoreAlways, PTL

\* REMOVE leaves no file of the object behind (osd.c:459-467).
THEOREM RemovedIsGone ==
  ASSUME NamesApart
  PROVE  Spec => []NothingLeft
<1>1. StoreInv => NothingLeft
  <2> SUFFICES ASSUME StoreInv, NEW c \in Clients, own[c].uid = 0,
                      ~Busy(c, {"create", "remove_group"}), NEW p \in Paths, file[p] # NoInode
               PROVE  IF own[c].gid = Shared THEN p[2] # UidOf[c] \/ p[1] # Shared ELSE p[1] # own[c].gid
    BY DEF NothingLeft
  <2>1. p \notin Mine(c)
    BY DEF StoreInv, Client, ClientFiles, Busy, NoFile
  <2>2. p[1] \in Groups \cup {Shared}
    BY DEF Paths
  <2>3. \A g \in Groups : own[c].gid = g => Owns(c, g)
    BY DEF Owns, Busy
  <2> QED BY <2>1, <2>2, <2>3 DEF Mine
<1> QED BY <1>1, StoreAlways, PTL

\* Clients that use only what they created do not make the device give up (osd.c:821-829).
THEOREM DeviceStays ==
  ASSUME NamesApart
  PROVE  Spec => []NeverExits
<1>1. StoreInv => NeverExits
  BY DEF StoreInv, NeverExits
<1> QED BY <1>1, StoreAlways, PTL
=============================================================================

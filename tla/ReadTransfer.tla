---------------------------- MODULE ReadTransfer ----------------------------
(***************************************************************************)
(* The data path of SCSI commands with input data: device_command and        *)
(* command_done of the disk (disk-alpha.c), device_command_done of the       *)
(* target (target.c), the socket and scatter-gather layer (util.c) with its   *)
(* partial reads and writes, and scsi_read_data_i and scsi_response_i of the  *)
(* initiator (initiator.c).                                                  *)
(*                                                                           *)
(* Every command has a LUN worker.  A unit of data stands for two bytes: the  *)
(* padding of the socket layer makes the amount of data even in units, and a  *)
(* block has BlockLen of them.                                               *)
(***************************************************************************)
EXTENDS ScatterGather

CONSTANTS
    Cmds,       \* the commands
    Requests,   \* what a command may ask for
    Segs,       \* values of MaxRecvDataSegmentLength, in units; 0 sets no limit
    DiskTypes,  \* subset of {"ram", "fs", "raw", "sg"}
    IoErrors,   \* commands whose ioctl on an SG disk may fail
    NumLuns,    \* g_disk_num_luns
    NumBlocks,  \* g_disk_num_blocks
    MaxBurst,   \* CONFIG_DISK_MAX_BURST, in units
    NStaging,   \* CONFIG_LUN_QUEUE_DEPTH: staging buffers of a LUN
    MayBreak    \* whether the connection may break

BlockLen == 2
Align == 2      \* ISCSI_SOCK_MSG_BYTE_ALIGN

\* No buffer is NULL, a list has as much room as is asked for, and TEST_UNIT_READY asks
\* for nothing (driver.c:889).
ASSUME RequestsAssumption ==
    \A r \in Requests :
        /\ r.op \in {"READ_6", "READ_10", "INQUIRY", "TEST_UNIT_READY", "other"}
        /\ {r.lun, r.lba, r.len, r.transLen} \subseteq Nat
        /\ r.list \in Seq([base : Nat \ {0}, len : Nat])
        /\ r.op = "TEST_UNIT_READY" => r.transLen = 0
        /\ r.list # <<>> => Total(Window(r.list)) = r.transLen
ASSUME ConstantsAssumption ==
    /\ IsFiniteSet(Cmds) /\ "none" \notin Cmds /\ IoErrors \subseteq Cmds
    /\ Segs \subseteq Nat /\ MayBreak \in BOOLEAN
    /\ DiskTypes \subseteq {"ram", "fs", "raw", "sg"}
    /\ {NumLuns, NumBlocks, MaxBurst, NStaging} \subseteq Nat \ {0}

None == "none"

VARIABLES
    seg, disk,  \* the session's segment length and the disk's type
    req,        \* the request that each command makes
    ini,        \* ISCSI_SCSI_CMD_T of the initiator
    mem,        \* what was stored in the initiator's buffers
    rx,         \* read of data the rx thread is at: <<>> or <<read>>
    stream,     \* headers and units on the way to the initiator
    up,         \* the connection
    dev,        \* TARGET_CMD_T and where its worker is
    stats,      \* command that holds g_device_stats[lun].lock, by LUN
    slock,      \* command that holds sess->slock
    staging,    \* free staging buffers, by LUN
    exited      \* the target's process has exited

iniVars == <<ini, mem, rx>>
vars == <<seg, disk, req, iniVars, stream, up, dev, stats, slock, staging, exited>>

Luns == {r.lun : r \in Requests}
Idle == [at |-> "idle", status |-> 0, length |-> 0, fromdev |-> FALSE, buf |-> FALSE,
         off |-> 0, win |-> Window(<<>>), sn |-> 0]

Init ==
    /\ seg \in Segs /\ disk \in DiskTypes
    /\ req \in [Cmds -> Requests]
    /\ ini = [c \in Cmds |-> [status |-> None, bytes |-> 0, pdus |-> 0, sn |-> 0,
                        list |-> req[c].list]]
    /\ mem = {} /\ rx = <<>> /\ stream = <<>> /\ up = TRUE
    /\ dev = [c \in Cmds |-> Idle]
    /\ stats = [l \in Luns |-> None] /\ slock = None
    /\ staging = [l \in Luns |-> NStaging]
    /\ exited = FALSE

\* The command reaches the target, and a worker of its LUN takes it.
Issue(c) ==
    /\ up /\ ini[c].status = None
    /\ ini' = [ini EXCEPT ![c].status = "pending"]
    /\ dev' = [dev EXCEPT ![c].at = "execute"]
    /\ UNCHANGED <<seg, disk, req, mem, rx, stream, up, stats, slock, staging, exited>>

-----------------------------------------------------------------------------
(***************************************************************************)
(* The disk                                                                  *)
(***************************************************************************)

\* The length in the CDB of READ_6: 0 stands for 256 blocks
Blocks(r) == IF r.op = "READ_6" /\ r.len = 0 THEN 256 ELSE r.len

\* disk_read: the arguments that it accepts
InRange(r) ==
    /\ Blocks(r) # 0
    /\ r.lba < NumBlocks /\ r.lba + Blocks(r) <= NumBlocks
    /\ Blocks(r) * BlockLen <= MaxBurst

Staged == disk \in {"raw", "sg"}
IsRead(r) == r.op \in {"READ_6", "READ_10"} /\ r.lun < NumLuns
FromDev(length) == [status |-> 0, length |-> length, fromdev |-> TRUE]
NoData(status) == [status |-> status, length |-> 0, fromdev |-> FALSE]

\* device_command, other than reads: status and length of the input data
Control(r) ==
    IF r.op = "INQUIRY" THEN FromDev(r.transLen)
    ELSE IF r.lun >= NumLuns THEN NoData(1)
    ELSE IF r.op = "TEST_UNIT_READY" THEN NoData(0)
    ELSE NoData(2)

\* The worker goes on to command_done with this outcome.
Executed(c, o, buf) ==
    dev' = [dev EXCEPT ![c].at = "done", ![c].status = o.status, ![c].length = o.length,
                       ![c].fromdev = o.fromdev, ![c].buf = buf]

ExecuteControl(c) ==
    /\ ~exited /\ dev[c].at = "execute" /\ ~IsRead(req[c])
    /\ Executed(c, Control(req[c]), FALSE)
    /\ UNCHANGED <<seg, disk, req, iniVars, stream, up, stats, slock, staging, exited>>

\* read_allocate_space has the data in memory, for some disks in a staging buffer.
ExecuteRead(c) ==
    LET r == req[c] IN
    /\ ~exited /\ dev[c].at = "execute" /\ IsRead(r) /\ InRange(r)
    /\ Staged => staging[r.lun] > 0
    /\ Executed(c, FromDev(Blocks(r) * BlockLen), Staged)
    /\ staging' = [staging EXCEPT ![r.lun] = IF Staged THEN @ - 1 ELSE @]
    /\ UNCHANGED <<seg, disk, req, iniVars, stream, up, stats, slock, exited>>

\* disk_read fails: the process exits for READ_10, and READ_6 gets a status.  A
\* staging buffer that the failing ioctl was to fill is not in gather_list.
ExecuteReadFails(c) ==
    LET r == req[c] IN
    /\ ~exited /\ dev[c].at = "execute" /\ IsRead(r)
    /\ \E taken \in BOOLEAN :
         /\ IF taken
            THEN InRange(r) /\ disk = "sg" /\ c \in IoErrors /\ staging[r.lun] > 0
            ELSE InRange(r) => Staged /\ staging[r.lun] = 0
         /\ staging' = [staging EXCEPT ![r.lun] = IF taken THEN @ - 1 ELSE @]
         /\ Executed(c, NoData(2), taken)
    /\ exited' = (r.op = "READ_10")
    /\ UNCHANGED <<seg, disk, req, iniVars, stream, up, stats, slock>>

\* command_done: "we grab the lock to keep the StatSN in order"
LockStats(c) ==
    /\ ~exited /\ dev[c].at = "done" /\ stats[req[c].lun] = None
    /\ stats' = [stats EXCEPT ![req[c].lun] = c]
    /\ dev' = [dev EXCEPT ![c].at = IF dev[c].fromdev /\ req[c].transLen > 0
                                    THEN "data" ELSE "respond"]
    /\ UNCHANGED <<seg, disk, req, iniVars, stream, up, slock, staging, exited>>

-----------------------------------------------------------------------------
(***************************************************************************)
(* device_command_done: data PDUs and the response                           *)
(***************************************************************************)

Header(c, off, len) == <<[kind |-> "data", cmd |-> c, off |-> off, len |-> len]>>
Response(c) ==
    <<[kind |-> "response", cmd |-> c, status |-> dev[c].status, sn |-> dev[c].sn]>>
Units(c, addresses) ==
    [i \in DOMAIN addresses |-> [kind |-> "unit", cmd |-> c, unit |-> addresses[i]]]

\* data.length
DataLength(c) ==
    LET left == req[c].transLen - dev[c].off
    IN  IF seg # 0 /\ seg < left THEN seg ELSE left

\* iscsi_sock_msg: the window of a message, with padding at address 0
Padded(w, len) ==
    IF len % Align = 0 THEN w
    ELSE Window(SubSeq(w.arr, w.first, w.first + w.n - 1) \o
                <<[base |-> 0, len |-> Align - (len % Align)]>>)

\* The window for len units at off of a list that has total units: the list itself
\* when it is all of them, a part of a copy otherwise
Slice(list, off, len, total) ==
    Padded(IF len = total THEN Window(list) ELSE modify_iov(Window(list), off, len), len)

\* cmd->gather_list: one element
Gather(c) == <<[base |-> 1, len |-> dev[c].length]>>

\* One turn of the loop: slock, and the header is sent.  A list that does not have
\* the data is an error.
SendHeader(c) ==
    /\ ~exited /\ up /\ dev[c].at = "data" /\ slock = None
    /\ \E len \in {DataLength(c)} :
         IF IF len = req[c].transLen THEN len = dev[c].length
            ELSE Fits(Window(Gather(c)), dev[c].off, len)
         THEN \E w \in {Slice(Gather(c), dev[c].off, len, req[c].transLen)} :
                /\ slock' = c
                /\ stream' = stream \o Header(c, dev[c].off, len)
                /\ dev' = [dev EXCEPT ![c].at = "send", ![c].sn = @ + 1, ![c].win = w]
                /\ UNCHANGED exited
         ELSE exited' = TRUE /\ UNCHANGED <<slock, stream, dev>>
    /\ UNCHANGED <<seg, disk, req, iniVars, up, stats, staging>>

\* The window that remains of w when its first k units are transferred, but not all
Rest(w, k) == modify_iov(w, k, Total(w) - k)

\* Mutated form: no PDU for a rest that is shorter than a segment.
MoreSegments(c, off) == off + seg < req[c].transLen

\* The condition of the loop
MoreData(c, off) == off < req[c].transLen

\* writev takes k units; with the last ones slock is free and offset goes on.
SendUnits(c) ==
    /\ ~exited /\ up /\ dev[c].at = "send"
    /\ \E a \in {Addresses(dev[c].win)} : \E k \in 1..Len(a) :
         /\ stream' = stream \o Units(c, SubSeq(a, 1, k))
         /\ IF k < Len(a)
            THEN dev' = [dev EXCEPT ![c].win = Rest(@, k)] /\ UNCHANGED slock
            ELSE LET off == dev[c].off + DataLength(c) IN
                 /\ slock' = None
                 /\ dev' = [dev EXCEPT
                              ![c].off = off, ![c].win = Window(<<>>),
                              ![c].at = IF MoreData(c, off) THEN "data" ELSE "respond"]
    /\ UNCHANGED <<seg, disk, req, iniVars, up, stats, staging, exited>>

\* The response, with the number of data PDUs, under slock; the command leaves the hash
Respond(c) ==
    /\ ~exited /\ up /\ dev[c].at = "respond" /\ slock = None
    /\ stream' = stream \o Response(c)
    /\ dev' = [dev EXCEPT ![c].at = "cleanup"]
    /\ UNCHANGED <<seg, disk, req, iniVars, up, stats, slock, staging, exited>>

\* writev fails: slock stays taken, but the error is passed on to command_done,
\* which exits.
SendFails(c) ==
    /\ ~exited /\ ~up
    /\ dev[c].at = "send" \/ (dev[c].at \in {"data", "respond"} /\ slock = None)
    /\ slock' = c /\ exited' = TRUE
    /\ UNCHANGED <<seg, disk, req, iniVars, stream, up, dev, stats, staging>>

\* Mutated form: only a write's buffers are given back.
GivesBackNot(c) == FALSE

\* A staging buffer in gather_list
GivesBack(c) == dev[c].buf /\ dev[c].fromdev

\* command_done: unlock and "clean up after command"
CleanUp(c) ==
    /\ ~exited /\ dev[c].at = "cleanup"
    /\ stats' = [stats EXCEPT ![req[c].lun] = None]
    /\ staging' = [staging EXCEPT ![req[c].lun] = IF GivesBack(c) THEN @ + 1 ELSE @]
    /\ dev' = [dev EXCEPT ![c] = [Idle EXCEPT !.at = "finished",
                                             !.buf = dev[c].buf /\ ~GivesBack(c)]]
    /\ UNCHANGED <<seg, disk, req, iniVars, stream, up, slock, exited>>

-----------------------------------------------------------------------------
(***************************************************************************)
(* The rx thread of the initiator                                            *)
(***************************************************************************)

\* The list for data at off: recv_data as a list, or as a plain pointer
RecvWindow(c, off, len) ==
    IF req[c].list = <<>> THEN Padded(Window(<<[base |-> off + 1, len |-> len]>>), len)
    ELSE Slice(req[c].list, off, len, req[c].transLen)

\* scsi_read_data_i: the list for the data.  It is the caller's own for all of the
\* data, if the socket layer does not copy it to add padding.
RecvHeader ==
    /\ up /\ rx = <<>> /\ stream # <<>> /\ Head(stream).kind = "data"
    /\ \E h \in {Head(stream)} : \E w \in {RecvWindow(h.cmd, h.off, h.len)} :
         rx' = <<[cmd |-> h.cmd, len |-> h.len, win |-> w,
                  own |-> req[h.cmd].list # <<>> /\ h.len = req[h.cmd].transLen
                          /\ h.len % Align = 0]>>
    /\ stream' = Tail(stream)
    /\ UNCHANGED <<seg, disk, req, ini, mem, up, dev, stats, slock, staging, exited>>

\* What stays in memory when k units are read to the addresses a
Stored(c, a, k) ==
    { [cmd |-> c, at |-> a[i], from |-> stream[i].cmd, unit |-> stream[i].unit] :
        i \in {j \in 1..k : a[j] # 0} }

\* What iscsi_sock_msg returns: n - padding_len
Received(len) == len

\* readv takes k units; with the last ones bytes_fromdev goes on, and a list that
\* modify_iov has changed is restored.
RecvUnits ==
    /\ up /\ rx # <<>>
    /\ \E r \in {rx[1]} : \E a \in {Addresses(r.win)} : \E k \in 1..Len(a) :
         /\ k <= Len(stream) /\ \A i \in 1..k : stream[i].kind = "unit"
         /\ mem' = mem \cup Stored(r.cmd, a, k)
         /\ stream' = SubSeq(stream, k + 1, Len(stream))
         /\ IF k < Len(a)
            THEN rx' = <<[r EXCEPT !.win = Rest(@, k)]>> /\ UNCHANGED ini
            ELSE /\ rx' = <<>>
                 /\ ini' = [ini EXCEPT
                              ![r.cmd].bytes = @ + Received(r.len), ![r.cmd].pdus = @ + 1,
                              ![r.cmd].list = IF r.own THEN Restored(r.win, @) ELSE @]
    /\ UNCHANGED <<seg, disk, req, up, dev, stats, slock, staging, exited>>

\* scsi_response_i and iscsi_done_i: for a read, bytes_fromdev is not looked at.
RecvResponse ==
    /\ up /\ rx = <<>> /\ stream # <<>> /\ Head(stream).kind = "response"
    /\ LET h == Head(stream) IN
         ini' = [ini EXCEPT ![h.cmd].status = IF h.status = 0 THEN "good" ELSE "check",
                            ![h.cmd].sn = h.sn]
    /\ stream' = Tail(stream)
    /\ UNCHANGED <<seg, disk, req, mem, rx, up, dev, stats, slock, staging, exited>>

Down ==
    /\ up' = FALSE /\ stream' = <<>> /\ rx' = <<>>
    /\ UNCHANGED <<seg, disk, req, ini, mem, dev, stats, slock, staging, exited>>

Break == up /\ MayBreak /\ Down

\* The system closes the socket of a process that has exited.
CloseAtExit == up /\ exited /\ Down

-----------------------------------------------------------------------------

Worker(c) ==
    \/ ExecuteControl(c) \/ ExecuteRead(c) \/ ExecuteReadFails(c) \/ LockStats(c)
    \/ SendHeader(c) \/ SendUnits(c) \/ Respond(c) \/ SendFails(c) \/ CleanUp(c)
RxThread == RecvHeader \/ RecvUnits \/ RecvResponse

Answered(c) == ini[c].status \in {"good", "check"}

\* Nothing is left to do.  Every other step makes progress, so a state without a
\* next one is a thread that waits for ever.
Done ==
    /\ ~up \/ \A c \in Cmds : Answered(c)
    /\ exited \/ \A c \in Cmds : dev[c].at \in {"idle", "finished"}
    /\ UNCHANGED vars

Next == (\E c \in Cmds : Issue(c) \/ Worker(c)) \/ RxThread \/ Break \/ CloseAtExit \/ Done

Spec == Init /\ [][Next]_vars

-----------------------------------------------------------------------------

Places == {"idle", "execute", "done", "data", "send", "respond", "cleanup", "finished"}
TypeOK ==
    /\ \A c \in Cmds :
         /\ dev[c].at \in Places /\ dev[c].off \in 0..req[c].transLen
         /\ ini[c].status \in {None, "pending", "good", "check"}
         /\ ini[c].bytes \in 0..req[c].transLen
    /\ slock \in Cmds \cup {None}
    /\ \A l \in Luns : stats[l] \in Cmds \cup {None} /\ staging[l] \in 0..NStaging

\* The addresses of the buffer of c, in the order of the data
Buffer(c) ==
    IF req[c].list = <<>> THEN [i \in 1..req[c].transLen |-> i]
    ELSE Addresses(Window(req[c].list))

\* The types hold, and data only ever gets to its place: a unit of a command is stored in that command's
\* buffer and at its offset, however the data is cut into PDUs, messages are padded,
\* writev and readv are cut short and the buffer is scattered.
NeverMisplaced ==
    /\ TypeOK
    /\ \A p \in mem : /\ p.from = p.cmd /\ p.unit \in DOMAIN Buffer(p.cmd)
                      /\ Buffer(p.cmd)[p.unit] = p.at

\* A command that the initiator reports GOOD has all of its data, although the
\* initiator does not compare the amount: as many bytes as asked for, in as many PDUs
\* as the response says, and every unit of them in its buffer.
GoodMeansRead ==
    \A c \in Cmds : ini[c].status = "good" =>
        /\ ini[c].bytes = req[c].transLen /\ ini[c].pdus = ini[c].sn
        /\ \A u \in 1..req[c].transLen : \E p \in mem : p.cmd = c /\ p.unit = u

\* A staging buffer is free or belongs to one command, and a command that is finished
\* has none, whether its read succeeded or failed, but for the buffer that a failing
\* ioctl was to fill.
StagingBack ==
    /\ \A l \in Luns :
         staging[l] + Cardinality({c \in Cmds : req[c].lun = l /\ dev[c].buf}) = NStaging
    /\ \A c \in Cmds \ IoErrors : dev[c].at = "finished" => ~dev[c].buf

\* util.c:1248 "restore iov to its original self": the caller's list is what it was
\* when the data is in.
ListRestored == \A c \in Cmds : rx = <<>> => ini[c].list = req[c].list
=============================================================================

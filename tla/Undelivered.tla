------------------------------- MODULE Undelivered ----------------------------
(* server/undelivered.c: the file of the messages that wait for one user.  The *)
(* handler threads of other users call undel_add_message; the user's own       *)
(* thread calls undel_load after each login.  No lock is taken (undel_lock in  *)
(* server/user_db.c:43 is never used), so each read and each write of the file *)
(* is a step.                                                                  *)
(*                                                                             *)
(* The file is a header and then cells.  A message m has Size[m] cells of text *)
(* (its length is part of the first) and one cell with the code (HMAC) over the*)
(* previous code and the message; a code is the sequence of messages it covers.*)
(* The file fits one stdio buffer: undel_load reads it in one step, and the    *)
(* block of a message is written in one step.                                  *)
EXTENDS Integers, Sequences, SequencesExt

CONSTANTS
    Adder,         \* threads that call undel_add_message
    Size,          \* Size[t]: cells of the messages of thread t
    MaxAdds,       \* bound: MaxAdds[t]: calls of thread t
    MaxLoads,      \* bound: logins of the user
    Overlap,       \* the values overlap may have
    MaxCrashes     \* bound: times the server stops

ASSUME UndeliveredAssumption ==
    /\ Size \in [Adder -> Nat \ {0}]
    /\ MaxAdds \in [Adder -> Nat \ {0}]
    /\ MaxLoads \in Nat /\ MaxCrashes \in Nat
    /\ Overlap \subseteq BOOLEAN

Message == UNION {{t} \X (1 .. MaxAdds[t]) : t \in Adder}

VARIABLES
    overlap,       \* TRUE if calls may overlap
    header,        \* the offset of the end and the number of messages, or NoHeader
    cells,
    pc, m, seen,   \* each adder: where it is, its message, the header it read
    prev,          \* ... and the code it read
    nadds,
    lpc, loaded,   \* the loader: where it is, the messages it has read
    nloads, ncrashes,
    cut,           \* the server has stopped with the file half written
    added,         \* messages whose undel_add_message has returned 0
    taken          \* messages undel_load has read and emptied the file of, in order

file == <<overlap, header, cells>>
adder == <<pc, m, seen, prev, nadds>>
loader == <<lpc, loaded, nloads>>
stops == <<ncrashes, cut>>
vars == <<file, adder, loader, stops, added, taken>>

Header(end, number) == [end |-> end, number |-> number]
NoHeader == Header(-1, 0)     \* an empty file, or zeros: fread or MACCHK fails
Code(msgs) == [kind |-> "code", of |-> msgs, part |-> 0]
Text(msg, i) == [kind |-> "text", of |-> <<msg>>, part |-> i]
Hole == [kind |-> "hole", of |-> <<>>, part |-> 0]
BadCode == [kind |-> "bad", of |-> <<>>, part |-> 0]     \* covers something else

BlockOf(msg, code) == [i \in 1 .. Size[msg[1]] |-> Text(msg, i)] \o <<code>>

(* The blocks of msgs as undel_load expects them.                              *)
FileOf(msgs) ==
    LET upTo[k \in 0 .. Len(msgs)] ==
            IF k = 0 THEN <<>>
            ELSE upTo[k - 1] \o BlockOf(msgs[k], Code(SubSeq(msgs, 1, k)))
    IN  upTo[Len(msgs)]

(* user_init, when the user registers, has called undel_init_file.             *)
Init ==
    /\ overlap \in Overlap
    /\ header = Header(0, 0) /\ cells = <<>>
    /\ pc = [t \in Adder |-> "idle"]
    /\ m = [t \in Adder |-> <<t, 1>>]
    /\ seen = [t \in Adder |-> NoHeader]
    /\ prev = [t \in Adder |-> Hole]
    /\ nadds = [t \in Adder |-> 0]
    /\ lpc = "idle" /\ loaded = <<>> /\ nloads = 0
    /\ ncrashes = 0 /\ cut = FALSE
    /\ added = {} /\ taken = <<>>

Quiet == lpc = "idle" /\ \A t \in Adder : pc[t] = "idle"
MayStart == overlap \/ Quiet

goto(t, from, to) == pc[t] = from /\ pc' = [pc EXCEPT ![t] = to]

-------------------------------------------------------------------------------
(* undel_add_message                                                           *)

(* fopen, READ(prefix), MACCHK.                                                *)
add_open(t) ==
    /\ nadds[t] < MaxAdds[t] /\ MayStart
    /\ nadds' = [nadds EXCEPT ![t] = @ + 1]
    /\ IF header = NoHeader
       THEN UNCHANGED <<pc, m, seen>>
       ELSE /\ goto(t, "idle", "header")
            /\ m' = [m EXCEPT ![t] = <<t, nadds[t] + 1>>]
            /\ seen' = [seen EXCEPT ![t] = header]
    /\ pc[t] = "idle"
    /\ UNCHANGED <<file, prev, loader, stops, added, taken>>

(* Variant: the message is not counted.                                        *)
add_header_NoCount(t) ==
    /\ goto(t, "header", "prev")
    /\ header' = Header(seen[t].end + Size[t] + 1, seen[t].number)
    /\ UNCHANGED <<overlap, cells, m, seen, prev, nadds, loader, stops, added, taken>>

(* SEEK(0), WRITE(prefix).                                                     *)
add_header(t) ==
    /\ goto(t, "header", "prev")
    /\ header' = Header(seen[t].end + Size[t] + 1, seen[t].number + 1)
    /\ UNCHANGED <<overlap, cells, m, seen, prev, nadds, loader, stops, added, taken>>

(* SEEK(flen - 32), READ(prev_mac): whatever is there, if the file is so long. *)
(* The first message uses INITIAL_PREV_MAC instead.                            *)
add_prev_mac(t) ==
    /\ pc[t] = "prev"
    /\ LET end == seen[t].end
           readable == IF end = 0 THEN header # NoHeader \/ cells # <<>>
                       ELSE end <= Len(cells)
       IN  \/ ~readable /\ goto(t, "prev", "idle") /\ UNCHANGED prev
           \/ /\ readable /\ goto(t, "prev", "block")
              /\ prev' = [prev EXCEPT ![t] =
                    IF seen[t].number = 0 THEN Code(<<>>) ELSE cells[end]]
    /\ UNCHANGED <<file, m, seen, nadds, loader, stops, added, taken>>

(* The block overwrites what is at its place, and extends the file if need be. *)
NextCode(t) == IF prev[t].kind = "code" THEN Code(Append(prev[t].of, m[t]))
                                        ELSE BadCode
WriteAt(end, block) ==
    [i \in 1 .. (IF end + Len(block) > Len(cells) THEN end + Len(block)
                                                  ELSE Len(cells)) |->
        IF i \in end + 1 .. end + Len(block) THEN block[i - end]
        ELSE IF i <= Len(cells) THEN cells[i] ELSE Hole]

(* Variant: the code does not go on from the one before.                       *)
add_block_NoChain(t) ==
    /\ goto(t, "block", "idle")
    /\ cells' = WriteAt(seen[t].end, BlockOf(m[t], Code(<<m[t]>>)))
    /\ added' = added \cup {m[t]}
    /\ UNCHANGED <<overlap, header, m, seen, prev, nadds, loader, stops, taken>>

(* The length, the message and its code; fclose; return 0.                     *)
add_block(t) ==
    /\ goto(t, "block", "idle")
    /\ cells' = WriteAt(seen[t].end, BlockOf(m[t], NextCode(t)))
    /\ added' = added \cup {m[t]}
    /\ UNCHANGED <<overlap, header, m, seen, prev, nadds, loader, stops, taken>>

undel_add_message(t) ==
    add_open(t) \/ add_header(t) \/ add_prev_mac(t) \/ add_block(t)

-------------------------------------------------------------------------------
(* undel_load                                                                  *)

(* The ends of the blocks that can be reached from the start of the file with  *)
(* every code right.                                                           *)
GoodEnds == {0} \cup {c \in DOMAIN cells :
                cells[c].kind = "code" /\ FileOf(cells[c].of) = SubSeq(cells, 1, c)}
MsgsTo(c) == IF c = 0 THEN <<>> ELSE cells[c].of

(* Nothing is read if the header, or one of the messages it counts, is bad.    *)
load_read ==
    /\ lpc = "idle" /\ nloads < MaxLoads /\ MayStart
    /\ nloads' = nloads + 1
    /\ \/ /\ header # NoHeader
          /\ \E c \in GoodEnds :
                Len(MsgsTo(c)) = header.number /\ loaded' = MsgsTo(c)
          /\ lpc' = "truncate"
       \/ /\ \/ header = NoHeader
             \/ \A c \in GoodEnds : Len(MsgsTo(c)) # header.number
          /\ UNCHANGED <<lpc, loaded>>
    /\ UNCHANGED <<file, adder, stops, added, taken>>

(* Variant: fopen("rb+"), which does not empty the file.                        *)
init_truncate_Skipped ==
    /\ lpc = "truncate"
    /\ lpc' = "init"
    /\ taken' = taken \o loaded
    /\ UNCHANGED <<file, loaded, nloads, adder, stops, added>>

(* undel_init_file: fopen("wb") ...                                            *)
init_truncate ==
    /\ lpc = "truncate"
    /\ lpc' = "init"
    /\ header' = NoHeader /\ cells' = <<>>
    /\ taken' = taken \o loaded
    /\ UNCHANGED <<overlap, loaded, nloads, adder, stops, added>>

(* ... and the header, at fclose.  undel_load returns the list.                *)
init_header ==
    /\ lpc = "init"
    /\ lpc' = "idle"
    /\ header' = Header(0, 0)
    /\ loaded' = <<>>
    /\ UNCHANGED <<overlap, cells, nloads, adder, stops, added, taken>>

undel_load == load_read \/ init_truncate \/ init_header

-------------------------------------------------------------------------------
(* The header is written before the block, and after the file was emptied.     *)
HalfWritten == lpc = "init" \/ \E t \in Adder : pc[t] \in {"prev", "block"}

(* The server exits wherever its threads are (main returns after a signal      *)
(* without joining them, server/chat_server.c:187-191), or dies; and starts    *)
(* again.                                                                      *)
Crash ==
    /\ ncrashes < MaxCrashes
    /\ ncrashes' = ncrashes + 1
    /\ cut' = (cut \/ HalfWritten)
    /\ pc' = [t \in Adder |-> "idle"]
    /\ lpc' = "idle" /\ loaded' = <<>>
    /\ UNCHANGED <<file, m, seen, prev, nadds, nloads, added, taken>>

Next == (\E t \in Adder : undel_add_message(t)) \/ undel_load \/ Crash

Spec == Init /\ [][Next]_vars

-------------------------------------------------------------------------------
TypeOK ==
    /\ overlap \in BOOLEAN /\ cut \in BOOLEAN
    /\ header.end \in Int /\ header.number \in Nat
    /\ pc \in [Adder -> {"idle", "header", "prev", "block"}]
    /\ m \in [Adder -> Message]
    /\ \A t \in Adder : nadds[t] \in 0 .. MaxAdds[t]
    /\ lpc \in {"idle", "truncate", "init"}
    /\ loaded \in Seq(Message) /\ taken \in Seq(Message)
    /\ nloads \in 0 .. MaxLoads /\ ncrashes \in 0 .. MaxCrashes
    /\ added \subseteq Message

(* The messages in the file that can be read, whatever the header says.        *)
Stored == MsgsTo(Max(GoodEnds))

(* server/undelivered.txt:4-5: the header holds "File offset of the end" and   *)
(* "Number of messages"; so it does whenever no call is under way, unless calls*)
(* have overlapped or the server has stopped with the file half written.  Then *)
(* the file is refused from then on: the header is missing, or promises more   *)
(* than is there; but no stop makes undel_load return part of the messages.    *)
Whole == header = Header(Len(cells), Len(Stored)) /\ Max(GoodEnds) = Len(cells)
Refused == \/ header = NoHeader
           \/ header.end > Len(cells) /\ header.number > Len(Stored)
HeaderAgrees == ~overlap /\ Quiet => IF cut THEN Refused ELSE Whole

FileInv == TypeOK /\ HeaderAgrees

(* When calls do not overlap the file implements the store.                    *)
Abstract == INSTANCE MessageStore WITH
    store <- IF overlap THEN <<>> ELSE Stored,
    taken <- IF overlap THEN <<>> ELSE taken
ImplementsStore == Abstract!Spec
===============================================================================

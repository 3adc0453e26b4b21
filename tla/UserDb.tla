-------------------------------- MODULE UserDb --------------------------------
(* server/user_db.c and the part of server/client_auth.c that looks users up   *)
(* and registers them: the table of users under db.l (see Lock), a file for    *)
(* each user, the header of each user's undelivered file with the calls of     *)
(* server/undelivered.c that empty it and write it anew, and the restart of the*)
(* server, which reads the user files.  Undelivered has the messages.          *)
(*                                                                             *)
(* A file is opened ("wb" empties it) in one step and written in another: it   *)
(* fits one stdio buffer, which fclose writes out.  A user's und_auth, the key *)
(* of the undelivered file, is a number drawn once; public keys are left out.  *)
EXTENDS Integers, Sequences, FiniteSets

CONSTANTS
    Session,             \* the threads in auth_user
    Uid,
    Hash,                \* Hash[u]: hash_id
    MIN_SIZE, MAX_SIZE,
    MaxKeys,             \* bound: registrations begun
    MaxCalls,            \* bound: calls on undelivered files at a time
    MaxCrashes,          \* bound: times the server stops from outside
    Nobody               \* no thread has the write lock

ASSUME UserDbAssumption ==
    /\ IsFiniteSet(Uid) /\ Hash \in [Uid -> Nat]
    /\ MIN_SIZE \in Nat \ {0} /\ MAX_SIZE \in Nat /\ MIN_SIZE <= MAX_SIZE
    /\ MaxKeys \in Nat /\ MaxCalls \in Nat /\ MaxCrashes \in Nat
    /\ Nobody \notin Session

VARIABLES
    overlap,                   \* TRUE if sessions may register one user at once
    buckets, size, elements,   \* db
    writer,                    \* the session that holds db.l for writing
    main,                      \* "running", "down", or "loading": user_db_init
    unread,                    \* users whose files load_user_files has to read
    user_file,                 \* und_auth in each user's file, or as below
    undel_file,                \* the key that signs the undelivered file's header
    place, uid, und_auth,      \* each session: where it is, its struct user
    calls,                     \* of undel_load and undel_add_message, in hand
    cut,                       \* users whose file a stop found emptied
    nkeys, ncrashes

db == <<overlap, buckets, size, elements>>
undel == <<calls, cut>>
process == <<db, writer, main, unread, undel>>
files == <<user_file, undel_file>>
own == <<place, uid, und_auth, nkeys>>
dbvars == <<process, files, own, ncrashes>>

NoFile == 0
Empty == -1       \* opened for writing, not yet written
Key == 1 .. MaxKeys

Entry(u, k) == [uid |-> u, und_auth |-> k]
NoBuckets == [i \in 0 .. MIN_SIZE - 1 |-> <<>>]

init_user_db_st == buckets = NoBuckets /\ size = MIN_SIZE /\ elements = 0

(* An empty directory.                                                         *)
DbInit ==
    /\ overlap \in BOOLEAN
    /\ init_user_db_st
    /\ writer = Nobody /\ main = "running" /\ unread = {}
    /\ user_file = [u \in Uid |-> NoFile]
    /\ undel_file = [u \in Uid |-> NoFile]
    /\ place = [t \in Session |-> "idle"]
    /\ uid \in [Session -> Uid]
    /\ und_auth = [t \in Session |-> NoFile]
    /\ calls = {} /\ cut = {}
    /\ nkeys = 0 /\ ncrashes = 0

advance(t, from, to) == place[t] = from /\ place' = [place EXCEPT ![t] = to]

Entries == UNION {{buckets[i][j] : j \in DOMAIN buckets[i]} : i \in DOMAIN buckets}

Chain(u) == buckets[Hash[u] % size]
user_db_get(u) == {i \in DOMAIN Chain(u) : Chain(u)[i].uid = u}
Known(u) == user_db_get(u) # {}

(* The users whose undelivered file is open and empty in undel_init_file.      *)
Emptied == {c.user.uid : c \in {d \in calls : d.step = "reinit"}}

(* The process is gone: its files are what is left.                            *)
Stop ==
    /\ main' = "down"
    /\ buckets' = NoBuckets /\ size' = MIN_SIZE /\ elements' = 0
    /\ UNCHANGED overlap
    /\ writer' = Nobody /\ unread' = {}
    /\ place' = [t \in Session |-> "idle"]
    /\ calls' = {} /\ cut' = cut \cup Emptied

-------------------------------------------------------------------------------
(* The table.                                                                  *)

(* What resize sets db.size to, for n elements.                                *)
NewSize(n) ==
    LET grown == IF size < MAX_SIZE /\ (n * 4) \div 3 > size THEN size * 2 ELSE size
    IN  IF grown > MIN_SIZE /\ n * 4 < grown THEN grown \div 2 ELSE grown

(* An entry at the head of its chain.                                          *)
Prepend(b, e) == [b EXCEPT ![Hash[e.uid] % size] = <<e>> \o @]

(* nbuckets has the old size, and so has the table afterwards; the loop runs   *)
(* to the new one, and from the head of each chain every entry goes to the head*)
(* of its chain in nbuckets.  Beyond the end of the old array it finds nothing,*)
(* or what it takes for an entry stops the process.                            *)
MoveChain(chain, b) ==
    LET moved[k \in 0 .. Len(chain)] ==
            IF k = 0 THEN b ELSE Prepend(moved[k - 1], chain[k])
    IN  moved[Len(chain)]
Rehash(b, to) ==
    LET moved[i \in 0 .. to] ==
            IF i = 0 THEN [j \in 0 .. size - 1 |-> <<>>]
            ELSE IF i <= size THEN MoveChain(b[i - 1], moved[i - 1])
            ELSE moved[i - 1]
    IN  moved[to]

resize(b, n) ==
    IF NewSize(n) = size THEN buckets' = b ELSE buckets' = Rehash(b, NewSize(n))

OutOfBounds(n) == NewSize(n) > size

user_db_add_no_write(e) ==
    /\ elements' = elements + 1
    /\ resize(Prepend(buckets, e), elements + 1)
    /\ UNCHANGED <<overlap, size>>

-------------------------------------------------------------------------------
(* A session: auth_user, from check_user on.                                   *)

(* A user who is not known is asked to register; one who is logs in.           *)
check_user(t) ==
    /\ main = "running" /\ writer = Nobody
    /\ \E u \in Uid :
          /\ uid' = [uid EXCEPT ![t] = u]
          /\ ~Known(u)
          /\ overlap \/ \A s \in Session \ {t} : place[s] = "idle" \/ uid[s] # u
    /\ advance(t, "idle", "register")
    /\ UNCHANGED <<process, files, und_auth, nkeys, ncrashes>>

(* The client goes instead of answering "register".                            *)
prompt_fails(t) ==
    /\ advance(t, "register", "idle")
    /\ UNCHANGED <<process, files, uid, und_auth, nkeys, ncrashes>>

(* user_init, gen_undel_file: the key, and undel_init_file up to fopen ...     *)
user_init(t) ==
    /\ nkeys < MaxKeys
    /\ advance(t, "register", "header")
    /\ nkeys' = nkeys + 1
    /\ und_auth' = [und_auth EXCEPT ![t] = nkeys + 1]
    /\ undel_file' = [undel_file EXCEPT ![uid[t]] = Empty]
    /\ UNCHANGED <<process, user_file, uid, ncrashes>>

(* Variant: the file is signed before the key is drawn.                        *)
undel_init_file_OldKey(t) ==
    /\ advance(t, "header", "add")
    /\ undel_file' = [undel_file EXCEPT ![uid[t]] = und_auth[t] - 1]
    /\ UNCHANGED <<process, user_file, uid, und_auth, nkeys, ncrashes>>

(* ... and its header.                                                         *)
undel_init_file(t) ==
    /\ advance(t, "header", "add")
    /\ undel_file' = [undel_file EXCEPT ![uid[t]] = und_auth[t]]
    /\ UNCHANGED <<process, user_file, uid, und_auth, nkeys, ncrashes>>

(* Variant: user_db_add does not look for the user again.                      *)
user_db_add_NoCheck(t) ==
    /\ place[t] = "add" /\ writer = Nobody
    /\ advance(t, "add", "open")
    /\ writer' = t
    /\ UNCHANGED <<db, main, unread, undel, files, uid, und_auth, nkeys, ncrashes>>

(* user_db_add: the write lock and the second look.                            *)
user_db_add(t) ==
    /\ place[t] = "add" /\ writer = Nobody
    /\ \/ Known(uid[t]) /\ advance(t, "add", "idle") /\ UNCHANGED writer
       \/ ~Known(uid[t]) /\ advance(t, "add", "open") /\ writer' = t
    /\ UNCHANGED <<db, main, unread, undel, files, uid, und_auth, nkeys, ncrashes>>

(* write_user_file.                                                            *)
open_user_file(t) ==
    /\ advance(t, "open", "write")
    /\ user_file' = [user_file EXCEPT ![uid[t]] = Empty]
    /\ UNCHANGED <<process, undel_file, uid, und_auth, nkeys, ncrashes>>

write_user_file(t) ==
    /\ advance(t, "write", "insert")
    /\ user_file' = [user_file EXCEPT ![uid[t]] = und_auth[t]]
    /\ UNCHANGED <<process, undel_file, uid, und_auth, nkeys, ncrashes>>

(* user_db_add_no_write, and the lock is released.                             *)
insert(t) ==
    /\ place[t] = "insert"
    /\ \/ /\ user_db_add_no_write(Entry(uid[t], und_auth[t]))
          /\ advance(t, "insert", "idle")
          /\ writer' = Nobody
          /\ UNCHANGED <<main, unread, undel>>
       \/ OutOfBounds(elements + 1) /\ Stop
    /\ UNCHANGED <<files, uid, und_auth, nkeys, ncrashes>>

user_register(t) ==
    \/ prompt_fails(t) \/ user_init(t) \/ undel_init_file(t)
    \/ user_db_add(t) \/ open_user_file(t) \/ write_user_file(t) \/ insert(t)

-------------------------------------------------------------------------------
(* The undelivered file of a user of the table: undel_load at the user's login *)
(* (one at a time, see Session), undel_add_message of any sender.  Both read   *)
(* the header first and leave a file it does not open as it is.                *)
Call(step, e) == [step |-> step, user |-> e]

undel_open(e) ==
    /\ main = "running" /\ writer = Nobody /\ Cardinality(calls) < MaxCalls
    /\ undel_file[e.uid] = e.und_auth
    /\ \/ /\ \A c \in calls : c.user = e => c.step = "rewrite"
          /\ calls' = calls \cup {Call("truncate", e)}
       \/ calls' = calls \cup {Call("rewrite", e)}
    /\ UNCHANGED <<db, writer, main, unread, cut, files, own, ncrashes>>

(* undel_init_file at the end of undel_load: fopen empties the file ...        *)
undel_truncate(e) ==
    /\ Call("truncate", e) \in calls
    /\ calls' = (calls \ {Call("truncate", e)}) \cup {Call("reinit", e)}
    /\ undel_file' = [undel_file EXCEPT ![e.uid] = Empty]
    /\ UNCHANGED <<db, writer, main, unread, cut, user_file, own, ncrashes>>

(* ... and fclose writes the header, as undel_add_message does in place.       *)
undel_write(step, e) ==
    /\ Call(step, e) \in calls
    /\ calls' = calls \ {Call(step, e)}
    /\ undel_file' = [undel_file EXCEPT ![e.uid] = e.und_auth]
    /\ UNCHANGED <<db, writer, main, unread, cut, user_file, own, ncrashes>>

undel_step(e) ==
    \/ undel_open(e) \/ undel_truncate(e)
    \/ undel_write("reinit", e) \/ undel_write("rewrite", e)

-------------------------------------------------------------------------------
(* The process.                                                                *)

Crash ==
    /\ ncrashes < MaxCrashes /\ main # "down"
    /\ ncrashes' = ncrashes + 1
    /\ Stop
    /\ UNCHANGED <<files, uid, und_auth, nkeys>>

(* user_db_init: the directory is read in any order.                           *)
user_db_init ==
    /\ main = "down"
    /\ main' = "loading"
    /\ unread' = {u \in Uid : user_file[u] # NoFile}
    /\ UNCHANGED <<db, writer, undel, files, own, ncrashes>>

(* Variant: a file that cannot be parsed ends the loop.                        *)
load_user_file_Breaks(u) ==
    /\ main = "loading" /\ u \in unread
    /\ \/ /\ user_file[u] = Empty
          /\ unread' = {}
          /\ UNCHANGED <<db, main, writer, undel, place>>
       \/ /\ user_file[u] # Empty
          /\ \/ /\ user_db_add_no_write(Entry(u, user_file[u]))
                /\ unread' = unread \ {u}
                /\ UNCHANGED <<main, writer, undel, place>>
             \/ OutOfBounds(elements + 1) /\ Stop
    /\ UNCHANGED <<files, uid, und_auth, nkeys, ncrashes>>

(* A turn of the loop of load_user_files; a file that cannot be parsed is      *)
(* passed over.                                                                *)
load_user_file(u) ==
    /\ main = "loading" /\ u \in unread
    /\ \/ /\ user_file[u] = Empty
          /\ unread' = unread \ {u}
          /\ UNCHANGED <<db, main, writer, undel, place>>
       \/ /\ user_file[u] # Empty
          /\ \/ /\ user_db_add_no_write(Entry(u, user_file[u]))
                /\ unread' = unread \ {u}
                /\ UNCHANGED <<main, writer, undel, place>>
             \/ OutOfBounds(elements + 1) /\ Stop
    /\ UNCHANGED <<files, uid, und_auth, nkeys, ncrashes>>

run_server ==
    /\ main = "loading" /\ unread = {}
    /\ main' = "running"
    /\ UNCHANGED <<db, writer, unread, undel, files, own, ncrashes>>

start == user_db_init \/ (\E u \in Uid : load_user_file(u)) \/ run_server

DbNext ==
    \/ \E t \in Session : check_user(t) \/ user_register(t)
    \/ \E e \in Entries : undel_step(e)
    \/ Crash \/ start

DbSpec == DbInit /\ [][DbNext]_dbvars

-------------------------------------------------------------------------------
DbTypes ==
    /\ overlap \in BOOLEAN
    /\ size \in MIN_SIZE .. MAX_SIZE
    /\ buckets \in [0 .. size - 1 -> Seq([uid : Uid, und_auth : Key])]
    /\ elements \in 0 .. Cardinality(Uid)
    /\ writer \in Session \cup {Nobody}
    /\ main \in {"running", "down", "loading"}
    /\ unread \subseteq Uid
    /\ user_file \in [Uid -> Key \cup {NoFile, Empty}]
    /\ undel_file \in [Uid -> Key \cup {NoFile, Empty}]
    /\ place \in [Session -> {"idle", "register", "header", "add", "open", "write",
                              "insert"}]
    /\ calls \subseteq [step : {"truncate", "reinit", "rewrite"}, user : Entries]
    /\ cut \subseteq Uid

(* The table is what the files say: every user in it is found where            *)
(* user_db_get looks, once, with the key of the user's file, however many      *)
(* sessions registered the user; and when the server runs, a complete file     *)
(* without an entry is that of the registration in hand.                       *)
TableMatchesFiles ==
    /\ \A e \in Entries : Known(e.uid) /\ user_file[e.uid] = e.und_auth
    /\ \A e, f \in Entries : e.uid = f.uid => e = f
    /\ elements = Cardinality(Entries)
    /\ main = "running" =>
          \A u \in Uid : user_file[u] \in Key =>
              Known(u) \/ \E t \in Session : writer = t /\ uid[t] = u

(* The undelivered file of a user in the table is never signed by another key: *)
(* und_auth opens it, or it is empty, between the fopen and the fclose of      *)
(* undel_init_file in an undel_load, and for good if the server stopped        *)
(* there; every undel_load and undel_add_message after that refuses it.  Not so*)
(* if two sessions may register the user at once: the second one's user_init   *)
(* gives the file of the first a new key.                                      *)
UndelReadable ==
    ~overlap => \A e \in Entries :
        \/ undel_file[e.uid] = e.und_auth
        \/ undel_file[e.uid] = Empty /\ e.uid \in cut \cup Emptied

UserDbInv == DbTypes /\ TableMatchesFiles

(* A user once registered is found whenever the server runs.                   *)
Registered == INSTANCE UserSet WITH
    users <- IF main = "running" THEN {e.uid : e \in Entries}
             ELSE {u \in Uid : user_file[u] \in Key},
    up <- main = "running"
ImplementsUserSet == Registered!Spec
===============================================================================

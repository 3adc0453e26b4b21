# ibchat in TLA+

ibchat is a chat system in C: a server that routes encrypted messages between
users and keeps the messages of absent users in files, and a terminal client.
Each connection has a thread of its own that owns the socket; the server has a
session thread per user besides, and the client a background thread. This
directory models the parts where those threads meet, checks them with TLC and
proves the most important results with TLAPS for every size of instance.

Paths below are relative to `src/`.

## The system

| Component | State | Operations | Met by |
|---|---|---|---|
| Readers-writer lock, `util/lock.c` | a counter, a mutex, a condition variable | acquire and release, for reading and for writing | handler table, user database, client modes |
| Connection protocol, `inet/protocol.c`, `inet/message.c` | out and in queues, their mutexes, wakeup pipe, acknowledgement map, kill flag | `add_message`, `get_message`, `handle_connection`, `end_handler` | every thread that sends or receives |
| Encrypted messages, `crypto/crypto_layer.c` | the nonce of a keyset | `send_message`, `recv_message` | sessions, client |
| Handshake, `crypto/handshake.c` | keys, nonce | `server_handshake`, `client_handshake` | start of a session |
| Handshake gate, `server/client_handler.c:93-123` | `handshake_sem`, mutex, condition variable | `client_handler_handshake` | new connections |
| Table of logged-in users, `server/client_handler.c:401-570` | chained hash table under a lock | `get_handler`, `add_handler`, `rem_handler`, `end_handlers` | sessions, authentication |
| Session, `server/client_handler.c:150-395` | connection, keys, stop flag | `client_handler`, `send_undelivered`, `handle_message` | table, files, connection |
| Undelivered files, `server/undelivered.c` | one file per user: header, chain of blocks | `undel_init_file`, `undel_add_message`, `undel_load` | sessions of the user and of every sender |
| User database, `server/user_db.c` | hash table of users, a file per user | `user_db_get`, `user_db_add`, `user_init`, `load_user_files` | authentication, sessions |
| Authentication, `server/client_auth.c`, `client/login_server.c` | none of its own | challenge, check, register, log in | database, table |
| Accept loop, `server/chat_server.c` | listening socket, stop flag | accept, spawn, shut down | sessions |
| Client modes, `client/cli.c`, `client/bg_manager.c` | `mode`, `stop`, the lock, `net_lock`, `bg_lock`, `pkey_resp` | select, wait, background thread | friends, conversations, notifications |
| Friends, `client/friendreq.c`, `client/friends.c` | friend list and its file | request, response | modes, notifications |
| Conversations, `client/conversation.c` | nonces and file per friend | open, send, parse | modes, friends |
| Notifications, `client/notifications.c` | list under the lock, file | add, view, select | modes |
| Data files, `client/datafile.c`, `crypto/keyfile.c`, `client/userfile.c`, `client/profile.c`, `client/account.c` | encrypted files | read, write | client |

How they interact. A message of user A for user B is encrypted by A's client
(`send_message`), queued (`add_message`), written and acknowledged by the
connection threads of the client and the server, taken by A's session
(`recv_message`), and handled: `get_handler` finds B's session and A's thread
calls `send_message` on B's keyset and connection, or B is absent and A's
thread adds to B's file. When B logs in, B's session enters the table, then
sends what the file holds and empties it. No lock covers more than one of these
calls, and the file and the keyset have none at all.

What makes it hard: the wakeup pipe and the queue are kept in step without a
common lock; the lock wakes by broadcast on one condition variable for two kinds
of waiters; pointers from the table are used after its lock is released; files
are rewritten in place and the server exits without waiting for its threads;
timeouts are differences of unsigned times; on the client two threads share a
mode and several locks.

What makes each part correct: a writer excludes everybody and no waiter misses
its wakeup (lock); what is queued is sent once, in order, and nobody waits for
ever (protocol); a number is used once (encrypted messages); at most
MAX_HANDSHAKES run and every connection gets its turn (gate); the table is a map
(table); an accepted message is kept until it is sent, once (files, session); a
registered user is found, now and after a restart (database); a name belongs to
the first key that claimed it and one connection acts for it (authentication);
nobody waits for an answer that cannot come, and the client ends when its
connection does (modes, notifications); both directions of a
conversation keep distinct nonces over restarts (conversations).

## Modules

| Module | Models | State and actions against the code |
|---|---|---|
| `RWLock` | what the lock promises | sets of readers and writers |
| `Lock` | `util/lock.c` | `use_state`, mutex owner, who waits, a program point per thread; one action per stretch of code between two mutex or condition variable calls |
| `Channel` | what a connection promises | two queues that never reorder, invent or duplicate |
| `Protocol` | `inet/protocol.c` | both ends: queues, pipe, mutexes, socket buffers, acknowledgement map, kill flag, a program point for the connection thread and each user thread; one action per step between two lock, pipe or socket operations |
| `SendMessage` | `crypto/crypto_layer.c` | the nonce with its load and store apart, the message each thread builds, the wire |
| `HandshakeGate` | `client_handler_handshake` | the counter with its load and store apart, mutex, sleepers |
| `HandlerMap` | what the table promises | a map from user to session |
| `HandlerTable` | the table and the order in which a session uses it | buckets, size, elements; `add_handler`, `rem_handler`, `resize_handler_table`, `end_handlers`, the cleanup handler |
| `MessageStore` | what the undelivered file promises | messages kept, messages taken |
| `Undelivered` | `server/undelivered.c` | header and cells of the file; one action per read or write that another thread can see, and a stop of the server between any two |
| `Delivery` | `handle_message` and the recipient's session | extends `Undelivered`; the table as the map `HandlerTable` implements, what the session has loaded and not sent, what a stop lost of it |
| `UserSet` | what the server promises of its users | the registered users, over stops of the server |
| `UserDb` | `server/user_db.c`, and `server/client_auth.c` where it looks up and registers | buckets, size and elements as `resize` leaves them, the write lock, both files of each user, the calls of `undel_load` and `undel_add_message` in hand as far as they empty a file or write its header, a program point per session, the restart that reads the files |
| `Logins` | what logging in promises | the key of each name, the connection that acts for it |
| `Session` | a connection from accept to its end: `client_handler` and `auth_user` with `server_handshake` on the server, `create_account` or `login_account` with `client_handshake` on the client | extends `HandshakeGate`; a channel each way, the database and the table as the maps `UserDb` and `HandlerTable` implement, a program point per end; one action per message awaited or per look at the database or the table |
| `Conversation` | `client/conversation.c` between a user and a friend, with what `bg_manager.c`, `friends.c` and the server's session do to it | the messages on the screen and those not yet shown, the file as its header and its blocks, the nonce of each direction in memory and in the friend file, the queue of the connection, what the server has stored, loaded and sent, a program point per thread; one action per stretch under the lock, or per write of the file |
| `Friends` | `client/friendreq.c`, `friends.c`, `notifications.c` over `datafile.c`, and the making of an account in `login_server.c`, `account.c`, `profile.c`, `userfile.c` | for each user: friends and notifications in memory and in their files, the user file, the lock, what a thread has in its hands, what is queued in the connection; on the server: who is registered and what is on its way; one action per write of a file, message sent or message handled |
| `Client` | the client once it is logged in: the menus and `background_thread` | the lock as its counter, `net_lock`, `bg_lock`, mode, stop, answer, notifications, messages not yet shown, a program point per thread; one action per stretch of code that takes one lock |
| `MC...` | instances for TLC | small sets and definitions |
| `..._proofs` | theorems | see Proofs |

In the modules an operator called `X_Something` before `X` is the form `X`
would have after a plausible slip; no specification uses it. It shows that a
property notices the slip (PROJECT.json, "mutants").

Two modules have a variable that is chosen at the start and never changes:
`overlap` of `Undelivered` (calls on the file may overlap) and `overlap` of
`UserDb` (two sessions may register the same user at once). The server may stop at
any point in either case. A property that needs the calm case says so by naming the
variable; every other property holds in both.

Abstractions worth knowing:

- `Lock`: critical sections are one step, because every access to the counter is
  under the mutex. Spurious wakeups are allowed.
- `Protocol`: a frame is read or written in one step, or comes out torn (PART).
  Whether a timeout fires is a choice (`Slow`): durations are not numbers. An
  interrupted `select` is left out. After `destroy_handler` the users' next
  access is undefined and they stop.
- `SendMessage`: the connection is the FIFO channel that `Protocol` is shown to
  implement; a ciphertext opens when key and header agree.
- `HandlerTable`: operations hold the table's lock (`Lock`) and are one step.
  Allocation succeeds. Freeing a session's stack is not modelled.
- `Undelivered`: a message has as many cells as its length, a code is the
  sequence of messages it covers. A file fits one stdio buffer, so a block
  reaches the file in one write.
- `Delivery`: one recipient; a send through the handler of an ended session
  loses the message, the mildest of the outcomes C allows. A stop of the server
  loses what `undel_load` has taken from the file and the loop behind it has not
  sent; the variable `lost` names it. What was sent is with the connection.
- `UserDb`: `und_auth` is a number drawn once, so that a header signed with one
  key is told from a header signed with another. A file is emptied in one step
  and written in the next. Of the later calls on an undelivered file only what they
  do to its header is here (`undel_step`; `Undelivered` has the rest): up to two at
  a time in the run, any number in the proofs. Where `resize` reads beyond the array it allocated,
  the value it finds is either NULL (the walk ends there) or it stops the process.
- `Session`: who is on the line is a name and a key, a message is its kind. Each
  wait with a limit may run out; an end that gives up closes the connection in
  the same step.
- `Conversation`: a message is its number, its nonce and the runs of the two
  programs it belongs to. Reading the file is one step under the lock, a write is
  two: the header, then the block. A process may stop at every step, and then
  what was on the way to it, and what it had queued, is lost. `send_message` only
  queues, so it does not fail when the connection is down; `transmit` takes a
  message to the server. A friend who restarts goes on with the nonce his friend
  file has. After two requests that crossed he may send with the second of two
  entries (`handle_second`): such a message, under any nonce, advances `r_nonce`
  before its MAC is refused (`conversation.c:390-398`). `Conversation` does not ask
  whether a request was crossed: the friend may always do so. Notifications are left to `Client` and `Friends`.
- `Friends`: a file is written when it is closed and in parts from its opening to
  then; a program that stops in between leaves it unreadable. A key is the number
  of the response it was drawn for. A message is queued by its sender (`out`),
  taken to the server (`transmit`), and waits there or in the connection of its
  recipient, in order; what is queued in a program that stops, and what has left
  for it, is lost. Whether a text that opens is refused for its nonce is a choice
  (`Conversation` says when). One profile has one account, and the fingerprint of
  the server does not change, so the user file is not written at login. The file
  that holds no lock while it is written (`add_new_message`) takes the list as it
  is when it is opened.
- `Client`: a stretch of code that takes the lock, does not block and gives it
  back is one step, so the counter differs from 0 only where a thread waits, or
  has gone on, with the lock in its hands. Two such stretches are two steps
  (`answered`, `end_request`). There is one friend. Files are written with
  success, but for the one whose failure keeps the lock, and the conversation file
  of a message that is received, whose failure ends the thread; the server's
  messages are well formed. Where C gives no outcome (an answer that is NULL,
  `fclose(NULL)`, a conversation without a head) the program may crash.

## Runs

Every interleaving of the threads of an instance is explored; the counters named
below are the only bounds.

| Run | Question | Bounds, and why they are enough |
|---|---|---|
| `lock` | exclusion, counter, no missed wakeup, service, refinement of `RWLock` | 3 threads, MAX_READERS 2: one more thread than readers fit, so a full lock, a waiting reader and a waiting writer meet |
| `protocol` | pipe and queue in step, acknowledgements, refinement of `Channel` | 2+1 senders, 1 message each, pipe 1, socket 1, a keep-alive of the client, anything may time out: pipe and socket fill, two messages of one peer carry the same number |
| `protocol_live` | nothing ends it, all is delivered, the loss of the peer is noticed | the same senders, socket 4 (what can be in flight), no timeouts, the server may be told to stop |
| `session` | nobody sleeps forgotten at the gate, names and keys, served or told, names freed, refinement of `Logins` | 2 connections of one name with one key or two, one of them a registration, 1 place at the gate: two that compete meet at the gate, in both checks, and in the table; nothing else is bounded |
| `send_nonce` | violation | 2 threads, 2 messages each |
| `table` | table invariant, load at the limits, refinement of `HandlerMap` | 7 users with colliding hashes, 8 sessions, 4 to 8 buckets: it grows and shrinks, 7 users exceed the top load of 8 buckets (6) and an empty table is below the bottom load of 4 (1), so it refuses to pass either bound; the server may be told to stop while at most 3 connections are there (`MaxAtStop`), in a table of either size |
| `delivery` | file invariant, sent once, one place, accepted is sent, refinement of `MessageStore` | a sender of 2 short and one of 1 long message, so blocks of different lengths follow each other; 3 logins; both values of `overlap`, 1 stop at any point |
| `user_db` | table and files agree, key opens the file, refinement of `UserSet` | 2 sessions, 3 users with shared buckets, 4 registrations begun, 2 calls on undelivered files at a time, 1 stop: one user twice at once, a stop in each write, a login and a message of another user at once, a table that outgrows its buckets |
| `client` | mutexes, mode and requests in step, the end of the client, the end of a request | 1 message of another user with a notification or none before it, 2 requests or messages of its own, 1 time back at the list of friends: a second request after an answered or a lost one, a message at every point of a request or a conversation, a first notification of another kind |
| `conversation` | file whole, screen complete and in order, why a message is discarded, nothing forgotten, shown soon | 2 messages of the friend, with either entry, and 1 of the user's own, 2 runs of the client and 1 restart of the friend, the file there or not, the connection lost and the process stopped at any point: a stored message is overtaken by a live one, a nonce is used again, a message with a wrong MAC comes before one with a right one, the user's own is stored and lost, a stop falls within a write and both threads begin the file |
| `friends` | files follow the lists, keys match, the same first entry, coming back | 2 users, one of them without an account at first; 2 requests and 3 messages of any kind, to others or to oneself, so that requests repeat or cross, or a second text finds the notification of the first; 1 stop at any step, with a queue that is empty or not |
| `friends_live` | befriended | the same users with 2 messages, so that requests repeat or cross or a text follows the news of one, and no stops, after which the property asks nothing |

Only the run of the lock checks deadlock: threads of the other instances make
all the calls they have, a connection ends, and then nothing is left to do.

Fairness. `Lock`: a thread inside the lock's code goes on and a holder releases
(weak); nothing forces a request. Service is stated for the time after requests
and spurious wakeups cease, because while readers keep arriving a writer can
starve. `Protocol`: every thread that can run does (weak, per side), and a
program closes the socket of an ended connection; the properties assume, as
`TrylockSucceeds`, that the reader's brief hold of `in_mutex` does not coincide
with every try. `Delivery`: the recipient's thread goes on and comes back after
each session (weak); senders' calls to the file are strongly fair, since without
`overlap` they wait for each other. `Session`: each end's thread goes on once it is
past the gate, and the user answers what he is asked (weak); nobody has to leave,
and nothing says when the gate opens. `Client`: both threads go on and get a lock
that is free again and again (strong: the mutexes come free repeatedly and
pthreads promise no more); the user ends what he has begun; the server answers
(weak), and selects something at the menu (weak). `Conversation` and `Friends`:
both threads of a program that runs go on and get a lock that comes free (strong);
in `Friends` a user who is not logged in logs in, and what is queued is sent
(weak: the connection handler's thread goes on), and nobody has to answer a
request, stop or ask.
`EndsWhenLost` and `RequestEnds` are stated for behaviours in which the lock is
never kept by a thread that will not give it back (`Kept`): the three places
where the code does that are in the model, and without the premise neither holds.

## Findings

- Nonces (`send_nonce`): `keys->nonce++` (`crypto/crypto_layer.c:68`) has no lock,
  and every sender's thread sends on the recipient's keyset. Two messages leave
  under one nonce, against the comment of `inet/message.h:6`.

Seen while modelling, in the models as the code has it, and without a run:

- No lock covers a call on an undelivered file (`undel_lock`,
  `server/user_db.c:43`, is never used), and of two calls at once that both return
  success one message can be gone. `Undelivered` has it where `overlap` holds;
  `AcceptedIsSent` is for the other behaviours.
- A server that stops loses accepted messages without any overlap: `undel_load`
  empties the file before the first of its messages is sent
  (`server/client_handler.c:229-246`), and a stop between the `fopen` of
  `undel_init_file` and its header, or between the header and the block of
  `undel_add_message`, leaves a file that is refused from then on
  (`server/undelivered.c:71-91`, `:162-182`). `DeliveryInv`, `AcceptedIsSent` and
  `FileInv` name these messages and these files.
- `select_conversation` returns with the lock held when the user goes back or has
  no friend (`client/conversation.c:39`, `:47`). The background thread then waits
  for the lock when it wants to set the mode to -1, and the menu, which is to
  "wait for input or system to exit" (`client/cli.c:208`), does not hear that the
  connection is gone. Even without that, `handler_select` reads the mode and sets
  it to 0 in two steps (`client/cli.c:189-191`) and can overwrite the -1.
- The news of an accepted request is written in 33 bytes
  (`client/notifications.c:343-345`) and read as 41 (`:379`, with the case above),
  so a client that ends before the user has looked at it refuses its notification
  file at every later login. `CanReturn` names it as one of its exceptions.
- A login that fails on a file has been through at the server, which sends what
  it had stored for the user to a program that ends (`login_fails` of `Friends`).
- `create_account` registers the name before any file is written
  (`client/login_server.c:268-273`), and the key is on disk only with the user file
  (`client/cli.c:99`): a stop in between takes the name for good.
- Two users who ask each other at once and both accept end with two entries each;
  what is received is read with the first (`client/conversation.c:311-317`), and each
  may have its own acceptance first. `FirstsAgree` is for requests one side accepts.
- The friend file is not written when a nonce is used: after a restart a friend's
  messages are refused until his nonce has passed those he used before, and
  stored messages are refused when a live one has overtaken them
  (`server/client_handler.c:191-198`). `r_nonce` is advanced before the MAC is
  checked (`client/conversation.c:390-398`), so that a message of a second entry,
  which is refused, can take genuine ones with it. `WhyDiscarded` says that these
  three are the only cases.
- A message of the user's own is stored and shown as sent once it is queued
  (`client/conversation.c:138`): with a connection that is lost before it leaves, or
  that was lost and nobody has noticed, the server never gets it (`OwnAreSent`).
- The response to a friend request is queued and the friend is added and saved
  whether or not it leaves: a stop of the sender then leaves one of the two with a
  friend who does not know it (`client/friendreq.c:565-570`, `KeysMatch`).
- What is received while its conversation is opened is read from the file and
  shown again as new (`InOrder` asks for the first time only); both threads can find
  no conversation file, and the second to begin one empties it; a stop within
  `cfile_add` leaves a file that can never be read again.
- `handshake_sem++` (`server/client_handler.c:109`) is outside the mutex, and two
  connections can pass the test at line 104 together. An update is lost, and if it
  is a `--` the counter stays at its maximum with nobody inside: nobody passes
  again. `GateInv` is what holds all the same.
- `resize` (`server/user_db.c:88-124`) stores the new size in `db.size`, allocates
  with the old one and walks `db.size` buckets of an array that has fewer; it acts
  first at the 13th user. What it reads there may end the process, after that
  user's file is written, so that every later start can end the same way.
  `elements` and `size` are otherwise consistent: `db.size` is set back, so the
  table never grows.
- `add_notif` (`client/notifications.c:192`) reads the mode and sets it in two
  steps; over a 2 this ends the wait of `send_friendreq`, which then uses an answer
  that is NULL (`client/friendreq.c:63`).
- The comments at `crypto/handshake.c:36` and `:242` allow 5 seconds, `total_time`
  four lines below is 10 s; durations are not in the models.

What the same code does right, shown by the passing runs: without overlap the
file is a store and an accepted message is sent, unless a stop had it in hand or left the file half written; even with
overlap and stops nothing is sent twice; the user database agrees with its files
after every stop, and only a double registration of one user at once leaves an
undelivered file under a key the database does not have.

## Proofs

All by TLAPS (SMT, Zenon, PTL), for every value of the constants under the named
ASSUMEs of the modules. These are as weak as the code allows; `HandlerTable`
assumes finite sets of sessions and users and `UserDb` a finite set of users, because
`elements` counts them, and `Undelivered` that every sender has something to send, because a message is its
sender and its rank.

- `Lock_proofs`. `LockInvariant`: Spec => []LockInv. The invariant says who owns
  the mutex, that the counter agrees with the holders, and that a sleeper's
  condition for sleeping still holds; exclusion alone is not inductive, since
  without the counter's agreement a writer could be let in. `MutualExclusion`,
  with at most MAX_READERS readers, follows from the counter. `Implementation`: every step is one of `RWLock` or a
  stutter, using the invariant.
- `Protocol_proofs`. `NoLostWakeup`: Spec => []WakeupInv. A queued message has a
  wakeup: a byte in the pipe, a sender that still owns the mutex and will write
  one, or the connection thread past its read of a byte and before the queue.
  The count of these is at least the length of the queue. Ownership of the
  mutexes is what makes it inductive: only one thread is between the push and
  the byte.
  `IsChannel`: Spec => ImplementsChannel. What is under way is the list of
  messages not yet taken, the frames of kind MSG in the socket and the queue
  behind them, so every step has to be seen through the choice of one kind of
  frame (`Bodies`): an add puts at the end, a write moves over the seam, a read
  moves over the other, `get_message` takes the front, all else leaves the list
  as it is. `EndsOnce` is needed besides types: an end is destroyed once only.
  `AcksUnderWay`: Spec => []AcksMatch. A sequence number may be used by several
  senders and so be waited for more than once. `AcksCounted` therefore counts, for
  each number, how often it is in the map, in the messages to the peer, in the
  peer's hands and on the way back, and each step adds to both sides or to none
  (`Balanced`). While the peer has not failed this makes no acknowledgement
  unexpected.
  `NothingEndsIt`: RoomForAll proves Spec => []StaysUp, for any finite sets of
  senders. `RoomForAll` says that no timeout is exceeded and that the socket has room
  for one frame for each message either side can take and the keep-alives
  (`MCProtocolLive` is such an instance); without it a connection may indeed end by
  itself. `UpInv` says that both threads run, that no half frame is on its way, and
  that what a side has sent or may yet send without anybody adding a message
  (frames on their way, its queue, acknowledgements due now, for messages on
  their way and for those in the peer's queue) is at most the messages taken and its
  keep-alives; so a frame always fits. That no acknowledgement ends it is `AcksCounted`.
- `Lock_proofs` also has the proofs about `SendMessage`. `OneSenderNonces`,
  `OneSenderUnique`: with one sender, as on the client, for any number of messages: only
  proved, with no run of its own. The invariant
  places every number in use below the nonce and ties a message under construction
  to it.
- `Lock_proofs` has the proofs about `UserDb`, for any users, hashes, sizes, sessions
  and stops, from one invariant `DbInv` (the names of `UserDb` are its own for this).
  `TableI`: each chain has just the entries whose hash leads to it (`Has`), and they are
  those of complete user files. That `resize` keeps it is `HasRehash`, by induction over
  the entries of a chain and the buckets: since the size it goes back to is the old one
  and the walk reaches every bucket, its moves only reorder the chains. `ThreadI`:
  between the second look and the insertion a session has the lock, so the user it
  writes stays unknown to the table. `FileI`: a complete file is in the table, still to
  be read, or that of the registration in hand. `KeyI`, if no two sessions register one
  user at once: a complete file and the undelivered file have the same key, or the
  latter is empty, in an `undel_load` or since a stop in one. `CallI`: only users of
  the table have such calls.
  `TableIsFiles`: Spec => []UserDbInv, `UndelStaysReadable`: Spec => []UndelReadable.
  `UsersStayRegistered`: Spec => ImplementsUserSet: a stop loses no user, and adds at
  most the one whose file is complete and who is not in the table.
- `Session_proofs`. `NobodyForgotten`: `HandshakeGate`'s Spec => []GateInv, for any
  number of connections. It is all that survives of the gate: with its counter wrong
  in either direction, sleepers still have somebody to wake them or a full counter.
  `LoggedInHoldsKey`: Spec => []OnlineHoldsKey, for any
  connections, names and keys. Strengthened with types, as `KeyInv`: whoever is in
  the table, or past the check of the key, holds the key of the database, which
  stays because a key once stored is never replaced. `SessionImplementsLogins`
  reads off the four effects a step of a server thread can have on database and
  table and maps them to `Logins`. `NobodyForgottenInSession` lifts `GateInv`: the
  gate's steps are those of `HandshakeGate`, all others leave it alone.
  `EndsKeepStep`: Spec => []SessionInv, which adds that neither end reads a message
  it does not expect. `InStep` says nothing of what is on its way to the client, so
  it is not inductive; `Pairs` is: a table of the places both ends can be at with
  what is under way between them, while both live, after the client has left, and
  after the server has ended. A step moves its connection from one row to another
  (`ServerRows`, `ClientRows`) and leaves the other connections alone (`OneRow`).
- `HandlerTable_proofs`. `LoadStaysBounded`: Spec => []LoadBounded, for any
  sessions, users, hashes and sizes. The bounds must hold together with the types of
  size and elements (`LoadInv`): a table that has just grown must not be below the
  lower bound, and one just halved not above the upper: this is where the rounding of both
  thresholds matters.
  `TableHoldsServing`: Spec => []TableInv, and `TableIsMap`: Spec => ImplementsMap.
  Both rest on `TableI`: each chain lists, each once, exactly the serving sessions
  whose user's hash leads there (`Spread`), `elements` is their number, and no user
  has two. The last is `get_handler` before `add_handler` under one lock; without
  it `rem_handler`, which looks for a user, could take another session's entry.
  The two loops of `resize_handler_table` are recursive functions, and their
  lemmas say what has been moved after each chain and each entry of it. `ThreadI`
  says that the table is destroyed only when the server ends.
- `Delivery_proofs`. `FileAgrees`: Spec => []FileInv, and `FileIsStore`: Spec =>
  ImplementsStore, for any lengths of messages, and again as `FileAgreesInServer` and
  `FileIsStoreInServer` with the sessions as the callers. `Serial` says that without
  overlap the file is, cell by cell, the blocks of some sequence of messages, and
  the header has its end and its number, or is about to (`Agrees`); after a stop
  with the file half written the header is missing or ahead of the blocks for
  ever, so that no later call gets as far as a block or a list (`Dead`); `Fresh` says, with overlap
  and stops too, that no text is there twice or is that of a message still to come.
  `NothingSentTwice`: DSpec => []DeliveryInv. It adds `SentI` (what is sent, or
  loaded and to be sent, is neither in the file nor twice in the lists), which
  holds with overlap because `fopen` has emptied the file before the list that was
  read from it is returned; `SessionI` (a call of the recipient's session is under
  way only while it loads, and a sender is in the file only without a route), and
  `KeptI` (without overlap an accepted message is somewhere, or in `lost`), from
  which `OnePlace` follows; what a stop loses is in no list and no cell, and stays
  so, because a message is made once.
- `Client_proofs`. `ClientInvariant`: Spec => []ClientInv, for any number of
  messages, requests and kept locks. What is wanted is `Exclusive` (the theorem
  `OneThreadSends`) and `AnswerComing` (`NobodySleepsForgotten`). Neither is
  inductive. The first needs who owns the mutexes at each place, with the
  exception that `background_thread`, at its end, gives `net_lock` back even if the
  user interface has it: by then it receives nothing any more. The second needs
  the way of an answer (asked for, in the queue, in the hands of
  `background_thread`, or that thread at its end) and that the answer is still NULL
  when the user interface goes to sleep, which `bg_lock` guarantees.
- `Conversation_proofs`, for any number of messages, runs and restarts, from one
  invariant `IInv`. `ConversationFile`: Spec => []ConvInv needs, at each place of a
  writer, by how much the header is ahead of the blocks, and that what the user
  interface has in its hands past the sending was queued, and a message once queued
  is in the queue, with the server, or lost with a connection.
  `NothingFallsBetween`: Spec => []ScreenComplete holds because the file is read in
  one stretch under the lock; it needs that neither thread has a stored message in
  its hands while the conversation is opened, other than the one `background_thread`
  is about to show. `FileOnlyGrows` ([][...]_vars) needs that a second `cfile_init`
  is preceded by two looks that found no file. `DiscardsExplained` needs the order of
  the nonces on the connection: one of the first entry that is neither from the
  undelivered file nor used before is above all such before it, and above `r_nonce`
  unless a message whose MAC failed has been there (`After`).
  `SentOrderKept`: Spec => []InOrder, from `OrderInv`. Messages may overtake each
  other in the undelivered file, so what is received is not in order, and what is
  stored is only because of `r_nonce`: the messages of one run of the friend have
  rising nonces wherever they are (`WayOK`), and `r_nonce` is at least the nonce of
  each one not later than a message accepted in this run (`TakenOK`). The rest
  carries this to the file, the list and the screen: what is in the hands of
  `background_thread` comes after them (`HandOK`), the list is in the file
  (`StoredOK`), so that when the file is shown what is left in the list is no
  first appearance, and what is only in the list comes after the screen
  (`ComesLater`).
- `Friends_proofs`, for any users, requests, messages, runs and stops. Three
  invariants, each of which needs the one before.
  `FilesInv` says, user by user, what is in a thread's hands at each place, who has
  the lock, and what both files hold then; each step of a user keeps it (one lemma
  for each action) and leaves the other users alone (`Apart`). `FilesOfFriends`:
  Spec => []FriendsInv and `AccountCanReturn`: Spec => []CanReturn follow. That a
  notification names a friend needs the order in which `add_friend` writes: list and
  friend file before the notification.
  `KeysInv` adds that every key in use was granted by an accepted request, and that
  each of the two users has his half or will have it (`BothHave`). A key goes from the
  draw to a hand, to the list, to the file, and in a response from the queue to the
  box to a hand of the other user (`OnWay`); no step loses it but a stop, which then
  says so in `lost` or `cut` (`Keeps`, `Grows`, `Fresh`).
  `KeysOfFriendsMatch`: Spec => []KeysMatch.
  `OrderInv` says, while no program has stopped, that the keys a user has of one
  friend in a role are listed as they were drawn, with those in hand and in the box
  behind them, and that those still queued at the friend are above all of these
  (`OutOrder`). Queues of different users drain in any order, so nothing is said of
  the keys of different friends.
  `FirstKeysAgree`: Spec => []FirstsAgree follows: the first entry that either has is
  the one with the least key, and both have the same keys.

What a recursive function computes is proved by the least counterexample (`Least`,
`UpTo`: the natural numbers are well founded), over the steps of its loop. An
operator declared RECURSIVE is out of reach, so the modules that are proved about
have recursive functions.

Only model-checked: liveness (the prover has no ENABLED), that is `EveryoneServed`
and the other properties with fairness. Every invariant and every refinement
that a run checks is proved.

## Not modelled

Cryptography beyond what it promises, key files and encodings, terminal dialogue,
logging, name resolution, the options of the server and the files of its own key
(sequential, read once at the start), allocation failure, a full disk, freed
memory, a `select` interrupted by a signal. Durations as numbers are planned.

## Plan

Done, in this order: `Lock`, `Protocol`, `SendMessage`, `HandshakeGate`,
`HandlerTable`, `Undelivered`, `Delivery` (which composes the last two), `UserDb`,
`Session` (which composes the gate, the handshake, authentication and the maps
that the table and the database implement), `Client`, `Conversation`, `Friends`.

Next:

1. `KeepAlive` and `Deadline`: durations as numbers, unsigned differences modulo
   2^w.

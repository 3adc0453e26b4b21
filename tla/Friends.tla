--------------------------------- MODULE Friends ------------------------------
(* How users become friends, and what of it is on disk: client/friendreq.c,    *)
(* friends.c and notifications.c over the encrypted files of datafile.c, and   *)
(* the account they belong to (create_account of login_server.c, account.c,    *)
(* profile.c, userfile.c, select_profile of cli.c).                            *)
(*                                                                             *)
(* Each user has a program with two threads, ui and bg, and its files.  A file *)
(* is rewritten in place: emptied when it is opened and written when it is     *)
(* closed, and the program may stop in between.  The server keeps what it has  *)
(* for a user in order (Channel, MessageStore); what has left for a program    *)
(* that then stops is lost, and so is what was queued in its own connection.   *)
(* A connection that is lost before its program stops is one on which nothing  *)
(* was sent or received meanwhile.  A message opens for whom it was made, and  *)
(* what happens while a key is asked for is left to Client.                    *)
EXTENDS Integers, Sequences, SequencesExt

CONSTANTS
    User,
    NewUser,          \* those who have no account yet
    MaxRequests,      \* bound: friend requests
    MaxSent,          \* bound: friend requests and messages of conversations
    MaxStops          \* bound: stops of a program

ASSUME FriendsAssumption ==
    NewUser \subseteq User /\ {MaxRequests, MaxSent, MaxStops} \subseteq Nat

VARIABLES
    registered,       \* on the server: the users it knows
    box,              \* and the messages for each
    out,              \* queued in the connection of each: <<user, message>>

    friends, notifs,  \* in the memory of each program
    lock,             \* for writing: who has it
    pc,               \* of both threads of each
    hand,             \* what each thread is about to add: a friend or a
                      \* notification
    ffile, nfile,     \* the friend file and the notification file
    profile,          \* the user file: the accounts in it

    asked, sent,      \* how many requests were sent, requests and texts, keys
    keys, stops,      \* drawn, and stops
    cut,              \* history: users whose program stopped within a write
    raced,            \* history: users of whom an old list was written
    half,             \* history: users whose program stopped while it made
                      \* their account
    accepted,         \* history: <<user, friend, key>> of each response
    lost              \* history: keys that were lost with a program, in a
                      \* response or before their friend was added

Thread == {"ui", "bg"}
server == <<registered, box>>
net == <<server, out>>
memory == <<friends, notifs, lock, pc, hand>>
disk == <<ffile, nfile, profile>>
counters == <<asked, sent, keys, stops>>
past == <<cut, raced, half, accepted, lost>>
history == <<counters, past>>
vars == <<net, memory, disk, history>>

Nobody == "nobody"
Empty == [type |-> "empty"]

(* A file that is not there, or in parts, holds nothing that can be read.      *)
Torn == [whole |-> FALSE, data |-> <<>>]
File(list) == [whole |-> TRUE, data |-> list]

Request(u) == [type |-> "request", of |-> u]
News(u) == [type |-> "accepted", of |-> u]
Unread(u) == [type |-> "unread", of |-> u]
Text(u, f) == [type |-> "text", of |-> u, key |-> f.key, s |-> f.s]
Response(u, k) == [type |-> "response", of |-> u, key |-> k]

(* The two halves of the key material: the user who answers a request sends    *)
(* with the first (friendreq_send_resp_message), the other receives with it.   *)
Friend(u, k, mine) ==
    [type |-> "friend", of |-> u, key |-> k, s |-> mine, r |-> 3 - mine]

Off == [ui |-> "off", bg |-> "off"]
On == [ui |-> "menu", bg |-> "recv"]
Running(u) == pc[u].ui # "off"
NoHands == [t \in Thread |-> Empty]

Init ==
    /\ registered = User \ NewUser
    /\ box = [u \in User |-> <<>>] /\ out = [u \in User |-> <<>>]
    /\ friends = [u \in User |-> <<>>] /\ notifs = [u \in User |-> <<>>]
    /\ lock = [u \in User |-> Nobody]
    /\ pc = [u \in User |-> Off] /\ hand = [u \in User |-> NoHands]
    /\ ffile = [u \in User |-> IF u \in NewUser THEN Torn ELSE File(<<>>)]
    /\ nfile = ffile
    /\ profile = [u \in User |-> IF u \in NewUser THEN File(<<>>) ELSE File(<<u>>)]
    /\ asked = 0 /\ sent = 0 /\ keys = 0 /\ stops = 0
    /\ cut = {} /\ raced = {} /\ half = {} /\ accepted = {} /\ lost = {}

Go(u, t, from, to) == pc[u][t] = from /\ pc' = [pc EXCEPT ![u][t] = to]
Take(u, t, h) == hand' = [hand EXCEPT ![u][t] = h]
Send(u, v, m) == out' = [out EXCEPT ![u] = Append(@, <<v, m>>)]
Lock(u, t) == lock[u] = Nobody /\ lock' = [lock EXCEPT ![u] = t]
Unlock(u) == lock' = [lock EXCEPT ![u] = Nobody]

(* write_datafile, before and after.                                           *)
Truncated(file, u) == [file EXCEPT ![u] = Torn]
Written(file, u, list) == [file EXCEPT ![u] = File(list)]

-------------------------------------------------------------------------------
(* The friend list and the notifications.                                      *)

add_friend(u, t) ==
    /\ Go(u, t, "add friend", "friend file") /\ Lock(u, t)
    /\ friends' = [friends EXCEPT ![u] = Append(@, hand[u][t])]
    /\ ffile' = Truncated(ffile, u)
    /\ UNCHANGED <<net, notifs, hand, nfile, profile, history>>

(* ... and, for an accepted request, the notification of it.                   *)
write_friendfile(u, t) ==
    /\ Go(u, t, "friend file", IF t = "bg" THEN "insert" ELSE "menu") /\ Unlock(u)
    /\ ffile' = Written(ffile, u, friends[u])
    /\ Take(u, t, IF t = "bg" THEN News(hand[u].bg.of) ELSE Empty)
    /\ UNCHANGED <<net, friends, notifs, nfile, profile, history>>

(* Variant: the list is changed under the lock, and written after it.          *)
insert_notif_Unlocked(u) ==
    /\ Go(u, "bg", "insert", "notif file") /\ lock[u] = Nobody
    /\ notifs' = [notifs EXCEPT ![u] = Append(@, hand[u].bg)]
    /\ nfile' = Truncated(nfile, u)
    /\ UNCHANGED <<net, friends, lock, hand, ffile, profile, history>>

insert_notif(u) ==
    /\ Go(u, "bg", "insert", "notif file") /\ Lock(u, "bg")
    /\ notifs' = [notifs EXCEPT ![u] = Append(@, hand[u].bg)]
    /\ nfile' = Truncated(nfile, u)
    /\ UNCHANGED <<net, friends, hand, ffile, profile, history>>

insert_written(u) ==
    /\ Go(u, "bg", "notif file", "recv") /\ Unlock(u)
    /\ nfile' = Written(nfile, u, notifs[u])
    /\ Take(u, "bg", Empty)
    /\ UNCHANGED <<net, friends, notifs, ffile, profile, history>>

(* add_new_message.  The loop over the notifications ends at once or never; the *)
(* count of one that is there is written when the lock has been released.      *)
add_new_message(u) ==
    LET n == hand[u].bg IN
    /\ lock[u] = Nobody /\ UNCHANGED <<net, friends, notifs, ffile, profile, history>>
    /\ \/ /\ notifs[u] = <<>> /\ Go(u, "bg", "new message", "insert")
          /\ UNCHANGED <<lock, hand, nfile>>
       \/ /\ notifs[u] # <<>> /\ notifs[u][1] = n
          /\ Go(u, "bg", "new message", "count")
          /\ Take(u, "bg", [type |-> "list", list |-> notifs[u]])
          /\ nfile' = Truncated(nfile, u)
          /\ UNCHANGED lock
       \/ /\ notifs[u] # <<>> /\ notifs[u][1] # n
          /\ Go(u, "bg", "new message", "endless") /\ Lock(u, "bg")
          /\ UNCHANGED <<hand, nfile>>

count_written(u) ==
    LET list == hand[u].bg.list IN
    /\ Go(u, "bg", "count", "recv")
    /\ nfile' = Written(nfile, u, list)
    /\ raced' = IF list = notifs[u] THEN raced ELSE raced \cup {u}
    /\ Take(u, "bg", Empty)
    /\ UNCHANGED <<net, friends, notifs, lock, ffile, profile, counters, cut, half,
                   accepted, lost>>

(* view_notifs reads the head of the list, and then takes the lock: of a list  *)
(* that was empty it shows nothing, and can only clear all.                    *)
view_notifs(u) ==
    /\ Go(u, "ui", "menu", IF notifs[u] = <<>> THEN "view none" ELSE "view")
    /\ UNCHANGED <<net, friends, notifs, lock, hand, disk, history>>

Selected(u, from, n, rest) ==
    /\ Go(u, "ui", from, "notif file") /\ Lock(u, "ui")
    /\ notifs' = [notifs EXCEPT ![u] = rest]
    /\ Take(u, "ui", n)
    /\ nfile' = Truncated(nfile, u)
    /\ UNCHANGED <<net, friends, ffile, profile, history>>

select_notif(u) ==
    \/ \E i \in DOMAIN notifs[u] :
          Selected(u, "view", notifs[u][i], RemoveAt(notifs[u], i))
    \/ \E view \in {"view", "view none"} : Selected(u, view, Empty, <<>>)

(* Variant: the lock is kept.                                                  *)
notif_selected_Keeps(u) ==
    /\ Go(u, "ui", "notif file",
          IF hand[u].ui.type = "request" THEN "response" ELSE "menu")
    /\ UNCHANGED lock
    /\ nfile' = Written(nfile, u, notifs[u])
    /\ Take(u, "ui", IF hand[u].ui.type = "request" THEN hand[u].ui ELSE Empty)
    /\ UNCHANGED <<net, friends, notifs, ffile, profile, history>>

(* A request is answered now; of other news a conversation is opened.          *)
notif_selected(u) ==
    /\ Go(u, "ui", "notif file",
          IF hand[u].ui.type = "request" THEN "response" ELSE "menu")
    /\ Unlock(u)
    /\ nfile' = Written(nfile, u, notifs[u])
    /\ Take(u, "ui", IF hand[u].ui.type = "request" THEN hand[u].ui ELSE Empty)
    /\ UNCHANGED <<net, friends, notifs, ffile, profile, history>>

-------------------------------------------------------------------------------
(* Requests and responses.                                                     *)

(* The server has no key of a user it does not know.                           *)
send_friendreq(u, v) ==
    /\ Go(u, "ui", "menu", "menu")
    /\ asked < MaxRequests /\ sent < MaxSent
    /\ asked' = asked + 1 /\ sent' = sent + 1
    /\ v \in registered /\ Send(u, v, Request(u))
    /\ UNCHANGED <<server, friends, notifs, lock, hand, disk, keys, stops, past>>

(* In a conversation, with the keys of the friend the user selects.            *)
cmessage_send(u) ==
    /\ Go(u, "ui", "menu", "menu")
    /\ sent < MaxSent /\ sent' = sent + 1
    /\ \E f \in ToSet(friends[u]) : Send(u, f.of, Text(u, f))
    /\ UNCHANGED <<server, friends, notifs, lock, hand, disk, asked, keys, stops,
                   past>>

reject(u) ==
    /\ Go(u, "ui", "response", "menu")
    /\ Take(u, "ui", Empty)
    /\ UNCHANGED <<net, friends, notifs, lock, disk, history>>

(* "send the response and then add them as a friend": send_message queues it.  *)
friendreq_send_response(u) ==
    LET v == hand[u].ui.of  k == keys + 1 IN
    /\ Go(u, "ui", "response", "add friend")
    /\ keys' = k /\ Send(u, v, Response(u, k))
    /\ Take(u, "ui", Friend(v, k, 1))
    /\ accepted' = accepted \cup {<<u, v, k>>}
    /\ UNCHANGED <<server, friends, notifs, lock, disk, asked, sent, stops, cut,
                   raced, half, lost>>

(* The connection handler writes what is first in the queue, and the server    *)
(* passes it on.                                                               *)
transmit(u) ==
    /\ out[u] # <<>> /\ out' = [out EXCEPT ![u] = Tail(@)]
    /\ LET x == Head(out[u]) IN box' = [box EXCEPT ![x[1]] = Append(@, x[2])]
    /\ UNCHANGED <<registered, memory, disk, history>>

(* parse_friendreq, parse_friendreq_response and parse_conv_message: a text is  *)
(* read with the keys of the first entry of its sender, and even so its number *)
(* may be refused.                                                             *)
First(list, v) ==
    list[CHOOSE i \in DOMAIN list :
            list[i].of = v /\ \A j \in 1 .. i - 1 : list[j].of # v]
Opens(list, m) ==
    /\ \E f \in ToSet(list) : f.of = m.of
    /\ LET f == First(list, m.of) IN f.key = m.key /\ f.r = m.s

Handled(u, m, f) ==
    /\ \/ /\ m.type = "request" /\ Go(u, "bg", "recv", "insert")
          /\ Take(u, "bg", m)
       \/ /\ m.type = "response" /\ Go(u, "bg", "recv", "add friend")
          /\ Take(u, "bg", f)
       \/ /\ m.type = "text" /\ Opens(friends[u], m) /\ Go(u, "bg", "recv", "new message")
          /\ Take(u, "bg", Unread(m.of))
       \/ m.type = "text" /\ Go(u, "bg", "recv", "recv") /\ UNCHANGED hand
    /\ UNCHANGED <<registered, out, friends, notifs, lock, disk, history>>

(* Variant: the keys are taken as they were sent.                              *)
bg_message_Unswapped(u) ==
    /\ box[u] # <<>> /\ box' = [box EXCEPT ![u] = Tail(@)]
    /\ LET m == Head(box[u]) IN
       Handled(u, m, IF m.type = "response" THEN Friend(m.of, m.key, 1) ELSE Empty)

(* Variant: the latest first.                                                  *)
bg_message_Latest(u) ==
    /\ box[u] # <<>> /\ box' = [box EXCEPT ![u] = Front(@)]
    /\ LET m == Last(box[u]) IN
       Handled(u, m, IF m.type = "response" THEN Friend(m.of, m.key, 2) ELSE Empty)

bg_message(u) ==
    /\ box[u] # <<>> /\ box' = [box EXCEPT ![u] = Tail(@)]
    /\ LET m == Head(box[u]) IN
       Handled(u, m, IF m.type = "response" THEN Friend(m.of, m.key, 2) ELSE Empty)

-------------------------------------------------------------------------------
(* An account is made: registered, its files, and then the profile.            *)

HasAccount(u) == profile[u].data = <<u>>
start_program(u) == pc[u] = Off /\ profile[u].whole

create_account(u) ==
    /\ start_program(u) /\ ~HasAccount(u) /\ u \notin registered
    /\ registered' = registered \cup {u}
    /\ Go(u, "ui", "off", "init friend file")
    /\ UNCHANGED <<box, out, friends, notifs, lock, hand, disk, history>>

init_account_file(u) ==
    /\ \/ /\ Go(u, "ui", "init friend file", "init notif file")
          /\ ffile' = Written(ffile, u, <<>>) /\ UNCHANGED nfile
       \/ /\ Go(u, "ui", "init notif file", "add account")
          /\ nfile' = Written(nfile, u, <<>>) /\ UNCHANGED ffile
    /\ UNCHANGED <<net, friends, notifs, lock, hand, profile, history>>

(* Variant: the profile is not written.                                        *)
add_account_Unwritten(u) ==
    /\ pc[u].ui = "add account" /\ pc' = [pc EXCEPT ![u] = On]
    /\ UNCHANGED <<net, friends, notifs, lock, hand, disk, history>>

add_account(u) ==
    /\ Go(u, "ui", "add account", "user file")
    /\ profile' = Truncated(profile, u)
    /\ UNCHANGED <<net, friends, notifs, lock, hand, ffile, nfile, history>>

write_userfile(u) ==
    /\ pc[u].ui = "user file" /\ pc' = [pc EXCEPT ![u] = On]
    /\ profile' = Written(profile, u, <<u>>)
    /\ UNCHANGED <<net, friends, notifs, lock, hand, ffile, nfile, history>>

-------------------------------------------------------------------------------
(* The program starts with an account, and stops.                              *)

(* What read_friendfile and read_notiffile accept.  A notification of an       *)
(* accepted request is written shorter than notif_bin_parse reads it, and one  *)
(* that names a friend needs him in the list.                                  *)
FriendsOf(list) == {f.of : f \in ToSet(list)}
NamedIn(list) == {n.of : n \in {x \in ToSet(list) : x.type # "request"}}
Readable(u) ==
    /\ ffile[u].whole /\ nfile[u].whole
    /\ \A n \in ToSet(nfile[u].data) : n.type # "accepted"
    /\ NamedIn(nfile[u].data) \subseteq FriendsOf(ffile[u].data)

login(u) ==
    /\ start_program(u) /\ HasAccount(u) /\ Readable(u)
    /\ pc' = [pc EXCEPT ![u] = On]
    /\ friends' = [friends EXCEPT ![u] = ffile[u].data]
    /\ notifs' = [notifs EXCEPT ![u] = nfile[u].data]
    /\ UNCHANGED <<net, lock, hand, disk, history>>

KeysIn(messages) == {m.key : m \in {x \in messages : x.type \in {"response", "friend"}}}

Queued(u) == {x[2] : x \in ToSet(out[u])}

(* What was sent to a program is lost with it, and what it had not sent yet.   *)
Lose(u, n) ==
    /\ box' = [box EXCEPT ![u] = SubSeq(@, n + 1, Len(@))]
    /\ out' = [out EXCEPT ![u] = <<>>]
    /\ lost' = lost \cup KeysIn(ToSet(SubSeq(box[u], 1, n))) \cup KeysIn(Queued(u))
                    \cup KeysIn({hand[u][t] : t \in Thread})

(* The user logs in, and the program ends because it cannot read its files.    *)
login_fails(u) ==
    /\ start_program(u) /\ HasAccount(u) /\ ~Readable(u)
    /\ Lose(u, Len(box[u]))
    /\ UNCHANGED <<registered, memory, disk, counters, cut, raced, half, accepted>>

Creating == {"init friend file", "init notif file", "add account", "user file"}
Writing == {"friend file", "notif file", "count"}

stop(u) ==
    /\ Running(u) /\ stops < MaxStops /\ stops' = stops + 1
    /\ pc' = [pc EXCEPT ![u] = Off] /\ hand' = [hand EXCEPT ![u] = NoHands]
    /\ lock' = [lock EXCEPT ![u] = Nobody]
    /\ friends' = [friends EXCEPT ![u] = <<>>] /\ notifs' = [notifs EXCEPT ![u] = <<>>]
    /\ \E n \in 0 .. Len(box[u]) : Lose(u, n)
    /\ cut' = IF \E t \in Thread : pc[u][t] \in Writing THEN cut \cup {u} ELSE cut
    /\ half' = IF pc[u].ui \in Creating THEN half \cup {u} ELSE half
    /\ UNCHANGED <<registered, disk, asked, sent, keys, raced, accepted>>

-------------------------------------------------------------------------------
user_interface(u) ==
    \/ add_friend(u, "ui") \/ write_friendfile(u, "ui")
    \/ select_notif(u) \/ notif_selected(u) \/ reject(u) \/ friendreq_send_response(u)
    \/ init_account_file(u) \/ add_account(u) \/ write_userfile(u)
background_thread(u) ==
    \/ add_friend(u, "bg") \/ write_friendfile(u, "bg")
    \/ insert_notif(u) \/ insert_written(u) \/ bg_message(u)
    \/ add_new_message(u) \/ count_written(u)
user(u) ==
    \/ view_notifs(u) \/ cmessage_send(u) \/ create_account(u)
    \/ login(u) \/ login_fails(u) \/ stop(u)

Next ==
    \E u \in User :
        \/ user_interface(u) \/ background_thread(u) \/ user(u) \/ transmit(u)
        \/ \E v \in User : send_friendreq(u, v)

Spec == Init /\ [][Next]_vars

Fairness ==
    \A u \in User : /\ SF_vars(user_interface(u)) /\ SF_vars(background_thread(u))
                    /\ WF_vars(login(u)) /\ WF_vars(transmit(u))
FairSpec == Spec /\ Fairness

-------------------------------------------------------------------------------
Places == Creating \cup {"off", "menu", "add friend", "friend file", "notif file",
                         "response", "recv", "insert", "view", "view none",
                         "new message", "count", "endless"}
TypeOK ==
    /\ registered \subseteq User /\ {asked, sent, keys, stops} \subseteq Nat
    /\ \A u \in User, t \in Thread :
          pc[u][t] \in Places /\ lock[u] \in Thread \cup {Nobody}

(* The files are those of the lists in memory whenever nobody writes one, but  *)
(* for a count that was written, without the lock, over a newer list; in one   *)
(* piece unless the program stopped within a write; and whom a notification    *)
(* names is in the friend file.                                                *)
FilesAgree ==
    \A u \in User :
        /\ \A t \in Thread :
              lock[u] = t <=> pc[u][t] \in {"friend file", "notif file", "endless"}
        /\ lock[u] = Nobody /\ pc[u].bg \notin {"off", "count"} =>
              /\ ffile[u] = File(friends[u])
              /\ nfile[u] = File(notifs[u]) \/ u \in raced
        /\ pc[u].ui = "off" /\ HasAccount(u) /\ u \notin cut =>
              ffile[u].whole /\ nfile[u].whole
        /\ ffile[u].whole => NamedIn(nfile[u].data) \subseteq FriendsOf(ffile[u].data)
FriendsInv == TypeOK /\ FilesAgree

(* What a user has of another: in memory, or on disk when the program is off.  *)
List(u) == IF pc[u].bg # "off" THEN friends[u] ELSE ffile[u].data
Has(u, f) == f \in ToSet(List(u)) \cup {hand[u][t] : t \in Thread}

(* Every accepted request makes two friends with matching keys: each sends     *)
(* with what the other receives with.  Either has the other, is about to, or   *)
(* has the response on its way, unless a program stopped with the key in its   *)
(* hands or its queue, or within a write (friendreq_send_response queues the   *)
(* response before it adds the friend, and the file is written whether or not  *)
(* the response ever leaves); and nobody has a friend otherwise.               *)
KeysMatch ==
    /\ \A a \in accepted :
          LET u == a[1]  v == a[2]  k == a[3] IN
          k \notin lost /\ {u, v} \cap cut = {} =>
              /\ Has(u, Friend(v, k, 1))
              /\ \/ Has(v, Friend(u, k, 2))
                 \/ Response(u, k) \in ToSet(box[v])
                 \/ <<v, Response(u, k)>> \in ToSet(out[u])
    /\ \A u \in User : \A f \in ToSet(List(u)) :
          \/ /\ f = Friend(f.of, f.key, 1)
             /\ <<u, f.of, f.key>> \in accepted
          \/ /\ f = Friend(f.of, f.key, 2)
             /\ <<f.of, u, f.key>> \in accepted

(* What a user receives is read with the keys of the first entry of its        *)
(* sender.  If only one of two users accepted requests, however many, these are*)
(* the same keys for both once nothing is on its way and nobody has stopped.   *)
OneSided(u, v) ==
    /\ \E a \in accepted : a[1] = u /\ a[2] = v
    /\ ~ \E a \in accepted : a[1] = v /\ a[2] = u
Settled ==
    \A u \in User : /\ \A t \in Thread : hand[u][t].type # "friend"
                   /\ \A m \in ToSet(box[u]) \cup Queued(u) : m.type # "response"
FirstsAgree ==
    stops = 0 /\ Settled =>
        \A u, v \in User : OneSided(u, v) => First(List(u), v).key = First(List(v), u).key

(* Whoever has registered can come back: his key and his files are on disk and *)
(* can be read.  The exceptions are a stop within a write, a stop while the    *)
(* account is made (create_account registers before anything is on disk), and  *)
(* the news of an accepted request, which read_notiffile cannot read.          *)
CanReturn ==
    \A u \in registered :
        pc[u].ui = "off" =>
            \/ /\ profile[u].whole
               /\ HasAccount(u) /\ Readable(u)
            \/ u \in cut \cup half
            \/ \E n \in ToSet(nfile[u].data) : n.type = "accepted"

(* A request that is accepted makes friends of both, unless a program stops or *)
(* is in the loop that does not end.                                           *)
Befriended ==
    \A u, v \in User :
        (\E a \in accepted : a[1] = u /\ a[2] = v)
            ~> \/ stops > 0 \/ \E w \in {u, v} : pc[w].bg = "endless"
               \/ v \in FriendsOf(friends[u]) /\ u \in FriendsOf(friends[v])
===============================================================================

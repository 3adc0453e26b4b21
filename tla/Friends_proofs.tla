----------------------------- MODULE Friends_proofs ---------------------------
(* Proofs about Friends, for any users, any numbers of requests, messages and  *)
(* stops: what the files hold, that accepted requests give both users the same *)
(* keys, and that a registered user can come back.                             *)
EXTENDS Friends, NaturalsInduction, WellFoundedInduction, SequenceTheorems, TLAPS

Buddy == [type : {"friend"}, of : User, key : Nat, s : {1, 2}, r : {1, 2}]
Notice == [type : {"request", "accepted", "unread"}, of : User]
Listed == [type : {"list"}, list : Seq(Notice)]
Mail == [type : {"request"}, of : User] \cup [type : {"response"}, of : User, key : Nat]
            \cup [type : {"text"}, of : User, key : Nat, s : {1, 2}]
MailOf(u) == {m \in Mail : m.of = u}
Files(S) == {Torn} \cup [whole : {TRUE}, data : Seq(S)]

(* The variables are functions; what they hold for one user.                  *)
Shape ==
    /\ friends = [w \in User |-> friends[w]] /\ notifs = [w \in User |-> notifs[w]]
    /\ lock = [w \in User |-> lock[w]]
    /\ pc = [w \in User |-> [t \in Thread |-> pc[w][t]]]
    /\ hand = [w \in User |-> [t \in Thread |-> hand[w][t]]]
    /\ ffile = [w \in User |-> ffile[w]] /\ nfile = [w \in User |-> nfile[w]]
    /\ profile = [w \in User |-> profile[w]]
    /\ box = [w \in User |-> box[w]] /\ out = [w \in User |-> out[w]]
Numbers == registered \subseteq User /\ {asked, sent, keys, stops} \subseteq Nat
TypesOf(u) ==
    /\ friends[u] \in Seq(Buddy) /\ notifs[u] \in Seq(Notice)
    /\ lock[u] \in Thread \cup {Nobody}
    /\ ffile[u] \in Files(Buddy) /\ nfile[u] \in Files(Notice) /\ profile[u] \in Files(User)

UiPlace == Creating \cup {"off", "menu", "view", "view none", "notif file", "response",
                          "add friend", "friend file"}
BgPlace == {"off", "recv", "insert", "notif file", "add friend", "friend file",
            "new message", "count", "endless"}
Befriending == {"add friend", "friend file"}

(* Where the threads of a program are, and what is in their hands there.       *)
PlaceOK(u) ==
    /\ pc[u]["ui"] \in UiPlace /\ pc[u]["bg"] \in BgPlace
    /\ pc[u]["bg"] = "off" <=> pc[u]["ui"] \in Creating \cup {"off"}
UiHand(u) ==
    LET p == pc[u]["ui"]  h == hand[u]["ui"] IN
    /\ p \in Befriending => h \in Buddy
    /\ p = "notif file" => h \in Notice \cup {Empty}
    /\ p = "response" => h \in Notice
    /\ p \notin Befriending \cup {"notif file", "response"} => h = Empty
BgHand(u) ==
    LET p == pc[u]["bg"]  h == hand[u]["bg"] IN
    /\ p \in Befriending => h \in Buddy
    /\ p \in {"insert", "new message", "notif file", "endless"} => h \in Notice
    /\ p = "count" => h \in Listed
    /\ p \in {"off", "recv"} => h = Empty
Locking == {"friend file", "notif file", "endless"}
LockOK(u) ==
    /\ lock[u] = "ui" <=> pc[u]["ui"] \in Locking
    /\ lock[u] = "bg" <=> pc[u]["bg"] \in Locking

(* The account: what there is of it when it is not yet, or only half, made.    *)
AccountOK(u) ==
    LET p == pc[u]["ui"] IN
    /\ u \notin registered =>
          p = "off" /\ profile[u] = File(<<>>) /\ ffile[u] = Torn /\ nfile[u] = Torn
    /\ pc[u]["bg"] # "off" => profile[u] = File(<<u>>)
    /\ p = "off" /\ u \in registered => profile[u] = File(<<u>>) \/ u \in half
    /\ p \in Creating => profile[u] = IF p = "user file" THEN Torn ELSE File(<<>>)
    /\ p = "init friend file" => ffile[u] = Torn /\ nfile[u] = Torn
    /\ p = "init notif file" => ffile[u] = File(<<>>)
    /\ p \in {"add account", "user file"} => ffile[u] = File(<<>>) /\ nfile[u] = File(<<>>)
    /\ pc[u]["bg"] = "off" => friends[u] = <<>> /\ notifs[u] = <<>>

Writes(u, place) == pc[u]["ui"] = place \/ pc[u]["bg"] = place

(* The files of a program that runs, and of one that is off.                   *)
FriendFileOK(u) ==
    pc[u]["bg"] # "off" =>
        ffile[u] = IF Writes(u, "friend file") THEN Torn ELSE File(friends[u])
NotifFileOK(u) ==
    pc[u]["bg"] # "off" =>
          \/ Writes(u, "notif file") \/ pc[u]["bg"] = "count"
          \/ nfile[u] = File(notifs[u])
          \/ u \in raced /\ nfile[u].whole
OffFilesOK(u) ==
    pc[u]["bg"] = "off" /\ profile[u] = File(<<u>>) =>
        u \in cut \/ (ffile[u].whole /\ nfile[u].whole)

(* Whom the notifications name is a friend.                                    *)
NamesOK(u) ==
    pc[u]["bg"] # "off" =>
          /\ NamedIn(nfile[u].data) \cup NamedIn(notifs[u]) \subseteq FriendsOf(friends[u])
          /\ pc[u]["bg"] \in {"insert", "new message"} /\ hand[u]["bg"].type # "request" =>
                hand[u]["bg"].of \in FriendsOf(friends[u])
          /\ pc[u]["bg"] = "count" =>
                NamedIn(hand[u]["bg"].list) \subseteq FriendsOf(friends[u])
          /\ pc[u]["ui"] = "friend file" => hand[u]["ui"] \in ToSet(friends[u])
          /\ pc[u]["bg"] = "friend file" => hand[u]["bg"] \in ToSet(friends[u])
OffNamesOK(u) ==
    pc[u]["bg"] = "off" /\ ffile[u].whole =>
        NamedIn(nfile[u].data) \subseteq FriendsOf(ffile[u].data)

UserOK(u) ==
    /\ TypesOf(u) /\ PlaceOK(u) /\ UiHand(u) /\ BgHand(u) /\ LockOK(u) /\ AccountOK(u)
    /\ FriendFileOK(u) /\ NotifFileOK(u) /\ OffFilesOK(u) /\ NamesOK(u)
    /\ OffNamesOK(u)

FilesInv ==
    /\ Shape /\ Numbers
    /\ \A u \in User : box[u] \in Seq(Mail) /\ out[u] \in Seq(User \X MailOf(u))
    /\ \A u \in User : UserOK(u)

(* Whose keys: every friend and every response comes from a request accepted.  *)
GrantedBy(u, f, requests) ==
    \/ f = Friend(f.of, f.key, 1) /\ <<u, f.of, f.key>> \in requests
    \/ f = Friend(f.of, f.key, 2) /\ <<f.of, u, f.key>> \in requests
Granted(u, f) == GrantedBy(u, f, accepted)
OnWay(u, m) == m \in ToSet(box[u]) \/ <<u, m>> \in ToSet(out[m.of])
GrantedAll ==
    \A u \in User :
        /\ \A f \in ToSet(friends[u]) \cup ToSet(ffile[u].data) : Granted(u, f)
        /\ \A t \in Thread : hand[u][t].type = "friend" => Granted(u, hand[u][t])
        /\ \A m \in Mail :
              m.type = "response" /\ OnWay(u, m) => <<m.of, u, m.key>> \in accepted
AcceptedOK == accepted \subseteq User \X User \X (1 .. keys)
BothHave ==
    \A u, v \in User, k \in Nat :
        <<u, v, k>> \in accepted /\ k \notin lost /\ u \notin cut /\ v \notin cut =>
              /\ Has(u, Friend(v, k, 1))
              /\ Has(v, Friend(u, k, 2)) \/ OnWay(v, Response(u, k))
KeysInv == FilesInv /\ AcceptedOK /\ GrantedAll /\ BothHave

(* While no program has stopped, keys of a friend are listed in the order they *)
(* were drawn.                                                                 *)
Rising(list, h) ==
    \A i, j \in DOMAIN list :
        i < j /\ list[i].s = h /\ list[j].s = h /\ list[i].of = list[j].of =>
            list[i].key < list[j].key
Above(k, v, list, h) ==
    \A i \in DOMAIN list : list[i].s = h /\ list[i].of = v => list[i].key < k
Waiting(messages, list) ==
    \A i \in DOMAIN messages : messages[i].type = "response" =>
        /\ Above(messages[i].key, messages[i].of, list, 2)
        /\ \A j \in DOMAIN messages :
              j < i /\ messages[j].type = "response" /\ messages[j].of = messages[i].of =>
                  messages[j].key < messages[i].key
After(k, v, messages) ==
    \A i \in DOMAIN messages :
        messages[i].type = "response" /\ messages[i].of = v => k < messages[i].key
ListOrder(u) ==
    LET ui == hand[u]["ui"]  bg == hand[u]["bg"] IN
    /\ Rising(friends[u], 1) /\ Rising(friends[u], 2)
    /\ pc[u]["ui"] \in Befriending => ui.s = 1
    /\ pc[u]["bg"] \in Befriending => bg.s = 2
    /\ pc[u]["ui"] = "add friend" => Above(ui.key, ui.of, friends[u], 1)
    /\ pc[u]["bg"] = "add friend" => Above(bg.key, bg.of, friends[u], 2)
MailOrder(u) ==
    /\ Waiting(box[u], friends[u])
    /\ pc[u]["bg"] = "add friend" => After(hand[u]["bg"].key, hand[u]["bg"].of, box[u])

(* What a user holds of a friend goes from a hand to list and file; of the     *)
(* keys that one of his friends drew, a queue has those above all he got.      *)
Old(u) ==
    ToSet(friends[u]) \cup ToSet(ffile[u].data)
        \cup {hand[u][t] : t \in {s \in Thread : hand[u][s].type = "friend"}}
Got(w, v, k) ==
    \/ \E f \in Old(w) : f.s = 2 /\ f.of = v /\ f.key = k
    \/ \E m \in ToSet(box[w]) : m.type = "response" /\ m.of = v /\ m.key = k
Drawn(queue) ==
    \A i, j \in DOMAIN queue :
        j < i /\ queue[i][2].type = "response" /\ queue[j][2].type = "response" =>
            queue[j][2].key < queue[i][2].key
Unseen(u, x) ==
    x[2].type = "response" => \A k \in Nat : Got(x[1], u, k) => k < x[2].key
OutOrder(u) == Drawn(out[u]) /\ \A x \in ToSet(out[u]) : Unseen(u, x)
NoStop ==
    /\ cut = {} /\ half = {} /\ lost = {}
    /\ \A u \in User : pc[u]["bg"] = "off" /\ profile[u] = File(<<u>>) =>
          ffile[u].data = <<>> /\ nfile[u].data = <<>>
OrderInv ==
    stops = 0 => NoStop /\ \A u \in User : ListOrder(u) /\ MailOrder(u) /\ OutOrder(u)

(* Induction over a set of numbers: one that is not empty has a least.         *)
LEMMA Least ==
    ASSUME NEW T \in SUBSET Nat, T # {}
    PROVE  \E n \in T : \A k \in T : n <= k
  <1> DEFINE R == {p \in Nat \X Nat : p[1] < p[2]}
  <1>1. IsWellFoundedOn(R, Nat)
    BY NatLessThanWellFounded DEF OpToRel
  <1>2. PICK n \in T : \A k \in T : <<k, n>> \notin R
    <2> HIDE DEF R
    <2> QED
      BY <1>1, WFMin
  <1>3. \A k \in T : n <= k
    <2> SUFFICES ASSUME NEW k \in T PROVE n <= k
      OBVIOUS
    <2>1. k \in Nat /\ n \in Nat
      OBVIOUS
    <2>2. <<k, n>> \notin R
      BY <1>2
    <2> QED
      BY <2>1, <2>2
  <1> QED
    BY <1>3

(* Sequences: their elements, what remains of one, what is added to one.       *)
LEMMA Element ==
    ASSUME NEW S, NEW s \in Seq(S), NEW i \in 1 .. Len(s) PROVE s[i] \in ToSet(s)
  BY DEF ToSet

Beginning(s, n) == SubSeq(s, 1, n)
Ending(s, n) == SubSeq(s, n + 1, Len(s))
LEMMA Dropped ==
    ASSUME NEW S, NEW s \in Seq(S), NEW n \in 0 .. Len(s),
           NEW r, r = Ending(s, n)
    PROVE  /\ r \in Seq(S) /\ Len(r) = Len(s) - n
           /\ \A i \in 1 .. Len(r) : r[i] = s[n + i]
           /\ ToSet(r) \subseteq ToSet(s)
           /\ ToSet(s) \subseteq ToSet(Beginning(s, n)) \cup ToSet(r)
  <1>1. Len(s) \in Nat /\ \A i \in 1 .. Len(s) : s[i] \in S
    OBVIOUS
  <1>2. \A i \in n + 1 .. Len(s) : s[i] \in S
    BY <1>1
  <1>3. r \in Seq(S) /\ Len(r) = Len(s) - n /\ \A i \in 1 .. Len(r) : r[i] = s[n + i]
    BY <1>1, <1>2, SubSeqProperties DEF Ending
  <1>4. \A i \in 1 .. n : s[i] \in S
    BY <1>1
  <1>5. PICK q : q = SubSeq(s, 1, n)
    OBVIOUS
  <1>6. Len(q) = n /\ q \in Seq(S) /\ \A i \in 1 .. n : q[i] = s[i]
    BY <1>1, <1>4, <1>5, SubSeqProperties
  <1>7. ToSet(r) \subseteq ToSet(s)
    BY SMTT(30), <1>1, <1>3 DEF ToSet
  <1>8. ASSUME NEW i \in 1 .. Len(s) PROVE s[i] \in ToSet(q) \cup ToSet(r)
    <2>1. CASE i <= n
      BY <1>6, <2>1, Element
    <2>2. CASE i > n
      <3>1. i - n \in 1 .. Len(r) /\ r[i - n] = s[i]
        BY <1>1, <1>3, <2>2
      <3> QED
        BY <1>3, <3>1, Element
    <2> QED
      BY <1>1, <2>1, <2>2
  <1>9. ToSet(s) = {s[i] : i \in 1 .. Len(s)}
    BY <1>1 DEF ToSet
  <1>10. ToSet(s) \subseteq ToSet(q) \cup ToSet(r)
    BY <1>8, <1>9
  <1> QED
    BY <1>3, <1>5, <1>7, <1>10 DEF Beginning

LEMMA HeadAndTail ==
    ASSUME NEW S, NEW s \in Seq(S), s # <<>>, NEW r, r = Tail(s)
    PROVE  /\ r \in Seq(S) /\ Len(r) = Len(s) - 1
           /\ \A i \in 1 .. Len(r) : r[i] = s[i + 1]
           /\ Head(s) = s[1]
           /\ ToSet(r) \subseteq ToSet(s) /\ ToSet(s) \subseteq ToSet(r) \cup {Head(s)}
  <1>1. Len(s) \in Nat \ {0} /\ Head(s) = s[1]
    OBVIOUS
  <1>2. r \in Seq(S) /\ Len(r) = Len(s) - 1 /\ \A i \in 1 .. Len(r) : r[i] = s[i + 1]
    OBVIOUS
  <1>3. ToSet(r) \subseteq ToSet(s)
    BY <1>1, <1>2 DEF ToSet
  <1>4. ASSUME NEW i \in 1 .. Len(s) PROVE s[i] \in ToSet(r) \cup {Head(s)}
    <2>1. CASE i = 1
      BY <1>1, <2>1
    <2>2. CASE i # 1
      <3>1. i - 1 \in 1 .. Len(r) /\ r[i - 1] = s[i]
        BY <1>1, <1>2, <2>2
      <3> QED
        BY <1>2, <3>1, Element
    <2> QED
      BY <2>1, <2>2
  <1>5. ToSet(s) = {s[i] : i \in 1 .. Len(s)}
    BY <1>1 DEF ToSet
  <1> QED
    BY <1>1, <1>2, <1>3, <1>4, <1>5

LEMMA Removed ==
    ASSUME NEW S, NEW s \in Seq(S), NEW i \in DOMAIN s
    PROVE  RemoveAt(s, i) \in Seq(S) /\ ToSet(RemoveAt(s, i)) \subseteq ToSet(s)
  <1>1. Len(s) \in Nat /\ i \in 1 .. Len(s) /\ \A j \in 1 .. Len(s) : s[j] \in S
    OBVIOUS
  <1>2. PICK a : a = SubSeq(s, 1, i - 1)
    OBVIOUS
  <1>3. PICK b : b = SubSeq(s, i + 1, Len(s))
    OBVIOUS
  <1>4. /\ a \in Seq(S) /\ Len(a) = i - 1 /\ \A j \in 1 .. i - 1 : a[j] = s[j]
    BY <1>1, <1>2, SubSeqProperties
  <1>5. /\ b \in Seq(S) /\ Len(b) = Len(s) - i /\ \A j \in 1 .. Len(b) : b[j] = s[i + j]
    BY SMTT(30), <1>1, <1>3, SubSeqProperties
  <1>6. RemoveAt(s, i) = a \o b
    BY <1>2, <1>3 DEF RemoveAt
  <1>7. /\ a \o b \in Seq(S) /\ Len(a \o b) = Len(a) + Len(b)
        /\ \A j \in 1 .. Len(a) + Len(b) :
              (a \o b)[j] = IF j <= Len(a) THEN a[j] ELSE b[j - Len(a)]
    BY <1>4, <1>5, ConcatProperties
  <1>8. PICK c : c = a \o b
    OBVIOUS
  <1>9. c \in Seq(S) /\ Len(c) = Len(s) - 1
    BY SMTT(30), <1>1, <1>4, <1>5, <1>7, <1>8
  <1>10. \A j \in 1 .. Len(c) : c[j] = IF j <= i - 1 THEN a[j] ELSE b[j - (i - 1)]
    BY <1>1, <1>4, <1>5, <1>7, <1>8
  <1>11. ASSUME NEW j \in 1 .. Len(c) PROVE c[j] \in ToSet(s)
    <2>1. CASE j <= i - 1
      BY SMTT(30), <1>1, <1>4, <1>9, <1>10, <2>1, Element
    <2>2. CASE j > i - 1
      <3>1. PICK k : k = j - (i - 1)
        OBVIOUS
      <3>2. c[j] = b[k] /\ k \in 1 .. Len(b)
        BY SMTT(30), <1>1, <1>5, <1>9, <1>10, <2>2, <3>1
      <3>3. b[k] = s[i + k] /\ i + k \in 1 .. Len(s)
        BY <1>1, <1>5, <3>2
      <3> QED
        BY <3>2, <3>3, Element
    <2> QED
      BY <1>1, <1>9, <2>1, <2>2
  <1>12. ToSet(c) = {c[j] : j \in 1 .. Len(c)}
    BY <1>9 DEF ToSet
  <1> QED
    BY <1>6, <1>8, <1>9, <1>11, <1>12


LEMMA Listing ==
    ASSUME NEW S, NEW s \in Seq(S), NEW e
    PROVE  ToSet(Append(s, e)) = ToSet(s) \cup {e}
  <1>1. ToSet(Append(s, e)) \subseteq ToSet(s) \cup {e}
    BY DEF ToSet
  <1>2. \A i \in DOMAIN s : i \in DOMAIN Append(s, e) /\ Append(s, e)[i] = s[i]
    OBVIOUS
  <1>3. Append(s, e)[Len(s) + 1] = e /\ Len(s) + 1 \in DOMAIN Append(s, e)
    OBVIOUS
  <1>4. ToSet(s) \cup {e} \subseteq ToSet(Append(s, e))
    BY <1>2, <1>3 DEF ToSet
  <1> QED
    BY <1>1, <1>4

(* Whose names are in a list, and which records the operators of Friends make. *)
LEMMA NoNames == ToSet(<<>>) = {} /\ FriendsOf(<<>>) = {} /\ NamedIn(<<>>) = {}
  BY DEF FriendsOf, NamedIn, ToSet

LEMMA FriendsGrow ==
    ASSUME NEW s \in Seq(Buddy), NEW e
    PROVE  FriendsOf(Append(s, e)) = FriendsOf(s) \cup {e.of}
  BY Listing DEF FriendsOf

LEMMA NamesGrow ==
    ASSUME NEW s \in Seq(Notice), NEW e
    PROVE  NamedIn(Append(s, e)) =
              NamedIn(s) \cup (IF e.type = "request" THEN {} ELSE {e.of})
  <1>1. ToSet(Append(s, e)) = ToSet(s) \cup {e}
    BY Listing
  <1> QED
    BY <1>1 DEF NamedIn

LEMMA NamesShrink ==
    ASSUME NEW s, NEW r, ToSet(r) \subseteq ToSet(s) PROVE NamedIn(r) \subseteq NamedIn(s)
  BY DEF NamedIn

LEMMA Kinds ==
    ASSUME NEW v \in User
    PROVE  /\ News(v) \in Notice /\ News(v).type = "accepted" /\ News(v).of = v
           /\ Unread(v) \in Notice /\ Unread(v).type = "unread" /\ Unread(v).of = v
           /\ Request(v) \in Notice /\ Request(v) \in Mail
           /\ \A k \in Nat : /\ Response(v, k) \in Mail
                             /\ \A h \in {1, 2} : Friend(v, k, h) \in Buddy
  BY DEF News, Unread, Request, Response, Friend, Notice, Mail, Buddy

LEMMA MailKinds ==
    \A m \in Mail : /\ m.of \in User /\ m.type \in {"request", "response", "text"}
                   /\ (m.type = "request" => m \in Notice)
                   /\ (m.type = "response" => m.key \in Nat)
  BY DEF Mail, Notice

LEMMA Lists ==
    ASSUME NEW l \in Seq(Notice), NEW h, h = [type |-> "list", list |-> l]
    PROVE  h \in Listed /\ h.list = l
  BY DEF Listed

LEMMA HeldTypes ==
    /\ \A h \in Notice : h.of \in User
    /\ \A h \in Buddy : h.of \in User /\ h.key \in Nat
    /\ \A h \in Listed : h.list \in Seq(Notice)
    /\ Empty.type = "empty" /\ Empty \notin Notice
  BY DEF Notice, Buddy, Listed, Empty

(* Files: a torn one has no data, a whole one has what was written.            *)
LEMMA TornFile == ~ Torn.whole /\ Torn.data = <<>>
  BY DEF Torn

LEMMA WholeFile ==
    /\ \A l : File(l).whole /\ File(l).data = l
    /\ \A u : File(<<u>>) # File(<<>>) /\ File(<<u>>) # Torn
  BY DEF File, Torn

LEMMA FileTypes ==
    ASSUME NEW S
    PROVE  /\ Torn \in Files(S) /\ \A l \in Seq(S) : File(l) \in Files(S)
           /\ \A f \in Files(S) : /\ f = Torn \/ f = File(f.data)
                                  /\ f.data \in Seq(S)
  <1>1. <<>> \in Seq(S)
    BY EmptySeq
  <1>2. ASSUME NEW f \in [whole : {TRUE}, data : Seq(S)]
        PROVE  f = File(f.data) /\ f.data \in Seq(S)
    BY DEF File
  <1> QED
    BY <1>1, <1>2, TornFile DEF Files, File

LEMMA FilesKnown ==
    /\ Torn \in Files(Buddy) /\ Torn \in Files(Notice) /\ Torn \in Files(User)
    /\ \A l \in Seq(Buddy) : File(l) \in Files(Buddy)
    /\ \A l \in Seq(Notice) : File(l) \in Files(Notice)
    /\ \A l \in Seq(User) : File(l) \in Files(User)
    /\ \A f \in Files(Buddy) : (f = Torn \/ f = File(f.data)) /\ f.data \in Seq(Buddy)
    /\ \A f \in Files(Notice) : (f = Torn \/ f = File(f.data)) /\ f.data \in Seq(Notice)
    /\ \A f \in Files(User) : f = Torn \/ f = File(f.data)
    /\ <<>> \in Seq(Buddy) /\ <<>> \in Seq(Notice) /\ <<>> \in Seq(User)
    /\ \A u \in User : <<u>> \in Seq(User)
  BY FileTypes, EmptySeq

LEMMA AppendKnown ==
    /\ \A l \in Seq(Buddy), h \in Buddy : Append(l, h) \in Seq(Buddy)
    /\ \A l \in Seq(Notice), h \in Notice : Append(l, h) \in Seq(Notice)
  BY AppendProperties

LEMMA NamesOfFriends ==
    /\ \A l \in Seq(Buddy), h \in Buddy :
          /\ FriendsOf(Append(l, h)) = FriendsOf(l) \cup {h.of}
          /\ h \in ToSet(Append(l, h)) /\ ToSet(l) \subseteq ToSet(Append(l, h))
    /\ \A l \in Seq(Notice), h \in Notice :
          NamedIn(Append(l, h)) =
              NamedIn(l) \cup (IF h.type = "request" THEN {} ELSE {h.of})
    /\ \A l \in Seq(Buddy) : \A h \in ToSet(l) : h.of \in FriendsOf(l)
  <1>1. \A l \in Seq(Buddy) : \A h \in ToSet(l) : h.of \in FriendsOf(l)
    BY DEF FriendsOf
  <1>2. ASSUME NEW l \in Seq(Buddy), NEW h \in Buddy
        PROVE  h \in ToSet(Append(l, h)) /\ ToSet(l) \subseteq ToSet(Append(l, h))
    BY Listing
  <1> QED
    BY <1>1, <1>2, FriendsGrow, NamesGrow

Same(w) ==
    /\ friends'[w] = friends[w] /\ notifs'[w] = notifs[w] /\ lock'[w] = lock[w]
    /\ pc'[w] = pc[w] /\ hand'[w] = hand[w]
    /\ ffile'[w] = ffile[w] /\ nfile'[w] = nfile[w] /\ profile'[w] = profile[w]
    /\ w \in registered' <=> w \in registered
    /\ w \in cut' <=> w \in cut
    /\ w \in half' <=> w \in half
    /\ w \in raced' <=> w \in raced
Apart(u) == \A w \in User \ {u} : Same(w)
Step(u) ==
    \/ user_interface(u) \/ background_thread(u) \/ user(u)
    \/ \E v \in User : send_friendreq(u, v)

PcApart(u) ==
    /\ pc' = [w \in User |-> [t \in Thread |-> pc'[w][t]]]
    /\ \A w \in User \ {u} : pc'[w] = pc[w]
HandApart(u) ==
    /\ hand' = [w \in User |-> [t \in Thread |-> hand'[w][t]]]
    /\ \A w \in User \ {u} : hand'[w] = hand[w]

(* A step of one user changes nothing of another's; his variables remain       *)
(* functions.                                                                  *)
LEMMA GoApart ==
    ASSUME Shape, NEW u \in User, NEW t \in Thread, NEW from, NEW to, Go(u, t, from, to)
    PROVE  PcApart(u)
  <1>1. pc = [w \in User |-> [s \in Thread |-> pc[w][s]]]
    BY DEF Shape
  <1> QED
    BY <1>1 DEF Go, PcApart

LEMMA TakeApart ==
    ASSUME Shape, NEW u \in User, NEW t \in Thread, NEW h, Take(u, t, h) \/ UNCHANGED hand
    PROVE  HandApart(u)
  <1>1. hand = [w \in User |-> [s \in Thread |-> hand[w][s]]]
    BY DEF Shape
  <1>2. CASE Take(u, t, h)
    BY <1>1, <1>2 DEF Take, HandApart
  <1>3. CASE UNCHANGED hand
    BY <1>1, <1>3 DEF HandApart
  <1> QED
    BY <1>2, <1>3

LEMMA ShapeStep == ASSUME Shape, NEW u \in User, Step(u) PROVE Shape' /\ Apart(u)
  <1> USE DEF Shape, Apart, Same, Go, Lock, Unlock, Thread, Send, Truncated, Written,
              Take, memory, disk, server, net, history, counters, past
  <1>1. CASE add_friend(u, "ui")
    BY ZenonT(60), <1>1 DEF add_friend
  <1>2. CASE add_friend(u, "bg")
    BY ZenonT(60), <1>2 DEF add_friend
  <1>3. CASE write_friendfile(u, "ui")
    BY ZenonT(60), <1>3 DEF write_friendfile
  <1>4. CASE write_friendfile(u, "bg")
    BY ZenonT(60), <1>4 DEF write_friendfile
  <1>5. CASE insert_notif(u)
    BY ZenonT(60), <1>5 DEF insert_notif
  <1>6. CASE insert_written(u)
    BY ZenonT(60), <1>6 DEF insert_written
  <1>7. CASE add_new_message(u)
    <2>1. PICK to : Go(u, "bg", "new message", to)
      BY <1>7 DEF add_new_message
    <2>2. PcApart(u)
      BY <2>1, GoApart
    <2>3. Take(u, "bg", [type |-> "list", list |-> notifs[u]]) \/ UNCHANGED hand
      BY <1>7 DEF add_new_message
    <2>4. HandApart(u)
      BY <2>3, TakeApart
    <2>5. /\ Lock(u, "bg") \/ UNCHANGED lock
          /\ nfile' = Truncated(nfile, u) \/ UNCHANGED nfile
          /\ UNCHANGED <<net, friends, notifs, ffile, profile, history>>
      BY <1>7 DEF add_new_message
    <2> QED
      BY <2>2, <2>4, <2>5 DEF PcApart, HandApart
  <1>8. CASE count_written(u)
    BY ZenonT(60), <1>8 DEF count_written
  <1>9. CASE view_notifs(u)
    BY ZenonT(60), <1>9 DEF view_notifs
  <1>10. CASE select_notif(u)
    <2>1. ASSUME NEW view, NEW n, NEW rest, Selected(u, view, n, rest)
          PROVE  Shape' /\ Apart(u)
      BY ZenonT(60), <2>1 DEF Selected
    <2> QED
      BY <1>10, <2>1 DEF select_notif
  <1>11. CASE notif_selected(u)
    BY ZenonT(60), <1>11 DEF notif_selected
  <1>12. CASE cmessage_send(u)
    BY ZenonT(60), <1>12 DEF cmessage_send
  <1>13. CASE reject(u)
    BY ZenonT(60), <1>13 DEF reject
  <1>14. CASE friendreq_send_response(u)
    BY ZenonT(60), <1>14 DEF friendreq_send_response
  <1>15. CASE bg_message(u)
    <2>1. PICK m, f : Handled(u, m, f)
      BY <1>15 DEF bg_message
    <2>2. PICK to : Go(u, "bg", "recv", to)
      BY <2>1 DEF Handled
    <2>3. PICK h : Take(u, "bg", h) \/ UNCHANGED hand
      BY <2>1 DEF Handled
    <2>4. PcApart(u) /\ HandApart(u)
      BY <2>2, <2>3, GoApart, TakeApart
    <2>5. UNCHANGED <<registered, out, friends, notifs, lock, disk, history>>
      BY <2>1 DEF Handled
    <2>6. box' = [box EXCEPT ![u] = Tail(@)]
      BY <1>15 DEF bg_message
    <2> QED
      BY <2>4, <2>5, <2>6 DEF PcApart, HandApart
  <1>16. CASE create_account(u)
    BY ZenonT(60), <1>16 DEF create_account, start_program
  <1>17. CASE init_account_file(u)
    <2>1. PICK from, to : Go(u, "ui", from, to)
      BY <1>17 DEF init_account_file
    <2>2. PcApart(u)
      BY <2>1, GoApart
    <2>3. \/ ffile' = Written(ffile, u, <<>>) /\ UNCHANGED nfile
          \/ nfile' = Written(nfile, u, <<>>) /\ UNCHANGED ffile
      BY <1>17 DEF init_account_file
    <2>4. UNCHANGED <<net, friends, notifs, lock, hand, profile, history>>
      BY <1>17 DEF init_account_file
    <2> QED
      BY <2>2, <2>3, <2>4 DEF PcApart
  <1>18. CASE add_account(u)
    BY ZenonT(60), <1>18 DEF add_account
  <1>19. CASE write_userfile(u)
    BY ZenonT(60), <1>19 DEF write_userfile, On
  <1>20. CASE login(u)
    BY ZenonT(60), <1>20 DEF login, On
  <1>21. CASE login_fails(u)
    BY <1>21 DEF login_fails, Lose
  <1>22. CASE stop(u)
    <2>1. PICK n \in 0 .. Len(box[u]) : Lose(u, n)
      BY <1>22 DEF stop
    <2>2. /\ box' = [box EXCEPT ![u] = SubSeq(@, n + 1, Len(@))]
          /\ out' = [out EXCEPT ![u] = <<>>]
      BY <2>1 DEF Lose
    <2>3. (cut' = cut \/ cut' = cut \cup {u}) /\ (half' = half \/ half' = half \cup {u})
      BY <1>22 DEF stop
    <2>4. pc' = [pc EXCEPT ![u] = Off] /\ hand' = [hand EXCEPT ![u] = NoHands]
      BY <1>22 DEF stop
    <2>5. PcApart(u) /\ HandApart(u)
      BY ZenonT(60), <2>4 DEF PcApart, HandApart, Off, NoHands
    <2>6. Shape'
      BY <1>22, <2>2, <2>5 DEF stop, PcApart, HandApart
    <2>7. Apart(u)
      BY <1>22, <2>3, <2>4 DEF stop
    <2> QED
      BY <2>6, <2>7
  <1>30. CASE \E v \in User : send_friendreq(u, v)
    <2>1. PICK v \in User : send_friendreq(u, v)
      BY <1>30
    <2> QED
      BY ZenonT(60), <2>1 DEF send_friendreq
  <1> QED
    BY <1>1, <1>2, <1>3, <1>4, <1>5, <1>6, <1>7, <1>8, <1>9, <1>10, <1>11, <1>12,
       <1>13, <1>14, <1>15, <1>16, <1>17, <1>18, <1>19, <1>20, <1>21, <1>22, <1>30
       DEF Step, user_interface, background_thread, user

(* What Go and Take say of the thread that steps, and of the other one.        *)
LEMMA GoAt ==
    ASSUME Shape, NEW u \in User, NEW t \in Thread, NEW from, NEW to, Go(u, t, from, to)
    PROVE  /\ pc[u][t] = from /\ pc'[u][t] = to
           /\ \A s \in Thread \ {t} : pc'[u][s] = pc[u][s]
  <1>1. pc = [w \in User |-> [s \in Thread |-> pc[w][s]]]
    BY DEF Shape
  <1> QED
    BY <1>1 DEF Go

LEMMA TakeAt ==
    ASSUME Shape, NEW u \in User, NEW t \in Thread, NEW h, Take(u, t, h)
    PROVE  /\ hand'[u][t] = h
           /\ \A s \in Thread \ {t} : hand'[u][s] = hand[u][s]
  <1>1. hand = [w \in User |-> [s \in Thread |-> hand[w][s]]]
    BY DEF Shape
  <1> QED
    BY <1>1 DEF Take

(* What a step of a user keeps of his own files, lists, hands and lock: one    *)
(* lemma for each action of Step, and in it what the step does, then each part *)
(* of UserOK.                                                                  *)
LEMMA AddFriendUiOK ==
    ASSUME FilesInv, NEW u \in User, add_friend(u, "ui") PROVE UserOK(u)'
  <1>0. Shape /\ Numbers /\ UserOK(u)
    BY DEF FilesInv
  <1>1. /\ pc[u]["ui"] = "add friend" /\ pc'[u]["ui"] = "friend file"
        /\ pc'[u]["bg"] = pc[u]["bg"]
    BY ZenonT(60), <1>0, GoAt DEF add_friend, Thread
  <1>2. /\ lock[u] = Nobody /\ friends'[u] = Append(friends[u], hand[u]["ui"])
        /\ lock'[u] = "ui" /\ ffile'[u] = Torn
        /\ UNCHANGED <<hand, notifs, nfile, profile, registered, cut, half, raced>>
    BY <1>0
       DEF Shape, add_friend, Lock, Unlock, Truncated, Written, memory, disk, server, net,
           history, counters, past
  <1>3. pc[u]["bg"] # "off" /\ pc'[u]["bg"] # "off"
    BY <1>0, <1>1, <1>2 DEF UserOK, PlaceOK, UiPlace, BgPlace, Creating
  <1>4. TypesOf(u)'
    BY ZenonT(60), <1>0, <1>1, <1>2, <1>3, FilesKnown, AppendKnown, HeldTypes
       DEF UserOK, TypesOf, PlaceOK, UiHand, BgHand, Befriending, Thread
  <1>5. (PlaceOK(u) /\ LockOK(u))'
    BY <1>0, <1>1, <1>2, <1>3
       DEF UserOK, TypesOf, PlaceOK, LockOK, UiPlace, BgPlace, Locking, Creating, Thread,
           Nobody
  <1>6. (UiHand(u) /\ BgHand(u))'
    BY <1>0, <1>1, <1>2, <1>3, Kinds, HeldTypes
       DEF UserOK, TypesOf, PlaceOK, UiHand, BgHand, UiPlace, BgPlace, Befriending,
           Creating
  <1>7. AccountOK(u)'
    BY <1>0, <1>1, <1>2, <1>3, TornFile, WholeFile
       DEF UserOK, PlaceOK, AccountOK, UiPlace, BgPlace, Creating
  <1>8. FriendFileOK(u)'
    BY <1>0, <1>1, <1>2, <1>3
       DEF UserOK, PlaceOK, LockOK, FriendFileOK, Writes, BgPlace, UiPlace, Locking,
           Nobody, Creating
  <1>9. NotifFileOK(u)'
    BY <1>0, <1>1, <1>2, <1>3, TornFile, WholeFile, FilesKnown
       DEF UserOK, TypesOf, PlaceOK, LockOK, NotifFileOK, Writes, BgPlace, UiPlace,
           Locking, Nobody, Creating
  <1>10. (OffFilesOK(u) /\ OffNamesOK(u))'
    BY <1>0, <1>1, <1>2, <1>3, TornFile, WholeFile, NoNames
       DEF UserOK, PlaceOK, OffFilesOK, OffNamesOK, BgPlace, UiPlace, Creating
  <1>11. NamesOK(u)'
    BY ZenonT(60), <1>0, <1>1, <1>2, <1>3, TornFile, WholeFile, NoNames,
       NamesOfFriends,
       HeldTypes
       DEF UserOK, TypesOf, PlaceOK, UiHand, BgHand, NamesOK, UiPlace, BgPlace,
           Befriending, Creating
  <1> QED
    BY <1>4, <1>5, <1>6, <1>7, <1>8, <1>9, <1>10, <1>11 DEF UserOK

LEMMA AddFriendBgOK ==
    ASSUME FilesInv, NEW u \in User, add_friend(u, "bg") PROVE UserOK(u)'
  <1>0. Shape /\ Numbers /\ UserOK(u)
    BY DEF FilesInv
  <1>1. /\ pc[u]["bg"] = "add friend" /\ pc'[u]["ui"] = pc[u]["ui"]
        /\ pc'[u]["bg"] = "friend file"
    BY ZenonT(60), <1>0, GoAt DEF add_friend, Thread
  <1>2. /\ lock[u] = Nobody /\ friends'[u] = Append(friends[u], hand[u]["bg"])
        /\ lock'[u] = "bg" /\ ffile'[u] = Torn
        /\ UNCHANGED <<hand, notifs, nfile, profile, registered, cut, half, raced>>
    BY <1>0
       DEF Shape, add_friend, Lock, Unlock, Truncated, Written, memory, disk, server, net,
           history, counters, past
  <1>3. pc[u]["bg"] # "off" /\ pc'[u]["bg"] # "off"
    BY <1>0, <1>1, <1>2 DEF UserOK, PlaceOK, UiPlace, BgPlace, Creating
  <1>4. TypesOf(u)'
    BY ZenonT(60), <1>0, <1>1, <1>2, <1>3, FilesKnown, AppendKnown, HeldTypes
       DEF UserOK, TypesOf, PlaceOK, UiHand, BgHand, Befriending, Thread
  <1>5. (PlaceOK(u) /\ LockOK(u))'
    BY <1>0, <1>1, <1>2, <1>3
       DEF UserOK, TypesOf, PlaceOK, LockOK, UiPlace, BgPlace, Locking, Creating, Thread,
           Nobody
  <1>6. (UiHand(u) /\ BgHand(u))'
    BY <1>0, <1>1, <1>2, <1>3, Kinds, HeldTypes
       DEF UserOK, TypesOf, PlaceOK, UiHand, BgHand, UiPlace, BgPlace, Befriending,
           Creating
  <1>7. AccountOK(u)'
    BY <1>0, <1>1, <1>2, <1>3, TornFile, WholeFile
       DEF UserOK, PlaceOK, AccountOK, UiPlace, BgPlace, Creating
  <1>8. FriendFileOK(u)'
    BY <1>0, <1>1, <1>2, <1>3
       DEF UserOK, PlaceOK, LockOK, FriendFileOK, Writes, BgPlace, UiPlace, Locking,
           Nobody, Creating
  <1>9. NotifFileOK(u)'
    BY <1>0, <1>1, <1>2, <1>3, TornFile, WholeFile, FilesKnown
       DEF UserOK, TypesOf, PlaceOK, LockOK, NotifFileOK, Writes, BgPlace, UiPlace,
           Locking, Nobody, Creating
  <1>10. (OffFilesOK(u) /\ OffNamesOK(u))'
    BY <1>0, <1>1, <1>2, <1>3, TornFile, WholeFile, NoNames
       DEF UserOK, PlaceOK, OffFilesOK, OffNamesOK, BgPlace, UiPlace, Creating
  <1>11. NamesOK(u)'
    BY ZenonT(60), <1>0, <1>1, <1>2, <1>3, TornFile, WholeFile, NoNames,
       NamesOfFriends,
       HeldTypes
       DEF UserOK, TypesOf, PlaceOK, UiHand, BgHand, NamesOK, UiPlace, BgPlace,
           Befriending, Creating
  <1> QED
    BY <1>4, <1>5, <1>6, <1>7, <1>8, <1>9, <1>10, <1>11 DEF UserOK

LEMMA WriteFriendfileUiOK ==
    ASSUME FilesInv, NEW u \in User, write_friendfile(u, "ui") PROVE UserOK(u)'
  <1>0. Shape /\ Numbers /\ UserOK(u)
    BY DEF FilesInv
  <1>1. /\ pc[u]["ui"] = "friend file" /\ pc'[u]["ui"] = "menu"
        /\ pc'[u]["bg"] = pc[u]["bg"]
    BY ZenonT(60), <1>0, GoAt DEF write_friendfile, Thread
  <1>2. /\ hand'[u]["ui"] = Empty /\ hand'[u]["bg"] = hand[u]["bg"]
    BY <1>0, TakeAt DEF write_friendfile, Thread
  <1>3. /\ lock'[u] = Nobody /\ ffile'[u] = File(friends[u])
        /\ UNCHANGED <<friends, notifs, nfile, profile, registered, cut, half,
                       raced>>
    BY <1>0
       DEF Shape, write_friendfile, Lock, Unlock, Truncated, Written, memory, disk,
           server, net,
           history, counters, past
  <1>4. pc[u]["bg"] # "off" /\ pc'[u]["bg"] # "off"
    BY <1>0, <1>1, <1>2, <1>3 DEF UserOK, PlaceOK, UiPlace, BgPlace, Creating
  <1>5. TypesOf(u)'
    BY <1>0, <1>1, <1>2, <1>3, <1>4, FilesKnown, AppendKnown, HeldTypes
       DEF UserOK, TypesOf, PlaceOK, UiHand, BgHand, Befriending, Thread
  <1>6. (PlaceOK(u) /\ LockOK(u))'
    BY <1>0, <1>1, <1>2, <1>3, <1>4
       DEF UserOK, TypesOf, PlaceOK, LockOK, UiPlace, BgPlace, Locking, Creating, Thread,
           Nobody
  <1>7. (UiHand(u) /\ BgHand(u))'
    BY <1>0, <1>1, <1>2, <1>3, <1>4, Kinds, HeldTypes
       DEF UserOK, TypesOf, PlaceOK, UiHand, BgHand, UiPlace, BgPlace, Befriending,
           Creating
  <1>8. AccountOK(u)'
    BY <1>0, <1>1, <1>2, <1>3, <1>4, TornFile, WholeFile
       DEF UserOK, PlaceOK, AccountOK, UiPlace, BgPlace, Creating
  <1>9. FriendFileOK(u)'
    BY <1>0, <1>1, <1>2, <1>3, <1>4
       DEF UserOK, PlaceOK, LockOK, FriendFileOK, Writes, BgPlace, UiPlace, Locking,
           Nobody, Creating
  <1>10. NotifFileOK(u)'
    BY <1>0, <1>1, <1>2, <1>3, <1>4, TornFile, WholeFile, FilesKnown
       DEF UserOK, TypesOf, PlaceOK, LockOK, NotifFileOK, Writes, BgPlace, UiPlace,
           Locking, Nobody, Creating
  <1>11. (OffFilesOK(u) /\ OffNamesOK(u))'
    BY <1>0, <1>1, <1>2, <1>3, <1>4, TornFile, WholeFile, NoNames
       DEF UserOK, PlaceOK, OffFilesOK, OffNamesOK, BgPlace, UiPlace, Creating
  <1>12. NamesOK(u)'
    BY <1>0, <1>1, <1>2, <1>3, <1>4, TornFile, WholeFile, NoNames, NamesOfFriends,
       HeldTypes
       DEF UserOK, TypesOf, PlaceOK, UiHand, BgHand, NamesOK, UiPlace, BgPlace,
           Befriending, Creating
  <1> QED
    BY <1>5, <1>6, <1>7, <1>8, <1>9, <1>10, <1>11, <1>12 DEF UserOK

LEMMA WriteFriendfileBgOK ==
    ASSUME FilesInv, NEW u \in User, write_friendfile(u, "bg") PROVE UserOK(u)'
  <1>0. Shape /\ Numbers /\ UserOK(u)
    BY DEF FilesInv
  <1>1. /\ pc[u]["bg"] = "friend file" /\ pc'[u]["ui"] = pc[u]["ui"]
        /\ pc'[u]["bg"] = "insert"
    BY ZenonT(60), <1>0, GoAt DEF write_friendfile, Thread
  <1>2. /\ hand'[u]["ui"] = hand[u]["ui"] /\ hand'[u]["bg"] = News(hand[u]["bg"].of)
    BY <1>0, TakeAt DEF write_friendfile, Thread
  <1>3. /\ lock'[u] = Nobody /\ ffile'[u] = File(friends[u])
        /\ UNCHANGED <<friends, notifs, nfile, profile, registered, cut, half,
                       raced>>
    BY <1>0
       DEF Shape, write_friendfile, Lock, Unlock, Truncated, Written, memory, disk,
           server, net,
           history, counters, past
  <1>4. pc[u]["bg"] # "off" /\ pc'[u]["bg"] # "off"
    BY <1>0, <1>1, <1>2, <1>3 DEF UserOK, PlaceOK, UiPlace, BgPlace, Creating
  <1>5. hand[u]["bg"].of \in User
    BY <1>0, <1>1, <1>2, <1>3, <1>4, HeldTypes DEF UserOK, BgHand, Befriending
  <1>6. hand[u]["bg"].of \in FriendsOf(friends[u])
    BY <1>0, <1>1, <1>2, <1>3, <1>4, <1>5, NamesOfFriends
       DEF UserOK, TypesOf, NamesOK
  <1>7. /\ hand'[u]["bg"] \in Notice /\ hand'[u]["bg"].type = "accepted"
        /\ hand'[u]["bg"].of = hand[u]["bg"].of
    BY ZenonT(60), <1>0, <1>1, <1>2, <1>3, <1>4, <1>5, <1>6, Kinds DEF Thread
  <1>8. TypesOf(u)'
    BY <1>0, <1>1, <1>2, <1>3, <1>4, <1>5, <1>6, <1>7, FilesKnown, AppendKnown,
       HeldTypes DEF UserOK, TypesOf, PlaceOK, UiHand, BgHand, Befriending, Thread
  <1>9. (PlaceOK(u) /\ LockOK(u))'
    BY <1>0, <1>1, <1>2, <1>3, <1>4, <1>5, <1>6, <1>7
       DEF UserOK, TypesOf, PlaceOK, LockOK, UiPlace, BgPlace, Locking, Creating, Thread,
           Nobody
  <1>10. (UiHand(u) /\ BgHand(u))'
    BY <1>0, <1>1, <1>2, <1>3, <1>4, <1>5, <1>6, <1>7, Kinds, HeldTypes
       DEF UserOK, TypesOf, PlaceOK, UiHand, BgHand, UiPlace, BgPlace, Befriending,
           Creating
  <1>11. AccountOK(u)'
    BY <1>0, <1>1, <1>2, <1>3, <1>4, <1>5, <1>6, <1>7, TornFile, WholeFile
       DEF UserOK, PlaceOK, AccountOK, UiPlace, BgPlace, Creating
  <1>12. FriendFileOK(u)'
    BY <1>0, <1>1, <1>2, <1>3, <1>4, <1>5, <1>6, <1>7
       DEF UserOK, PlaceOK, LockOK, FriendFileOK, Writes, BgPlace, UiPlace, Locking,
           Nobody, Creating
  <1>13. NotifFileOK(u)'
    BY <1>0, <1>1, <1>2, <1>3, <1>4, <1>5, <1>6, <1>7, TornFile, WholeFile,
       FilesKnown
       DEF UserOK, TypesOf, PlaceOK, LockOK, NotifFileOK, Writes, BgPlace, UiPlace,
           Locking, Nobody, Creating
  <1>14. (OffFilesOK(u) /\ OffNamesOK(u))'
    BY <1>0, <1>1, <1>2, <1>3, <1>4, <1>5, <1>6, <1>7, TornFile, WholeFile, NoNames
       DEF UserOK, PlaceOK, OffFilesOK, OffNamesOK, BgPlace, UiPlace, Creating
  <1>15. NamesOK(u)'
    BY <1>0, <1>1, <1>2, <1>3, <1>4, <1>5, <1>6, <1>7, TornFile, WholeFile, NoNames,
       NamesOfFriends, HeldTypes, Kinds
       DEF UserOK, TypesOf, PlaceOK, UiHand, BgHand, NamesOK, UiPlace, BgPlace,
           Befriending, Creating
  <1> QED
    BY <1>8, <1>9, <1>10, <1>11, <1>12, <1>13, <1>14, <1>15 DEF UserOK

LEMMA InsertNotifOK ==
    ASSUME FilesInv, NEW u \in User, insert_notif(u) PROVE UserOK(u)'
  <1>0. Shape /\ Numbers /\ UserOK(u)
    BY DEF FilesInv
  <1>1. /\ pc[u]["bg"] = "insert" /\ pc'[u]["ui"] = pc[u]["ui"]
        /\ pc'[u]["bg"] = "notif file"
    BY ZenonT(60), <1>0, GoAt DEF insert_notif, Thread
  <1>2. /\ lock[u] = Nobody /\ notifs'[u] = Append(notifs[u], hand[u]["bg"])
        /\ lock'[u] = "bg" /\ nfile'[u] = Torn
        /\ UNCHANGED <<hand, friends, ffile, profile, registered, cut, half, raced>>
    BY <1>0
       DEF Shape, insert_notif, Lock, Unlock, Truncated, Written, memory, disk,
           server, net,
           history, counters, past
  <1>3. pc[u]["bg"] # "off" /\ pc'[u]["bg"] # "off"
    BY <1>0, <1>1, <1>2 DEF UserOK, PlaceOK, UiPlace, BgPlace, Creating
  <1>4. hand[u]["bg"] \in Notice /\ notifs[u] \in Seq(Notice)
    BY <1>0, <1>1, <1>2, <1>3 DEF UserOK, TypesOf, BgHand
  <1>5. NamedIn(notifs'[u])
          = NamedIn(notifs[u])
            \cup (IF hand[u]["bg"].type = "request" THEN {} ELSE {hand[u]["bg"].of})
    BY <1>0, <1>1, <1>2, <1>3, <1>4, NamesOfFriends DEF Thread
  <1>6. NamedIn(notifs'[u]) \subseteq FriendsOf(friends[u])
    BY <1>0, <1>1, <1>2, <1>3, <1>4, <1>5 DEF UserOK, NamesOK
  <1>7. TypesOf(u)'
    BY ZenonT(60), <1>0, <1>1, <1>2, <1>3, <1>4, <1>5, <1>6, FilesKnown,
       AppendKnown, HeldTypes
       DEF UserOK, TypesOf, PlaceOK, UiHand, BgHand, Befriending, Thread
  <1>8. (PlaceOK(u) /\ LockOK(u))'
    BY <1>0, <1>1, <1>2, <1>3, <1>4, <1>5, <1>6
       DEF UserOK, TypesOf, PlaceOK, LockOK, UiPlace, BgPlace, Locking, Creating, Thread,
           Nobody
  <1>9. (UiHand(u) /\ BgHand(u))'
    BY <1>0, <1>1, <1>2, <1>3, <1>4, <1>5, <1>6, Kinds, HeldTypes
       DEF UserOK, TypesOf, PlaceOK, UiHand, BgHand, UiPlace, BgPlace, Befriending,
           Creating
  <1>10. AccountOK(u)'
    BY <1>0, <1>1, <1>2, <1>3, <1>4, <1>5, <1>6, TornFile, WholeFile
       DEF UserOK, PlaceOK, AccountOK, UiPlace, BgPlace, Creating
  <1>11. FriendFileOK(u)'
    BY <1>0, <1>1, <1>2, <1>3, <1>4, <1>5, <1>6
       DEF UserOK, PlaceOK, LockOK, FriendFileOK, Writes, BgPlace, UiPlace, Locking,
           Nobody, Creating
  <1>12. NotifFileOK(u)'
    BY <1>0, <1>1, <1>2, <1>3, <1>4, <1>5, <1>6, TornFile, WholeFile, FilesKnown
       DEF UserOK, TypesOf, PlaceOK, LockOK, NotifFileOK, Writes, BgPlace, UiPlace,
           Locking, Nobody, Creating
  <1>13. (OffFilesOK(u) /\ OffNamesOK(u))'
    BY <1>0, <1>1, <1>2, <1>3, <1>4, <1>5, <1>6, TornFile, WholeFile, NoNames
       DEF UserOK, PlaceOK, OffFilesOK, OffNamesOK, BgPlace, UiPlace, Creating
  <1>14. NamesOK(u)'
    BY <1>0, <1>1, <1>2, <1>3, <1>4, <1>5, <1>6, TornFile, WholeFile, NoNames,
       NamesOfFriends, HeldTypes
       DEF UserOK, TypesOf, PlaceOK, UiHand, BgHand, NamesOK, UiPlace, BgPlace,
           Befriending, Creating
  <1> QED
    BY <1>7, <1>8, <1>9, <1>10, <1>11, <1>12, <1>13, <1>14 DEF UserOK

LEMMA InsertWrittenOK ==
    ASSUME FilesInv, NEW u \in User, insert_written(u) PROVE UserOK(u)'
  <1>0. Shape /\ Numbers /\ UserOK(u)
    BY DEF FilesInv
  <1>1. /\ pc[u]["bg"] = "notif file" /\ pc'[u]["ui"] = pc[u]["ui"]
        /\ pc'[u]["bg"] = "recv"
    BY ZenonT(60), <1>0, GoAt DEF insert_written, Thread
  <1>2. /\ hand'[u]["ui"] = hand[u]["ui"] /\ hand'[u]["bg"] = Empty
    BY <1>0, TakeAt DEF insert_written, Thread
  <1>3. /\ lock'[u] = Nobody /\ nfile'[u] = File(notifs[u])
        /\ UNCHANGED <<friends, notifs, ffile, profile, registered, cut, half,
                       raced>>
    BY <1>0
       DEF Shape, insert_written, Lock, Unlock, Truncated, Written, memory, disk,
           server, net,
           history, counters, past
  <1>4. pc[u]["bg"] # "off" /\ pc'[u]["bg"] # "off"
    BY <1>0, <1>1, <1>2, <1>3 DEF UserOK, PlaceOK, UiPlace, BgPlace, Creating
  <1>5. TypesOf(u)'
    BY <1>0, <1>1, <1>2, <1>3, <1>4, FilesKnown, AppendKnown, HeldTypes
       DEF UserOK, TypesOf, PlaceOK, UiHand, BgHand, Befriending, Thread
  <1>6. (PlaceOK(u) /\ LockOK(u))'
    BY <1>0, <1>1, <1>2, <1>3, <1>4
       DEF UserOK, TypesOf, PlaceOK, LockOK, UiPlace, BgPlace, Locking, Creating, Thread,
           Nobody
  <1>7. (UiHand(u) /\ BgHand(u))'
    BY <1>0, <1>1, <1>2, <1>3, <1>4, Kinds, HeldTypes
       DEF UserOK, TypesOf, PlaceOK, UiHand, BgHand, UiPlace, BgPlace, Befriending,
           Creating
  <1>8. AccountOK(u)'
    BY <1>0, <1>1, <1>2, <1>3, <1>4, TornFile, WholeFile
       DEF UserOK, PlaceOK, AccountOK, UiPlace, BgPlace, Creating
  <1>9. FriendFileOK(u)'
    BY <1>0, <1>1, <1>2, <1>3, <1>4
       DEF UserOK, PlaceOK, LockOK, FriendFileOK, Writes, BgPlace, UiPlace, Locking,
           Nobody, Creating
  <1>10. NotifFileOK(u)'
    BY <1>0, <1>1, <1>2, <1>3, <1>4, TornFile, WholeFile, FilesKnown
       DEF UserOK, TypesOf, PlaceOK, LockOK, NotifFileOK, Writes, BgPlace, UiPlace,
           Locking, Nobody, Creating
  <1>11. (OffFilesOK(u) /\ OffNamesOK(u))'
    BY <1>0, <1>1, <1>2, <1>3, <1>4, TornFile, WholeFile, NoNames
       DEF UserOK, PlaceOK, OffFilesOK, OffNamesOK, BgPlace, UiPlace, Creating
  <1>12. NamesOK(u)'
    BY ZenonT(60), <1>0, <1>1, <1>2, <1>3, <1>4, TornFile, WholeFile, NoNames,
       NamesOfFriends,
       HeldTypes
       DEF UserOK, TypesOf, PlaceOK, UiHand, BgHand, NamesOK, UiPlace, BgPlace,
           Befriending, Creating
  <1> QED
    BY <1>5, <1>6, <1>7, <1>8, <1>9, <1>10, <1>11, <1>12 DEF UserOK

(* Both branches of add_new_message: a notification of the friend is there, or *)
(* one is appended.                                                            *)
LEMMA AddNewMessageOK ==
    ASSUME FilesInv, NEW u \in User, add_new_message(u) PROVE UserOK(u)'
  <1>0. Shape /\ Numbers /\ UserOK(u)
    BY DEF FilesInv
  <1>1. CASE notifs[u] = <<>>
    <2>1. /\ pc[u]["bg"] = "new message" /\ pc'[u]["ui"] = pc[u]["ui"]
          /\ pc'[u]["bg"] = "insert"
      BY ZenonT(60), <1>0, <1>1, GoAt DEF add_new_message, Thread
    <2>2. /\ lock[u] = Nobody
          /\ UNCHANGED <<hand, friends, notifs, lock, ffile, nfile, profile,
                         registered, cut, half, raced>>
      BY <1>0, <1>1
         DEF Shape, add_new_message, Lock, Unlock, Truncated, Written, memory, disk,
             server, net,
             history, counters, past
    <2>3. pc[u]["bg"] # "off" /\ pc'[u]["bg"] # "off"
      BY <1>0, <2>1, <2>2 DEF UserOK, PlaceOK, UiPlace, BgPlace, Creating
    <2>4. TypesOf(u)'
      BY <1>0, <2>1, <2>2, <2>3, FilesKnown, AppendKnown, HeldTypes
         DEF UserOK, TypesOf, PlaceOK, UiHand, BgHand, Befriending, Thread
    <2>5. (PlaceOK(u) /\ LockOK(u))'
      BY <1>0, <2>1, <2>2, <2>3
         DEF UserOK, TypesOf, PlaceOK, LockOK, UiPlace, BgPlace, Locking, Creating, Thread,
             Nobody
    <2>6. (UiHand(u) /\ BgHand(u))'
      BY <1>0, <2>1, <2>2, <2>3, Kinds, HeldTypes
         DEF UserOK, TypesOf, PlaceOK, UiHand, BgHand, UiPlace, BgPlace, Befriending,
             Creating
    <2>7. AccountOK(u)'
      BY <1>0, <2>1, <2>2, <2>3, TornFile, WholeFile
         DEF UserOK, PlaceOK, AccountOK, UiPlace, BgPlace, Creating
    <2>8. FriendFileOK(u)'
      BY <1>0, <2>1, <2>2, <2>3
         DEF UserOK, PlaceOK, LockOK, FriendFileOK, Writes, BgPlace, UiPlace, Locking,
             Nobody, Creating
    <2>9. NotifFileOK(u)'
      BY <1>0, <2>1, <2>2, <2>3, TornFile, WholeFile, FilesKnown
         DEF UserOK, TypesOf, PlaceOK, LockOK, NotifFileOK, Writes, BgPlace, UiPlace,
             Locking, Nobody, Creating
    <2>10. (OffFilesOK(u) /\ OffNamesOK(u))'
      BY <1>0, <2>1, <2>2, <2>3, TornFile, WholeFile, NoNames
         DEF UserOK, PlaceOK, OffFilesOK, OffNamesOK, BgPlace, UiPlace, Creating
    <2>11. NamesOK(u)'
      BY <1>0, <2>1, <2>2, <2>3, TornFile, WholeFile, NoNames, NamesOfFriends,
         HeldTypes
         DEF UserOK, TypesOf, PlaceOK, UiHand, BgHand, NamesOK, UiPlace, BgPlace,
             Befriending, Creating
    <2> QED
      BY <2>4, <2>5, <2>6, <2>7, <2>8, <2>9, <2>10, <2>11 DEF UserOK
  <1>2. CASE notifs[u] # <<>> /\ notifs[u][1] = hand[u].bg
    <2>1. /\ pc[u]["bg"] = "new message" /\ pc'[u]["ui"] = pc[u]["ui"]
          /\ pc'[u]["bg"] = "count"
      BY ZenonT(60), <1>0, <1>2, GoAt DEF add_new_message, Thread
    <2>2. /\ hand'[u]["ui"] = hand[u]["ui"]
          /\ hand'[u]["bg"] = [type |-> "list", list |-> notifs[u]]
      BY ZenonT(60), <1>0, <1>2, TakeAt DEF add_new_message, Thread
    <2>3. /\ lock[u] = Nobody /\ nfile'[u] = Torn
          /\ UNCHANGED <<friends, notifs, lock, ffile, profile, registered, cut,
                         half, raced>>
      BY <1>0, <1>2
         DEF Shape, add_new_message, Lock, Unlock, Truncated, Written, memory, disk,
             server, net,
             history, counters, past
    <2>4. pc[u]["bg"] # "off" /\ pc'[u]["bg"] # "off"
      BY <1>0, <2>1, <2>2, <2>3 DEF UserOK, PlaceOK, UiPlace, BgPlace, Creating
    <2>5. TypesOf(u)'
      BY <1>0, <2>1, <2>2, <2>3, <2>4, FilesKnown, AppendKnown, HeldTypes
         DEF UserOK, TypesOf, PlaceOK, UiHand, BgHand, Befriending, Thread
    <2>6. (PlaceOK(u) /\ LockOK(u))'
      BY <1>0, <2>1, <2>2, <2>3, <2>4
         DEF UserOK, TypesOf, PlaceOK, LockOK, UiPlace, BgPlace, Locking, Creating, Thread,
             Nobody
    <2>7. (UiHand(u) /\ BgHand(u))'
      BY <1>0, <2>1, <2>2, <2>3, <2>4, Kinds, HeldTypes, Lists
         DEF UserOK, TypesOf, PlaceOK, UiHand, BgHand, UiPlace, BgPlace, Befriending,
             Creating
    <2>8. AccountOK(u)'
      BY <1>0, <2>1, <2>2, <2>3, <2>4, TornFile, WholeFile
         DEF UserOK, PlaceOK, AccountOK, UiPlace, BgPlace, Creating
    <2>9. FriendFileOK(u)'
      BY <1>0, <2>1, <2>2, <2>3, <2>4
         DEF UserOK, PlaceOK, LockOK, FriendFileOK, Writes, BgPlace, UiPlace, Locking,
             Nobody, Creating
    <2>10. NotifFileOK(u)'
      BY <1>0, <2>1, <2>2, <2>3, <2>4, TornFile, WholeFile, FilesKnown
         DEF UserOK, TypesOf, PlaceOK, LockOK, NotifFileOK, Writes, BgPlace, UiPlace,
             Locking, Nobody, Creating
    <2>11. (OffFilesOK(u) /\ OffNamesOK(u))'
      BY <1>0, <2>1, <2>2, <2>3, <2>4, TornFile, WholeFile, NoNames
         DEF UserOK, PlaceOK, OffFilesOK, OffNamesOK, BgPlace, UiPlace, Creating
    <2>12. NamesOK(u)'
      BY ZenonT(60), <1>0, <2>1, <2>2, <2>3, <2>4, TornFile, WholeFile, NoNames,
         NamesOfFriends,
         HeldTypes, Lists
         DEF UserOK, TypesOf, PlaceOK, UiHand, BgHand, NamesOK, UiPlace, BgPlace,
             Befriending, Creating
    <2> QED
      BY <2>5, <2>6, <2>7, <2>8, <2>9, <2>10, <2>11, <2>12 DEF UserOK
  <1>3. CASE notifs[u] # <<>> /\ notifs[u][1] # hand[u].bg
    <2>1. Go(u, "bg", "new message", "endless")
      BY <1>0, <1>3 DEF add_new_message
    <2>2. /\ pc[u]["bg"] = "new message" /\ pc'[u]["ui"] = pc[u]["ui"]
          /\ pc'[u]["bg"] = "endless"
      BY ZenonT(60), <1>0, <2>1, GoAt DEF Thread
    <2>3. /\ lock[u] = Nobody /\ lock'[u] = "bg"
          /\ UNCHANGED <<hand, friends, notifs, ffile, nfile, profile, registered,
                         cut, half, raced>>
      BY <1>0, <1>3
         DEF Shape, add_new_message, Lock, Unlock, Truncated, Written, memory, disk,
             server, net,
             history, counters, past
    <2>4. pc[u]["bg"] # "off" /\ pc'[u]["bg"] # "off"
      BY <1>0, <2>2, <2>3 DEF UserOK, PlaceOK, UiPlace, BgPlace, Creating
    <2>5. TypesOf(u)'
      BY <1>0, <2>2, <2>3, <2>4, FilesKnown, AppendKnown, HeldTypes
         DEF UserOK, TypesOf, PlaceOK, UiHand, BgHand, Befriending, Thread
    <2>6. (PlaceOK(u) /\ LockOK(u))'
      BY <1>0, <2>2, <2>3, <2>4
         DEF UserOK, TypesOf, PlaceOK, LockOK, UiPlace, BgPlace, Locking, Creating, Thread,
             Nobody
    <2>7. (UiHand(u) /\ BgHand(u))'
      BY <1>0, <2>2, <2>3, <2>4, Kinds, HeldTypes
         DEF UserOK, TypesOf, PlaceOK, UiHand, BgHand, UiPlace, BgPlace, Befriending,
             Creating
    <2>8. AccountOK(u)'
      BY <1>0, <2>2, <2>3, <2>4, TornFile, WholeFile
         DEF UserOK, PlaceOK, AccountOK, UiPlace, BgPlace, Creating
    <2>9. FriendFileOK(u)'
      BY <1>0, <2>2, <2>3, <2>4
         DEF UserOK, PlaceOK, LockOK, FriendFileOK, Writes, BgPlace, UiPlace, Locking,
             Nobody, Creating
    <2>10. NotifFileOK(u)'
      BY <1>0, <2>2, <2>3, <2>4, TornFile, WholeFile, FilesKnown
         DEF UserOK, TypesOf, PlaceOK, LockOK, NotifFileOK, Writes, BgPlace, UiPlace,
             Locking, Nobody, Creating
    <2>11. (OffFilesOK(u) /\ OffNamesOK(u))'
      BY <1>0, <2>2, <2>3, <2>4, TornFile, WholeFile, NoNames
         DEF UserOK, PlaceOK, OffFilesOK, OffNamesOK, BgPlace, UiPlace, Creating
    <2>12. NamesOK(u)'
      BY <1>0, <2>2, <2>3, <2>4, TornFile, WholeFile, NoNames, NamesOfFriends,
         HeldTypes
         DEF UserOK, TypesOf, PlaceOK, UiHand, BgHand, NamesOK, UiPlace, BgPlace,
             Befriending, Creating
    <2> QED
      BY <2>5, <2>6, <2>7, <2>8, <2>9, <2>10, <2>11, <2>12 DEF UserOK
  <1> QED
    BY <1>0, <1>1, <1>2, <1>3

LEMMA CountWrittenOK ==
    ASSUME FilesInv, NEW u \in User, count_written(u) PROVE UserOK(u)'
  <1>0. Shape /\ Numbers /\ UserOK(u)
    BY DEF FilesInv
  <1>1. /\ pc[u]["bg"] = "count" /\ pc'[u]["ui"] = pc[u]["ui"]
        /\ pc'[u]["bg"] = "recv"
    BY <1>0, GoAt DEF count_written, Thread
  <1>2. /\ hand'[u]["ui"] = hand[u]["ui"] /\ hand'[u]["bg"] = Empty
    BY <1>0, TakeAt DEF count_written, Thread
  <1>3. /\ nfile'[u] = File(hand[u]["bg"].list)
        /\ u \in raced' <=> u \in raced \/ hand[u]["bg"].list # notifs[u]
        /\ UNCHANGED <<friends, notifs, lock, ffile, profile, registered, cut,
                       half>>
    BY <1>0
       DEF Shape, count_written, Lock, Unlock, Truncated, Written, memory, disk,
           server, net,
           history, counters, past
  <1>4. pc[u]["bg"] # "off" /\ pc'[u]["bg"] # "off"
    BY <1>0, <1>1, <1>2, <1>3 DEF UserOK, PlaceOK, UiPlace, BgPlace, Creating
  <1>5. TypesOf(u)'
    BY ZenonT(60), <1>0, <1>1, <1>2, <1>3, <1>4, FilesKnown, AppendKnown, HeldTypes
       DEF UserOK, TypesOf, PlaceOK, UiHand, BgHand, Befriending, Thread
  <1>6. (PlaceOK(u) /\ LockOK(u))'
    BY <1>0, <1>1, <1>2, <1>3, <1>4
       DEF UserOK, TypesOf, PlaceOK, LockOK, UiPlace, BgPlace, Locking, Creating, Thread,
           Nobody
  <1>7. (UiHand(u) /\ BgHand(u))'
    BY <1>0, <1>1, <1>2, <1>3, <1>4, Kinds, HeldTypes
       DEF UserOK, TypesOf, PlaceOK, UiHand, BgHand, UiPlace, BgPlace, Befriending,
           Creating
  <1>8. AccountOK(u)'
    BY <1>0, <1>1, <1>2, <1>3, <1>4, TornFile, WholeFile
       DEF UserOK, PlaceOK, AccountOK, UiPlace, BgPlace, Creating
  <1>9. FriendFileOK(u)'
    BY <1>0, <1>1, <1>2, <1>3, <1>4
       DEF UserOK, PlaceOK, LockOK, FriendFileOK, Writes, BgPlace, UiPlace, Locking,
           Nobody, Creating
  <1>10. NotifFileOK(u)'
    BY <1>0, <1>1, <1>2, <1>3, <1>4, WholeFile DEF UserOK, NotifFileOK
  <1>11. (OffFilesOK(u) /\ OffNamesOK(u))'
    BY <1>0, <1>1, <1>2, <1>3, <1>4, TornFile, WholeFile, NoNames
       DEF UserOK, PlaceOK, OffFilesOK, OffNamesOK, BgPlace, UiPlace, Creating
  <1>12. NamesOK(u)'
    BY ZenonT(60), <1>0, <1>1, <1>2, <1>3, <1>4, TornFile, WholeFile, NoNames,
       NamesOfFriends,
       HeldTypes
       DEF UserOK, TypesOf, PlaceOK, UiHand, BgHand, NamesOK, UiPlace, BgPlace,
           Befriending, Creating
  <1> QED
    BY <1>5, <1>6, <1>7, <1>8, <1>9, <1>10, <1>11, <1>12 DEF UserOK

LEMMA ViewNotifsOK ==
    ASSUME FilesInv, NEW u \in User, view_notifs(u) PROVE UserOK(u)'
  <1>0. Shape /\ Numbers /\ UserOK(u)
    BY DEF FilesInv
  <1>1. PICK to \in {"view none", "view"} : Go(u, "ui", "menu", to)
    BY <1>0 DEF view_notifs
  <1>2. /\ pc[u]["ui"] = "menu" /\ pc'[u]["ui"] = to /\ pc'[u]["bg"] = pc[u]["bg"]
    BY ZenonT(60), <1>0, <1>1, GoAt DEF Thread
  <1>3. /\ UNCHANGED <<hand, friends, notifs, lock, ffile, nfile, profile,
                       registered, cut, half, raced>>
    BY <1>0
       DEF Shape, view_notifs, Lock, Unlock, Truncated, Written, memory, disk,
           server, net,
           history, counters, past
  <1>4. pc[u]["bg"] # "off" /\ pc'[u]["bg"] # "off"
    BY <1>0, <1>1, <1>2, <1>3 DEF UserOK, PlaceOK, UiPlace, BgPlace, Creating
  <1>5. TypesOf(u)'
    BY <1>0, <1>1, <1>2, <1>3, <1>4, FilesKnown, AppendKnown, HeldTypes
       DEF UserOK, TypesOf, PlaceOK, UiHand, BgHand, Befriending, Thread
  <1>6. (PlaceOK(u) /\ LockOK(u))'
    BY <1>0, <1>1, <1>2, <1>3, <1>4
       DEF UserOK, TypesOf, PlaceOK, LockOK, UiPlace, BgPlace, Locking, Creating, Thread,
           Nobody
  <1>7. (UiHand(u) /\ BgHand(u))'
    BY <1>0, <1>1, <1>2, <1>3, <1>4, Kinds, HeldTypes
       DEF UserOK, TypesOf, PlaceOK, UiHand, BgHand, UiPlace, BgPlace, Befriending,
           Creating
  <1>8. AccountOK(u)'
    BY <1>0, <1>1, <1>2, <1>3, <1>4, TornFile, WholeFile
       DEF UserOK, PlaceOK, AccountOK, UiPlace, BgPlace, Creating
  <1>9. FriendFileOK(u)'
    BY <1>0, <1>1, <1>2, <1>3, <1>4
       DEF UserOK, PlaceOK, LockOK, FriendFileOK, Writes, BgPlace, UiPlace, Locking,
           Nobody, Creating
  <1>10. NotifFileOK(u)'
    BY <1>0, <1>1, <1>2, <1>3, <1>4, TornFile, WholeFile, FilesKnown
       DEF UserOK, TypesOf, PlaceOK, LockOK, NotifFileOK, Writes, BgPlace, UiPlace,
           Locking, Nobody, Creating
  <1>11. (OffFilesOK(u) /\ OffNamesOK(u))'
    BY <1>0, <1>1, <1>2, <1>3, <1>4, TornFile, WholeFile, NoNames
       DEF UserOK, PlaceOK, OffFilesOK, OffNamesOK, BgPlace, UiPlace, Creating
  <1>12. NamesOK(u)'
    BY <1>0, <1>1, <1>2, <1>3, <1>4, TornFile, WholeFile, NoNames, NamesOfFriends,
       HeldTypes
       DEF UserOK, TypesOf, PlaceOK, UiHand, BgHand, NamesOK, UiPlace, BgPlace,
           Befriending, Creating
  <1> QED
    BY <1>5, <1>6, <1>7, <1>8, <1>9, <1>10, <1>11, <1>12 DEF UserOK

(* select_notif, for the list that is left of the notifications.               *)
LEMMA SelectedOK ==
    ASSUME FilesInv, NEW u \in User, NEW view \in {"view", "view none"},
           NEW n \in Notice \cup {Empty}, NEW rest \in Seq(Notice),
           NamedIn(rest) \subseteq NamedIn(notifs[u]), Selected(u, view, n, rest)
    PROVE  UserOK(u)'
  <1>0. Shape /\ Numbers /\ UserOK(u)
    BY DEF FilesInv
  <1>1. /\ pc[u]["ui"] = view /\ pc'[u]["ui"] = "notif file"
        /\ pc'[u]["bg"] = pc[u]["bg"]
    BY ZenonT(60), <1>0, GoAt DEF Selected, Thread
  <1>2. /\ hand'[u]["ui"] = n /\ hand'[u]["bg"] = hand[u]["bg"]
    BY <1>0, TakeAt DEF Selected, Thread
  <1>3. /\ lock[u] = Nobody /\ notifs'[u] = rest /\ lock'[u] = "ui"
        /\ nfile'[u] = Torn
        /\ UNCHANGED <<friends, ffile, profile, registered, cut, half, raced>>
    BY <1>0
       DEF Shape, Selected, Lock, Unlock, Truncated, Written, memory, disk, server, net,
           history, counters, past
  <1>4. pc[u]["bg"] # "off" /\ pc'[u]["bg"] # "off"
    BY <1>0, <1>1, <1>2, <1>3 DEF UserOK, PlaceOK, UiPlace, BgPlace, Creating
  <1>5. TypesOf(u)'
    BY <1>0, <1>1, <1>2, <1>3, <1>4, FilesKnown, AppendKnown, HeldTypes
       DEF UserOK, TypesOf, PlaceOK, UiHand, BgHand, Befriending, Thread
  <1>6. (PlaceOK(u) /\ LockOK(u))'
    BY <1>0, <1>1, <1>2, <1>3, <1>4
       DEF UserOK, TypesOf, PlaceOK, LockOK, UiPlace, BgPlace, Locking, Creating, Thread,
           Nobody
  <1>7. (UiHand(u) /\ BgHand(u))'
    BY <1>0, <1>1, <1>2, <1>3, <1>4, Kinds, HeldTypes
       DEF UserOK, TypesOf, PlaceOK, UiHand, BgHand, UiPlace, BgPlace, Befriending,
           Creating
  <1>8. AccountOK(u)'
    BY <1>0, <1>1, <1>2, <1>3, <1>4, TornFile, WholeFile
       DEF UserOK, PlaceOK, AccountOK, UiPlace, BgPlace, Creating
  <1>9. FriendFileOK(u)'
    BY <1>0, <1>1, <1>2, <1>3, <1>4
       DEF UserOK, PlaceOK, LockOK, FriendFileOK, Writes, BgPlace, UiPlace, Locking,
           Nobody, Creating
  <1>10. NotifFileOK(u)'
    BY <1>0, <1>1, <1>2, <1>3, <1>4, TornFile, WholeFile, FilesKnown
       DEF UserOK, TypesOf, PlaceOK, LockOK, NotifFileOK, Writes, BgPlace, UiPlace,
           Locking, Nobody, Creating
  <1>11. (OffFilesOK(u) /\ OffNamesOK(u))'
    BY <1>0, <1>1, <1>2, <1>3, <1>4, TornFile, WholeFile, NoNames
       DEF UserOK, PlaceOK, OffFilesOK, OffNamesOK, BgPlace, UiPlace, Creating
  <1>12. NamesOK(u)'
    BY <1>0, <1>1, <1>2, <1>3, <1>4, TornFile, WholeFile, NoNames, NamesOfFriends,
       HeldTypes
       DEF UserOK, TypesOf, PlaceOK, UiHand, BgHand, NamesOK, UiPlace, BgPlace,
           Befriending, Creating
  <1> QED
    BY <1>5, <1>6, <1>7, <1>8, <1>9, <1>10, <1>11, <1>12 DEF UserOK

LEMMA NotifSelectedOK ==
    ASSUME FilesInv, NEW u \in User, notif_selected(u) PROVE UserOK(u)'
  <1>0. Shape /\ Numbers /\ UserOK(u)
    BY DEF FilesInv
  <1>1. CASE hand[u].ui.type = "request"
    <2>1. Go(u, "ui", "notif file", "response")
      BY <1>0, <1>1 DEF notif_selected
    <2>2. /\ pc[u]["ui"] = "notif file" /\ pc'[u]["ui"] = "response"
          /\ pc'[u]["bg"] = pc[u]["bg"]
      BY ZenonT(60), <1>0, <2>1, GoAt DEF Thread
    <2>3. /\ hand'[u]["ui"] = hand[u]["ui"] /\ hand'[u]["bg"] = hand[u]["bg"]
      BY <1>0, <1>1, TakeAt DEF notif_selected, Thread
    <2>4. /\ lock'[u] = Nobody /\ nfile'[u] = File(notifs[u])
          /\ UNCHANGED <<friends, notifs, ffile, profile, registered, cut, half,
                         raced>>
      BY <1>0, <1>1
         DEF Shape, notif_selected, Lock, Unlock, Truncated, Written, memory, disk,
             server, net,
             history, counters, past
    <2>5. pc[u]["bg"] # "off" /\ pc'[u]["bg"] # "off"
      BY <1>0, <2>2, <2>3, <2>4 DEF UserOK, PlaceOK, UiPlace, BgPlace, Creating
    <2>6. hand[u]["ui"] \in Notice
      BY <1>0, <2>2, <2>3, <2>4, <2>5, <1>1, HeldTypes DEF UserOK, UiHand
    <2>7. TypesOf(u)'
      BY <1>0, <2>2, <2>3, <2>4, <2>5, <2>6, FilesKnown, AppendKnown, HeldTypes
         DEF UserOK, TypesOf, PlaceOK, UiHand, BgHand, Befriending, Thread
    <2>8. (PlaceOK(u) /\ LockOK(u))'
      BY <1>0, <2>2, <2>3, <2>4, <2>5, <2>6
         DEF UserOK, TypesOf, PlaceOK, LockOK, UiPlace, BgPlace, Locking, Creating, Thread,
             Nobody
    <2>9. (UiHand(u) /\ BgHand(u))'
      BY <1>0, <2>2, <2>3, <2>4, <2>5, <2>6, Kinds, HeldTypes
         DEF UserOK, TypesOf, PlaceOK, UiHand, BgHand, UiPlace, BgPlace, Befriending,
             Creating
    <2>10. AccountOK(u)'
      BY <1>0, <2>2, <2>3, <2>4, <2>5, <2>6, TornFile, WholeFile
         DEF UserOK, PlaceOK, AccountOK, UiPlace, BgPlace, Creating
    <2>11. FriendFileOK(u)'
      BY <1>0, <2>2, <2>3, <2>4, <2>5, <2>6
         DEF UserOK, PlaceOK, LockOK, FriendFileOK, Writes, BgPlace, UiPlace, Locking,
             Nobody, Creating
    <2>12. NotifFileOK(u)'
      BY <1>0, <2>2, <2>3, <2>4, <2>5, <2>6, TornFile, WholeFile, FilesKnown
         DEF UserOK, TypesOf, PlaceOK, LockOK, NotifFileOK, Writes, BgPlace, UiPlace,
             Locking, Nobody, Creating
    <2>13. (OffFilesOK(u) /\ OffNamesOK(u))'
      BY <1>0, <2>2, <2>3, <2>4, <2>5, <2>6, TornFile, WholeFile, NoNames
         DEF UserOK, PlaceOK, OffFilesOK, OffNamesOK, BgPlace, UiPlace, Creating
    <2>14. NamesOK(u)'
      BY ZenonT(60), <1>0, <2>2, <2>3, <2>4, <2>5, <2>6, TornFile, WholeFile,
         NoNames,
         NamesOfFriends, HeldTypes
         DEF UserOK, TypesOf, PlaceOK, UiHand, BgHand, NamesOK, UiPlace, BgPlace,
             Befriending, Creating
    <2> QED
      BY <2>7, <2>8, <2>9, <2>10, <2>11, <2>12, <2>13, <2>14 DEF UserOK
  <1>2. CASE hand[u].ui.type # "request"
    <2>1. Go(u, "ui", "notif file", "menu")
      BY <1>0, <1>2 DEF notif_selected
    <2>2. /\ pc[u]["ui"] = "notif file" /\ pc'[u]["ui"] = "menu"
          /\ pc'[u]["bg"] = pc[u]["bg"]
      BY ZenonT(60), <1>0, <2>1, GoAt DEF Thread
    <2>3. /\ hand'[u]["ui"] = Empty /\ hand'[u]["bg"] = hand[u]["bg"]
      BY <1>0, <1>2, TakeAt DEF notif_selected, Thread
    <2>4. /\ lock'[u] = Nobody /\ nfile'[u] = File(notifs[u])
          /\ UNCHANGED <<friends, notifs, ffile, profile, registered, cut, half,
                         raced>>
      BY <1>0, <1>2
         DEF Shape, notif_selected, Lock, Unlock, Truncated, Written, memory, disk,
             server, net,
             history, counters, past
    <2>5. pc[u]["bg"] # "off" /\ pc'[u]["bg"] # "off"
      BY <1>0, <2>2, <2>3, <2>4 DEF UserOK, PlaceOK, UiPlace, BgPlace, Creating
    <2>6. TypesOf(u)'
      BY <1>0, <2>2, <2>3, <2>4, <2>5, FilesKnown, AppendKnown, HeldTypes
         DEF UserOK, TypesOf, PlaceOK, UiHand, BgHand, Befriending, Thread
    <2>7. (PlaceOK(u) /\ LockOK(u))'
      BY <1>0, <2>2, <2>3, <2>4, <2>5
         DEF UserOK, TypesOf, PlaceOK, LockOK, UiPlace, BgPlace, Locking, Creating, Thread,
             Nobody
    <2>8. (UiHand(u) /\ BgHand(u))'
      BY <1>0, <2>2, <2>3, <2>4, <2>5, Kinds, HeldTypes
         DEF UserOK, TypesOf, PlaceOK, UiHand, BgHand, UiPlace, BgPlace, Befriending,
             Creating
    <2>9. AccountOK(u)'
      BY <1>0, <2>2, <2>3, <2>4, <2>5, TornFile, WholeFile
         DEF UserOK, PlaceOK, AccountOK, UiPlace, BgPlace, Creating
    <2>10. FriendFileOK(u)'
      BY <1>0, <2>2, <2>3, <2>4, <2>5
         DEF UserOK, PlaceOK, LockOK, FriendFileOK, Writes, BgPlace, UiPlace, Locking,
             Nobody, Creating
    <2>11. NotifFileOK(u)'
      BY <1>0, <2>2, <2>3, <2>4, <2>5, TornFile, WholeFile, FilesKnown
         DEF UserOK, TypesOf, PlaceOK, LockOK, NotifFileOK, Writes, BgPlace, UiPlace,
             Locking, Nobody, Creating
    <2>12. (OffFilesOK(u) /\ OffNamesOK(u))'
      BY <1>0, <2>2, <2>3, <2>4, <2>5, TornFile, WholeFile, NoNames
         DEF UserOK, PlaceOK, OffFilesOK, OffNamesOK, BgPlace, UiPlace, Creating
    <2>13. NamesOK(u)'
      BY ZenonT(60), <1>0, <2>2, <2>3, <2>4, <2>5, TornFile, WholeFile, NoNames,
         NamesOfFriends,
         HeldTypes
         DEF UserOK, TypesOf, PlaceOK, UiHand, BgHand, NamesOK, UiPlace, BgPlace,
             Befriending, Creating
    <2> QED
      BY <2>6, <2>7, <2>8, <2>9, <2>10, <2>11, <2>12, <2>13 DEF UserOK
  <1> QED
    BY <1>0, <1>1, <1>2

LEMMA RejectOK ==
    ASSUME FilesInv, NEW u \in User, reject(u) PROVE UserOK(u)'
  <1>0. Shape /\ Numbers /\ UserOK(u)
    BY DEF FilesInv
  <1>1. /\ pc[u]["ui"] = "response" /\ pc'[u]["ui"] = "menu"
        /\ pc'[u]["bg"] = pc[u]["bg"]
    BY <1>0, GoAt DEF reject, Thread
  <1>2. /\ hand'[u]["ui"] = Empty /\ hand'[u]["bg"] = hand[u]["bg"]
    BY <1>0, TakeAt DEF reject, Thread
  <1>3. /\ UNCHANGED <<friends, notifs, lock, ffile, nfile, profile, registered,
                       cut, half, raced>>
    BY <1>0
       DEF Shape, reject, Lock, Unlock, Truncated, Written, memory, disk,
           server, net, history,
           counters, past
  <1>4. pc[u]["bg"] # "off" /\ pc'[u]["bg"] # "off"
    BY <1>0, <1>1, <1>2, <1>3 DEF UserOK, PlaceOK, UiPlace, BgPlace, Creating
  <1>5. TypesOf(u)'
    BY <1>0, <1>1, <1>2, <1>3, <1>4, FilesKnown, AppendKnown, HeldTypes
       DEF UserOK, TypesOf, PlaceOK, UiHand, BgHand, Befriending, Thread
  <1>6. (PlaceOK(u) /\ LockOK(u))'
    BY <1>0, <1>1, <1>2, <1>3, <1>4
       DEF UserOK, TypesOf, PlaceOK, LockOK, UiPlace, BgPlace, Locking, Creating, Thread,
           Nobody
  <1>7. (UiHand(u) /\ BgHand(u))'
    BY <1>0, <1>1, <1>2, <1>3, <1>4, Kinds, HeldTypes
       DEF UserOK, TypesOf, PlaceOK, UiHand, BgHand, UiPlace, BgPlace, Befriending,
           Creating
  <1>8. AccountOK(u)'
    BY <1>0, <1>1, <1>2, <1>3, <1>4, TornFile, WholeFile
       DEF UserOK, PlaceOK, AccountOK, UiPlace, BgPlace, Creating
  <1>9. FriendFileOK(u)'
    BY <1>0, <1>1, <1>2, <1>3, <1>4
       DEF UserOK, PlaceOK, LockOK, FriendFileOK, Writes, BgPlace, UiPlace, Locking,
           Nobody, Creating
  <1>10. NotifFileOK(u)'
    BY <1>0, <1>1, <1>2, <1>3, <1>4, TornFile, WholeFile, FilesKnown
       DEF UserOK, TypesOf, PlaceOK, LockOK, NotifFileOK, Writes, BgPlace, UiPlace,
           Locking, Nobody, Creating
  <1>11. (OffFilesOK(u) /\ OffNamesOK(u))'
    BY <1>0, <1>1, <1>2, <1>3, <1>4, TornFile, WholeFile, NoNames
       DEF UserOK, PlaceOK, OffFilesOK, OffNamesOK, BgPlace, UiPlace, Creating
  <1>12. NamesOK(u)'
    BY <1>0, <1>1, <1>2, <1>3, <1>4, TornFile, WholeFile, NoNames, NamesOfFriends,
       HeldTypes
       DEF UserOK, TypesOf, PlaceOK, UiHand, BgHand, NamesOK, UiPlace, BgPlace,
           Befriending, Creating
  <1> QED
    BY <1>5, <1>6, <1>7, <1>8, <1>9, <1>10, <1>11, <1>12 DEF UserOK

LEMMA FriendreqSendResponseOK ==
    ASSUME FilesInv, NEW u \in User, friendreq_send_response(u) PROVE UserOK(u)'
  <1>0. Shape /\ Numbers /\ UserOK(u)
    BY DEF FilesInv
  <1>1. /\ pc[u]["ui"] = "response" /\ pc'[u]["ui"] = "add friend"
        /\ pc'[u]["bg"] = pc[u]["bg"]
    BY ZenonT(60), <1>0, GoAt DEF friendreq_send_response, Thread
  <1>2. /\ hand'[u]["ui"] = Friend(hand[u]["ui"].of, keys + 1, 1)
        /\ hand'[u]["bg"] = hand[u]["bg"]
    BY <1>0, TakeAt DEF friendreq_send_response, Thread
  <1>3. /\ UNCHANGED <<friends, notifs, lock, ffile, nfile, profile, registered,
                       cut, half, raced>>
    BY <1>0
       DEF Shape, friendreq_send_response, Lock, Unlock, Truncated, Written, memory, disk,
           server, net, history, counters, past
  <1>4. pc[u]["bg"] # "off" /\ pc'[u]["bg"] # "off"
    BY <1>0, <1>1, <1>2, <1>3 DEF UserOK, PlaceOK, UiPlace, BgPlace, Creating
  <1>5. hand[u]["ui"].of \in User
    BY <1>0, <1>1, <1>2, <1>3, <1>4, HeldTypes DEF UserOK, UiHand
  <1>6. keys + 1 \in Nat
    BY <1>0 DEF Numbers
  <1>7. Friend(hand[u]["ui"].of, keys + 1, 1) \in Buddy
    BY <1>0, <1>1, <1>2, <1>3, <1>4, <1>5, <1>6, Kinds DEF Thread
  <1>8. TypesOf(u)'
    BY <1>0, <1>1, <1>2, <1>3, <1>4, <1>5, <1>6, <1>7, FilesKnown, AppendKnown,
       HeldTypes DEF UserOK, TypesOf, PlaceOK, UiHand, BgHand, Befriending, Thread
  <1>9. (PlaceOK(u) /\ LockOK(u))'
    BY <1>0, <1>1, <1>2, <1>3, <1>4, <1>5, <1>6, <1>7
       DEF UserOK, TypesOf, PlaceOK, LockOK, UiPlace, BgPlace, Locking, Creating, Thread,
           Nobody
  <1>10. (UiHand(u) /\ BgHand(u))'
    BY ZenonT(60), <1>0, <1>1, <1>2, <1>3, <1>4, <1>5, <1>6, <1>7, Kinds, HeldTypes
       DEF UserOK, TypesOf, PlaceOK, UiHand, BgHand, UiPlace, BgPlace, Befriending,
           Creating
  <1>11. AccountOK(u)'
    BY <1>0, <1>1, <1>2, <1>3, <1>4, <1>5, <1>6, <1>7, TornFile, WholeFile
       DEF UserOK, PlaceOK, AccountOK, UiPlace, BgPlace, Creating
  <1>12. FriendFileOK(u)'
    BY <1>0, <1>1, <1>2, <1>3, <1>4, <1>5, <1>6, <1>7
       DEF UserOK, PlaceOK, LockOK, FriendFileOK, Writes, BgPlace, UiPlace, Locking,
           Nobody, Creating
  <1>13. NotifFileOK(u)'
    BY <1>0, <1>1, <1>2, <1>3, <1>4, <1>5, <1>6, <1>7, TornFile, WholeFile,
       FilesKnown
       DEF UserOK, TypesOf, PlaceOK, LockOK, NotifFileOK, Writes, BgPlace, UiPlace,
           Locking, Nobody, Creating
  <1>14. (OffFilesOK(u) /\ OffNamesOK(u))'
    BY <1>0, <1>1, <1>2, <1>3, <1>4, <1>5, <1>6, <1>7, TornFile, WholeFile, NoNames
       DEF UserOK, PlaceOK, OffFilesOK, OffNamesOK, BgPlace, UiPlace, Creating
  <1>15. NamesOK(u)'
    BY <1>0, <1>1, <1>2, <1>3, <1>4, <1>5, <1>6, <1>7, TornFile, WholeFile, NoNames,
       NamesOfFriends, HeldTypes
       DEF UserOK, TypesOf, PlaceOK, UiHand, BgHand, NamesOK, UiPlace, BgPlace,
           Befriending, Creating
  <1> QED
    BY <1>8, <1>9, <1>10, <1>11, <1>12, <1>13, <1>14, <1>15 DEF UserOK

(* bg_message, for the message m that is read.                                 *)
LEMMA HandledOK ==
    ASSUME FilesInv, NEW u \in User, NEW m \in Mail, NEW f,
           m.type = "response" => f \in Buddy,
           Handled(u, m, f) PROVE UserOK(u)'
  <1>0. Shape /\ Numbers /\ UserOK(u)
    BY DEF FilesInv
  <1>1. CASE m.type = "request" /\ Go(u, "bg", "recv", "insert") /\ Take(u, "bg", m)
    <2>1. Go(u, "bg", "recv", "insert")
      BY <1>0, <1>1 DEF Handled
    <2>2. /\ pc[u]["bg"] = "recv" /\ pc'[u]["ui"] = pc[u]["ui"]
          /\ pc'[u]["bg"] = "insert"
      BY <1>0, <2>1, GoAt DEF Thread
    <2>3. /\ hand'[u]["ui"] = hand[u]["ui"] /\ hand'[u]["bg"] = m
      BY <1>0, <1>1, TakeAt DEF Handled, Thread
    <2>4. /\ UNCHANGED <<friends, notifs, lock, ffile, nfile, profile, registered,
                         cut, half, raced>>
      BY <1>0, <1>1
         DEF Shape, Handled, Lock, Unlock, Truncated, Written, memory, disk, server, net,
             history, counters, past
    <2>5. pc[u]["bg"] # "off" /\ pc'[u]["bg"] # "off"
      BY <1>0, <2>2, <2>3, <2>4 DEF UserOK, PlaceOK, UiPlace, BgPlace, Creating
    <2>6. m \in Notice /\ m.type = "request"
      BY <1>0, <1>1, MailKinds
    <2>7. TypesOf(u)'
      BY <1>0, <2>2, <2>3, <2>4, <2>5, <2>6, FilesKnown, AppendKnown, HeldTypes
         DEF UserOK, TypesOf, PlaceOK, UiHand, BgHand, Befriending, Thread
    <2>8. (PlaceOK(u) /\ LockOK(u))'
      BY <1>0, <2>2, <2>3, <2>4, <2>5, <2>6
         DEF UserOK, TypesOf, PlaceOK, LockOK, UiPlace, BgPlace, Locking, Creating, Thread,
             Nobody
    <2>9. (UiHand(u) /\ BgHand(u))'
      BY <1>0, <2>2, <2>3, <2>4, <2>5, <2>6, Kinds, HeldTypes
         DEF UserOK, TypesOf, PlaceOK, UiHand, BgHand, UiPlace, BgPlace, Befriending,
             Creating
    <2>10. AccountOK(u)'
      BY <1>0, <2>2, <2>3, <2>4, <2>5, <2>6, TornFile, WholeFile
         DEF UserOK, PlaceOK, AccountOK, UiPlace, BgPlace, Creating
    <2>11. FriendFileOK(u)'
      BY <1>0, <2>2, <2>3, <2>4, <2>5, <2>6
         DEF UserOK, PlaceOK, LockOK, FriendFileOK, Writes, BgPlace, UiPlace, Locking,
             Nobody, Creating
    <2>12. NotifFileOK(u)'
      BY <1>0, <2>2, <2>3, <2>4, <2>5, <2>6, TornFile, WholeFile, FilesKnown
         DEF UserOK, TypesOf, PlaceOK, LockOK, NotifFileOK, Writes, BgPlace, UiPlace,
             Locking, Nobody, Creating
    <2>13. (OffFilesOK(u) /\ OffNamesOK(u))'
      BY <1>0, <2>2, <2>3, <2>4, <2>5, <2>6, TornFile, WholeFile, NoNames
         DEF UserOK, PlaceOK, OffFilesOK, OffNamesOK, BgPlace, UiPlace, Creating
    <2>14. NamesOK(u)'
      BY <1>0, <2>2, <2>3, <2>4, <2>5, <2>6, TornFile, WholeFile, NoNames,
         NamesOfFriends, HeldTypes
         DEF UserOK, TypesOf, PlaceOK, UiHand, BgHand, NamesOK, UiPlace, BgPlace,
             Befriending, Creating
    <2> QED
      BY <2>7, <2>8, <2>9, <2>10, <2>11, <2>12, <2>13, <2>14 DEF UserOK
  <1>2. CASE m.type = "response" /\ Go(u, "bg", "recv", "add friend") /\ Take(u, "bg", f)
    <2>1. Go(u, "bg", "recv", "add friend")
      BY <1>0, <1>2 DEF Handled
    <2>2. /\ pc[u]["bg"] = "recv" /\ pc'[u]["ui"] = pc[u]["ui"]
          /\ pc'[u]["bg"] = "add friend"
      BY ZenonT(60), <1>0, <2>1, GoAt DEF Thread
    <2>3. /\ hand'[u]["ui"] = hand[u]["ui"] /\ hand'[u]["bg"] = f
      BY <1>0, <1>2, TakeAt DEF Handled, Thread
    <2>4. /\ UNCHANGED <<friends, notifs, lock, ffile, nfile, profile, registered,
                         cut, half, raced>>
      BY <1>0, <1>2
         DEF Shape, Handled, Lock, Unlock, Truncated, Written, memory, disk, server, net,
             history, counters, past
    <2>5. pc[u]["bg"] # "off" /\ pc'[u]["bg"] # "off"
      BY <1>0, <2>2, <2>3, <2>4 DEF UserOK, PlaceOK, UiPlace, BgPlace, Creating
    <2>6. f \in Buddy
      BY <1>0, <1>2
    <2>7. TypesOf(u)'
      BY <1>0, <2>2, <2>3, <2>4, <2>5, <2>6, FilesKnown, AppendKnown, HeldTypes
         DEF UserOK, TypesOf, PlaceOK, UiHand, BgHand, Befriending, Thread
    <2>8. (PlaceOK(u) /\ LockOK(u))'
      BY <1>0, <2>2, <2>3, <2>4, <2>5, <2>6
         DEF UserOK, TypesOf, PlaceOK, LockOK, UiPlace, BgPlace, Locking, Creating, Thread,
             Nobody
    <2>9. (UiHand(u) /\ BgHand(u))'
      BY <1>0, <2>2, <2>3, <2>4, <2>5, <2>6, Kinds, HeldTypes
         DEF UserOK, TypesOf, PlaceOK, UiHand, BgHand, UiPlace, BgPlace, Befriending,
             Creating
    <2>10. AccountOK(u)'
      BY <1>0, <2>2, <2>3, <2>4, <2>5, <2>6, TornFile, WholeFile
         DEF UserOK, PlaceOK, AccountOK, UiPlace, BgPlace, Creating
    <2>11. FriendFileOK(u)'
      BY <1>0, <2>2, <2>3, <2>4, <2>5, <2>6
         DEF UserOK, PlaceOK, LockOK, FriendFileOK, Writes, BgPlace, UiPlace, Locking,
             Nobody, Creating
    <2>12. NotifFileOK(u)'
      BY <1>0, <2>2, <2>3, <2>4, <2>5, <2>6, TornFile, WholeFile, FilesKnown
         DEF UserOK, TypesOf, PlaceOK, LockOK, NotifFileOK, Writes, BgPlace, UiPlace,
             Locking, Nobody, Creating
    <2>13. (OffFilesOK(u) /\ OffNamesOK(u))'
      BY <1>0, <2>2, <2>3, <2>4, <2>5, <2>6, TornFile, WholeFile, NoNames
         DEF UserOK, PlaceOK, OffFilesOK, OffNamesOK, BgPlace, UiPlace, Creating
    <2>14. NamesOK(u)'
      BY <1>0, <2>2, <2>3, <2>4, <2>5, <2>6, TornFile, WholeFile, NoNames,
         NamesOfFriends, HeldTypes
         DEF UserOK, TypesOf, PlaceOK, UiHand, BgHand, NamesOK, UiPlace, BgPlace,
             Befriending, Creating
    <2> QED
      BY <2>7, <2>8, <2>9, <2>10, <2>11, <2>12, <2>13, <2>14 DEF UserOK
  <1>3. CASE /\ Opens(friends[u], m) /\ Go(u, "bg", "recv", "new message")
             /\ Take(u, "bg", Unread(m.of))
    <2>1. Go(u, "bg", "recv", "new message")
      BY <1>0, <1>3 DEF Handled
    <2>2. /\ pc[u]["bg"] = "recv" /\ pc'[u]["ui"] = pc[u]["ui"]
          /\ pc'[u]["bg"] = "new message"
      BY ZenonT(60), <1>0, <2>1, GoAt DEF Thread
    <2>3. /\ hand'[u]["ui"] = hand[u]["ui"] /\ hand'[u]["bg"] = Unread(m.of)
      BY <1>0, <1>3, TakeAt DEF Handled, Thread
    <2>4. /\ UNCHANGED <<friends, notifs, lock, ffile, nfile, profile, registered,
                         cut, half, raced>>
      BY <1>0, <1>3
         DEF Shape, Handled, Lock, Unlock, Truncated, Written, memory, disk, server, net,
             history, counters, past
    <2>5. pc[u]["bg"] # "off" /\ pc'[u]["bg"] # "off"
      BY <1>0, <2>2, <2>3, <2>4 DEF UserOK, PlaceOK, UiPlace, BgPlace, Creating
    <2>6. m.of \in User
      BY <1>0, <2>2, <2>3, <2>4, <2>5, MailKinds
    <2>7. m.of \in FriendsOf(friends[u])
      BY <1>3 DEF Opens, FriendsOf
    <2>8. /\ hand'[u]["bg"] \in Notice /\ hand'[u]["bg"].type = "unread"
          /\ hand'[u]["bg"].of = m.of
      BY ZenonT(60), <1>0, <2>2, <2>3, <2>4, <2>5, <2>6, <2>7, Kinds DEF Thread
    <2>9. TypesOf(u)'
      BY <1>0, <2>2, <2>3, <2>4, <2>5, <2>6, <2>7, <2>8, FilesKnown, AppendKnown,
         HeldTypes DEF UserOK, TypesOf, PlaceOK, UiHand, BgHand, Befriending, Thread
    <2>10. (PlaceOK(u) /\ LockOK(u))'
      BY <1>0, <2>2, <2>3, <2>4, <2>5, <2>6, <2>7, <2>8
         DEF UserOK, TypesOf, PlaceOK, LockOK, UiPlace, BgPlace, Locking, Creating, Thread,
             Nobody
    <2>11. (UiHand(u) /\ BgHand(u))'
      BY <1>0, <2>2, <2>3, <2>4, <2>5, <2>6, <2>7, <2>8, Kinds, HeldTypes
         DEF UserOK, TypesOf, PlaceOK, UiHand, BgHand, UiPlace, BgPlace, Befriending,
             Creating
    <2>12. AccountOK(u)'
      BY <1>0, <2>2, <2>3, <2>4, <2>5, <2>6, <2>7, <2>8, TornFile, WholeFile
         DEF UserOK, PlaceOK, AccountOK, UiPlace, BgPlace, Creating
    <2>13. FriendFileOK(u)'
      BY <1>0, <2>2, <2>3, <2>4, <2>5, <2>6, <2>7, <2>8
         DEF UserOK, PlaceOK, LockOK, FriendFileOK, Writes, BgPlace, UiPlace, Locking,
             Nobody, Creating
    <2>14. NotifFileOK(u)'
      BY <1>0, <2>2, <2>3, <2>4, <2>5, <2>6, <2>7, <2>8, TornFile, WholeFile,
         FilesKnown
         DEF UserOK, TypesOf, PlaceOK, LockOK, NotifFileOK, Writes, BgPlace, UiPlace,
             Locking, Nobody, Creating
    <2>15. (OffFilesOK(u) /\ OffNamesOK(u))'
      BY <1>0, <2>2, <2>3, <2>4, <2>5, <2>6, <2>7, <2>8, TornFile, WholeFile,
         NoNames
         DEF UserOK, PlaceOK, OffFilesOK, OffNamesOK, BgPlace, UiPlace, Creating
    <2>16. NamesOK(u)'
      BY <1>0, <2>2, <2>3, <2>4, <2>5, <2>6, <2>7, <2>8, TornFile, WholeFile,
         NoNames, NamesOfFriends, HeldTypes
         DEF UserOK, TypesOf, PlaceOK, UiHand, BgHand, NamesOK, UiPlace, BgPlace,
             Befriending, Creating
    <2> QED
      BY <2>9, <2>10, <2>11, <2>12, <2>13, <2>14, <2>15, <2>16 DEF UserOK
  <1>4. CASE Go(u, "bg", "recv", "recv") /\ UNCHANGED hand
    <2>1. Go(u, "bg", "recv", "recv")
      BY <1>0, <1>4 DEF Handled
    <2>2. /\ pc[u]["bg"] = "recv" /\ pc'[u]["ui"] = pc[u]["ui"]
          /\ pc'[u]["bg"] = "recv"
      BY <1>0, <2>1, GoAt DEF Thread
    <2>3. /\ UNCHANGED <<hand, friends, notifs, lock, ffile, nfile, profile,
                         registered, cut, half, raced>>
      BY <1>0, <1>4
         DEF Shape, Handled, Lock, Unlock, Truncated, Written, memory, disk, server, net,
             history, counters, past
    <2>4. pc[u]["bg"] # "off" /\ pc'[u]["bg"] # "off"
      BY <1>0, <2>2, <2>3 DEF UserOK, PlaceOK, UiPlace, BgPlace, Creating
    <2>5. TypesOf(u)'
      BY <1>0, <2>2, <2>3, <2>4, FilesKnown, AppendKnown, HeldTypes
         DEF UserOK, TypesOf, PlaceOK, UiHand, BgHand, Befriending, Thread
    <2>6. (PlaceOK(u) /\ LockOK(u))'
      BY <1>0, <2>2, <2>3, <2>4
         DEF UserOK, TypesOf, PlaceOK, LockOK, UiPlace, BgPlace, Locking, Creating, Thread,
             Nobody
    <2>7. (UiHand(u) /\ BgHand(u))'
      BY <1>0, <2>2, <2>3, <2>4, Kinds, HeldTypes
         DEF UserOK, TypesOf, PlaceOK, UiHand, BgHand, UiPlace, BgPlace, Befriending,
             Creating
    <2>8. AccountOK(u)'
      BY <1>0, <2>2, <2>3, <2>4, TornFile, WholeFile
         DEF UserOK, PlaceOK, AccountOK, UiPlace, BgPlace, Creating
    <2>9. FriendFileOK(u)'
      BY <1>0, <2>2, <2>3, <2>4
         DEF UserOK, PlaceOK, LockOK, FriendFileOK, Writes, BgPlace, UiPlace, Locking,
             Nobody, Creating
    <2>10. NotifFileOK(u)'
      BY <1>0, <2>2, <2>3, <2>4, TornFile, WholeFile, FilesKnown
         DEF UserOK, TypesOf, PlaceOK, LockOK, NotifFileOK, Writes, BgPlace, UiPlace,
             Locking, Nobody, Creating
    <2>11. (OffFilesOK(u) /\ OffNamesOK(u))'
      BY <1>0, <2>2, <2>3, <2>4, TornFile, WholeFile, NoNames
         DEF UserOK, PlaceOK, OffFilesOK, OffNamesOK, BgPlace, UiPlace, Creating
    <2>12. NamesOK(u)'
      BY <1>0, <2>2, <2>3, <2>4, TornFile, WholeFile, NoNames, NamesOfFriends,
         HeldTypes
         DEF UserOK, TypesOf, PlaceOK, UiHand, BgHand, NamesOK, UiPlace, BgPlace,
             Befriending, Creating
    <2> QED
      BY <2>5, <2>6, <2>7, <2>8, <2>9, <2>10, <2>11, <2>12 DEF UserOK
  <1> QED
    BY <1>0, <1>1, <1>2, <1>3, <1>4 DEF Handled

LEMMA CreateAccountOK ==
    ASSUME FilesInv, NEW u \in User, create_account(u) PROVE UserOK(u)'
  <1>0. Shape /\ Numbers /\ UserOK(u)
    BY DEF FilesInv
  <1>1. pc[u] = Off
    BY <1>0 DEF create_account, start_program
  <1>2. /\ pc[u]["ui"] = "off" /\ pc[u]["bg"] = "off"
    BY <1>1 DEF Off
  <1>3. /\ pc'[u]["ui"] = "init friend file" /\ pc'[u]["bg"] = pc[u]["bg"]
    BY ZenonT(60), <1>0, GoAt DEF create_account, Thread
  <1>4. /\ profile[u].whole /\ u \notin registered
        /\ registered' = registered \cup {u}
        /\ UNCHANGED <<hand, friends, notifs, lock, ffile, nfile, profile, cut,
                       half, raced>>
    BY <1>0
       DEF Shape, create_account, start_program, Off, Lock, Unlock, Truncated, Written,
           memory, disk, server, net, history, counters, past
  <1>5. pc[u]["bg"] = "off" /\ pc'[u]["bg"] = "off"
    BY <1>0, <1>2, <1>3, <1>4 DEF UserOK, PlaceOK, UiPlace, BgPlace, Creating
  <1>6. TypesOf(u)'
    BY <1>0, <1>2, <1>3, <1>4, <1>5, FilesKnown, AppendKnown, HeldTypes
       DEF UserOK, TypesOf, PlaceOK, UiHand, BgHand, Befriending, Thread
  <1>7. (PlaceOK(u) /\ LockOK(u))'
    BY <1>0, <1>2, <1>3, <1>4, <1>5
       DEF UserOK, TypesOf, PlaceOK, LockOK, UiPlace, BgPlace, Locking, Creating, Thread,
           Nobody
  <1>8. (UiHand(u) /\ BgHand(u))'
    BY <1>0, <1>2, <1>3, <1>4, <1>5, Kinds, HeldTypes
       DEF UserOK, TypesOf, PlaceOK, UiHand, BgHand, UiPlace, BgPlace, Befriending,
           Creating
  <1>9. AccountOK(u)'
    BY <1>0, <1>2, <1>3, <1>4, <1>5, TornFile, WholeFile
       DEF UserOK, PlaceOK, AccountOK, UiPlace, BgPlace, Creating
  <1>10. FriendFileOK(u)'
    BY <1>0, <1>2, <1>3, <1>4, <1>5
       DEF UserOK, PlaceOK, LockOK, FriendFileOK, Writes, BgPlace, UiPlace, Locking,
           Nobody, Creating, AccountOK
  <1>11. NotifFileOK(u)'
    BY <1>0, <1>2, <1>3, <1>4, <1>5, TornFile, WholeFile, FilesKnown
       DEF UserOK, TypesOf, PlaceOK, LockOK, NotifFileOK, Writes, BgPlace, UiPlace,
           Locking, Nobody, Creating, AccountOK
  <1>12. (OffFilesOK(u) /\ OffNamesOK(u))'
    BY <1>0, <1>2, <1>3, <1>4, <1>5, TornFile, WholeFile, NoNames
       DEF UserOK, PlaceOK, OffFilesOK, OffNamesOK, BgPlace, UiPlace, Creating, AccountOK
  <1>13. NamesOK(u)'
    BY <1>0, <1>2, <1>3, <1>4, <1>5, TornFile, WholeFile, NoNames, NamesOfFriends,
       HeldTypes
       DEF UserOK, TypesOf, PlaceOK, UiHand, BgHand, NamesOK, UiPlace, BgPlace,
           Befriending, Creating, AccountOK
  <1> QED
    BY <1>6, <1>7, <1>8, <1>9, <1>10, <1>11, <1>12, <1>13 DEF UserOK

LEMMA InitAccountFileOK ==
    ASSUME FilesInv, NEW u \in User, init_account_file(u) PROVE UserOK(u)'
  <1>0. Shape /\ Numbers /\ UserOK(u)
    BY DEF FilesInv
  <1>1. CASE pc[u]["ui"] = "init friend file"
    <2>1. /\ pc[u]["ui"] = "init friend file" /\ pc'[u]["ui"] = "init notif file"
          /\ pc'[u]["bg"] = pc[u]["bg"]
      BY ZenonT(60), <1>0, <1>1, GoAt DEF init_account_file, Thread
    <2>2. /\ ffile'[u] = File(<<>>)
          /\ UNCHANGED <<hand, friends, notifs, lock, nfile, profile, registered,
                         cut, half, raced>>
      BY <1>0, <1>1
         DEF Shape, init_account_file, Lock, Unlock, Truncated, Written, memory, disk,
             server, net, history, counters, past, Go, Thread
    <2>3. pc[u]["bg"] = "off" /\ pc'[u]["bg"] = "off"
      BY <1>0, <2>1, <2>2 DEF UserOK, PlaceOK, UiPlace, BgPlace, Creating
    <2>4. TypesOf(u)'
      BY <1>0, <2>1, <2>2, <2>3, FilesKnown, AppendKnown, HeldTypes
         DEF UserOK, TypesOf, PlaceOK, UiHand, BgHand, Befriending, Thread
    <2>5. (PlaceOK(u) /\ LockOK(u))'
      BY <1>0, <2>1, <2>2, <2>3
         DEF UserOK, TypesOf, PlaceOK, LockOK, UiPlace, BgPlace, Locking, Creating, Thread,
             Nobody
    <2>6. (UiHand(u) /\ BgHand(u))'
      BY <1>0, <2>1, <2>2, <2>3, Kinds, HeldTypes
         DEF UserOK, TypesOf, PlaceOK, UiHand, BgHand, UiPlace, BgPlace, Befriending,
             Creating
    <2>7. AccountOK(u)'
      BY <1>0, <2>1, <2>2, <2>3, TornFile, WholeFile
         DEF UserOK, PlaceOK, AccountOK, UiPlace, BgPlace, Creating
    <2>8. FriendFileOK(u)'
      BY <1>0, <2>1, <2>2, <2>3
         DEF UserOK, PlaceOK, LockOK, FriendFileOK, Writes, BgPlace, UiPlace, Locking,
             Nobody, Creating, AccountOK
    <2>9. NotifFileOK(u)'
      BY <1>0, <2>1, <2>2, <2>3, TornFile, WholeFile, FilesKnown
         DEF UserOK, TypesOf, PlaceOK, LockOK, NotifFileOK, Writes, BgPlace, UiPlace,
             Locking, Nobody, Creating, AccountOK
    <2>10. (OffFilesOK(u) /\ OffNamesOK(u))'
      BY <1>0, <2>1, <2>2, <2>3, TornFile, WholeFile, NoNames
         DEF UserOK, PlaceOK, OffFilesOK, OffNamesOK, BgPlace, UiPlace, Creating, AccountOK
    <2>11. NamesOK(u)'
      BY <1>0, <2>1, <2>2, <2>3, TornFile, WholeFile, NoNames, NamesOfFriends,
         HeldTypes
         DEF UserOK, TypesOf, PlaceOK, UiHand, BgHand, NamesOK, UiPlace, BgPlace,
             Befriending, Creating, AccountOK
    <2> QED
      BY <2>4, <2>5, <2>6, <2>7, <2>8, <2>9, <2>10, <2>11 DEF UserOK
  <1>2. CASE pc[u]["ui"] = "init notif file"
    <2>1. /\ pc[u]["ui"] = "init notif file" /\ pc'[u]["ui"] = "add account"
          /\ pc'[u]["bg"] = pc[u]["bg"]
      BY ZenonT(60), <1>0, <1>2, GoAt DEF init_account_file, Thread
    <2>2. /\ nfile'[u] = File(<<>>)
          /\ UNCHANGED <<hand, friends, notifs, lock, ffile, profile, registered,
                         cut, half, raced>>
      BY <1>0, <1>2
         DEF Shape, init_account_file, Lock, Unlock, Truncated, Written, memory, disk,
             server, net, history, counters, past, Go, Thread
    <2>3. pc[u]["bg"] = "off" /\ pc'[u]["bg"] = "off"
      BY <1>0, <2>1, <2>2 DEF UserOK, PlaceOK, UiPlace, BgPlace, Creating
    <2>4. TypesOf(u)'
      BY <1>0, <2>1, <2>2, <2>3, FilesKnown, AppendKnown, HeldTypes
         DEF UserOK, TypesOf, PlaceOK, UiHand, BgHand, Befriending, Thread
    <2>5. (PlaceOK(u) /\ LockOK(u))'
      BY <1>0, <2>1, <2>2, <2>3
         DEF UserOK, TypesOf, PlaceOK, LockOK, UiPlace, BgPlace, Locking, Creating, Thread,
             Nobody
    <2>6. (UiHand(u) /\ BgHand(u))'
      BY <1>0, <2>1, <2>2, <2>3, Kinds, HeldTypes, Lists
         DEF UserOK, TypesOf, PlaceOK, UiHand, BgHand, UiPlace, BgPlace, Befriending,
             Creating
    <2>7. AccountOK(u)'
      BY <1>0, <2>1, <2>2, <2>3, TornFile, WholeFile
         DEF UserOK, PlaceOK, AccountOK, UiPlace, BgPlace, Creating
    <2>8. FriendFileOK(u)'
      BY <1>0, <2>1, <2>2, <2>3
         DEF UserOK, PlaceOK, LockOK, FriendFileOK, Writes, BgPlace, UiPlace, Locking,
             Nobody, Creating, AccountOK
    <2>9. NotifFileOK(u)'
      BY <1>0, <2>1, <2>2, <2>3, TornFile, WholeFile, FilesKnown
         DEF UserOK, TypesOf, PlaceOK, LockOK, NotifFileOK, Writes, BgPlace, UiPlace,
             Locking, Nobody, Creating, AccountOK
    <2>10. (OffFilesOK(u) /\ OffNamesOK(u))'
      BY <1>0, <2>1, <2>2, <2>3, TornFile, WholeFile, NoNames
         DEF UserOK, PlaceOK, OffFilesOK, OffNamesOK, BgPlace, UiPlace, Creating, AccountOK
    <2>11. NamesOK(u)'
      BY <1>0, <2>1, <2>2, <2>3, TornFile, WholeFile, NoNames, NamesOfFriends,
         HeldTypes, Lists
         DEF UserOK, TypesOf, PlaceOK, UiHand, BgHand, NamesOK, UiPlace, BgPlace,
             Befriending, Creating, AccountOK
    <2> QED
      BY <2>4, <2>5, <2>6, <2>7, <2>8, <2>9, <2>10, <2>11 DEF UserOK
  <1> QED
    BY <1>0, <1>1, <1>2 DEF init_account_file, Go

LEMMA AddAccountOK ==
    ASSUME FilesInv, NEW u \in User, add_account(u) PROVE UserOK(u)'
  <1>0. Shape /\ Numbers /\ UserOK(u)
    BY DEF FilesInv
  <1>1. /\ pc[u]["ui"] = "add account" /\ pc'[u]["ui"] = "user file"
        /\ pc'[u]["bg"] = pc[u]["bg"]
    BY ZenonT(60), <1>0, GoAt DEF add_account, Thread
  <1>2. /\ profile'[u] = Torn
        /\ UNCHANGED <<hand, friends, notifs, lock, ffile, nfile, registered, cut,
                       half, raced>>
    BY <1>0
       DEF Shape, add_account, Lock, Unlock, Truncated, Written, memory, disk,
           server, net,
           history, counters, past
  <1>3. pc[u]["bg"] = "off" /\ pc'[u]["bg"] = "off"
    BY <1>0, <1>1, <1>2 DEF UserOK, PlaceOK, UiPlace, BgPlace, Creating
  <1>4. TypesOf(u)'
    BY <1>0, <1>1, <1>2, <1>3, FilesKnown, AppendKnown, HeldTypes
       DEF UserOK, TypesOf, PlaceOK, UiHand, BgHand, Befriending, Thread
  <1>5. (PlaceOK(u) /\ LockOK(u))'
    BY <1>0, <1>1, <1>2, <1>3
       DEF UserOK, TypesOf, PlaceOK, LockOK, UiPlace, BgPlace, Locking, Creating, Thread,
           Nobody
  <1>6. (UiHand(u) /\ BgHand(u))'
    BY <1>0, <1>1, <1>2, <1>3, Kinds, HeldTypes
       DEF UserOK, TypesOf, PlaceOK, UiHand, BgHand, UiPlace, BgPlace, Befriending,
           Creating
  <1>7. AccountOK(u)'
    BY <1>0, <1>1, <1>2, <1>3, TornFile, WholeFile
       DEF UserOK, PlaceOK, AccountOK, UiPlace, BgPlace, Creating
  <1>8. FriendFileOK(u)'
    BY <1>0, <1>1, <1>2, <1>3
       DEF UserOK, PlaceOK, LockOK, FriendFileOK, Writes, BgPlace, UiPlace, Locking,
           Nobody, Creating, AccountOK
  <1>9. NotifFileOK(u)'
    BY <1>0, <1>1, <1>2, <1>3, TornFile, WholeFile, FilesKnown
       DEF UserOK, TypesOf, PlaceOK, LockOK, NotifFileOK, Writes, BgPlace, UiPlace,
           Locking, Nobody, Creating, AccountOK
  <1>10. (OffFilesOK(u) /\ OffNamesOK(u))'
    BY <1>0, <1>1, <1>2, <1>3, TornFile, WholeFile, NoNames
       DEF UserOK, PlaceOK, OffFilesOK, OffNamesOK, BgPlace, UiPlace, Creating, AccountOK
  <1>11. NamesOK(u)'
    BY <1>0, <1>1, <1>2, <1>3, TornFile, WholeFile, NoNames, NamesOfFriends,
       HeldTypes
       DEF UserOK, TypesOf, PlaceOK, UiHand, BgHand, NamesOK, UiPlace, BgPlace,
           Befriending, Creating, AccountOK
  <1> QED
    BY <1>4, <1>5, <1>6, <1>7, <1>8, <1>9, <1>10, <1>11 DEF UserOK

LEMMA WriteUserfileOK ==
    ASSUME FilesInv, NEW u \in User, write_userfile(u) PROVE UserOK(u)'
  <1>0. Shape /\ Numbers /\ UserOK(u)
    BY DEF FilesInv
  <1>1. /\ pc[u]["ui"] = "user file" /\ pc'[u]["ui"] = "menu"
        /\ pc'[u]["bg"] = "recv"
    BY <1>0 DEF write_userfile, On, Thread, Shape
  <1>2. /\ profile'[u] = File(<<u>>)
        /\ UNCHANGED <<hand, friends, notifs, lock, ffile, nfile, registered, cut,
                       half, raced>>
    BY <1>0
       DEF Shape, write_userfile, On, Lock, Unlock, Truncated, Written, memory, disk,
           server, net, history, counters, past
  <1>3. pc[u]["bg"] = "off" /\ pc'[u]["bg"] # "off"
    BY <1>0, <1>1, <1>2 DEF UserOK, PlaceOK, UiPlace, BgPlace, Creating
  <1>4. TypesOf(u)'
    BY <1>0, <1>1, <1>2, <1>3, FilesKnown, AppendKnown, HeldTypes
       DEF UserOK, TypesOf, PlaceOK, UiHand, BgHand, Befriending, Thread
  <1>5. (PlaceOK(u) /\ LockOK(u))'
    BY <1>0, <1>1, <1>2, <1>3
       DEF UserOK, TypesOf, PlaceOK, LockOK, UiPlace, BgPlace, Locking, Creating, Thread,
           Nobody
  <1>6. (UiHand(u) /\ BgHand(u))'
    BY <1>0, <1>1, <1>2, <1>3, Kinds, HeldTypes
       DEF UserOK, TypesOf, PlaceOK, UiHand, BgHand, UiPlace, BgPlace, Befriending,
           Creating
  <1>7. AccountOK(u)'
    BY <1>0, <1>1, <1>2, <1>3, TornFile, WholeFile
       DEF UserOK, PlaceOK, AccountOK, UiPlace, BgPlace, Creating
  <1>8. FriendFileOK(u)'
    BY <1>0, <1>1, <1>2, <1>3
       DEF UserOK, PlaceOK, LockOK, FriendFileOK, Writes, BgPlace, UiPlace, Locking,
           Nobody, Creating, AccountOK
  <1>9. NotifFileOK(u)'
    BY <1>0, <1>1, <1>2, <1>3, TornFile, WholeFile, FilesKnown
       DEF UserOK, TypesOf, PlaceOK, LockOK, NotifFileOK, Writes, BgPlace, UiPlace,
           Locking, Nobody, Creating, AccountOK
  <1>10. (OffFilesOK(u) /\ OffNamesOK(u))'
    BY <1>0, <1>1, <1>2, <1>3, TornFile, WholeFile, NoNames
       DEF UserOK, PlaceOK, OffFilesOK, OffNamesOK, BgPlace, UiPlace, Creating, AccountOK
  <1>11. NamesOK(u)'
    BY ZenonT(60), <1>0, <1>1, <1>2, <1>3, TornFile, WholeFile, NoNames,
       NamesOfFriends,
       HeldTypes
       DEF UserOK, TypesOf, PlaceOK, UiHand, BgHand, NamesOK, UiPlace, BgPlace,
           Befriending, Creating, AccountOK
  <1> QED
    BY <1>4, <1>5, <1>6, <1>7, <1>8, <1>9, <1>10, <1>11 DEF UserOK

LEMMA LoginOK ==
    ASSUME FilesInv, NEW u \in User, login(u) PROVE UserOK(u)'
  <1>0. Shape /\ Numbers /\ UserOK(u)
    BY DEF FilesInv
  <1>1. /\ pc[u]["ui"] = "off" /\ pc[u]["bg"] = "off" /\ pc'[u]["ui"] = "menu"
        /\ pc'[u]["bg"] = "recv"
    BY <1>0 DEF login, start_program, On, Off, HasAccount, Readable, Thread, Shape
  <1>2. /\ profile[u].whole /\ profile[u].data = <<u>> /\ ffile[u].whole
        /\ nfile[u].whole
        /\ NamedIn(nfile[u].data) \subseteq FriendsOf(ffile[u].data)
        /\ friends'[u] = ffile[u].data /\ notifs'[u] = nfile[u].data
        /\ UNCHANGED <<hand, lock, ffile, nfile, profile, registered, cut, half,
                       raced>>
    BY <1>0
       DEF Shape, login, start_program, On, Off, HasAccount, Readable, Lock, Unlock,
           Truncated, Written, memory, disk, server, net, history, counters, past
  <1>3. pc[u]["bg"] = "off" /\ pc'[u]["bg"] # "off"
    BY <1>0, <1>1, <1>2 DEF UserOK, PlaceOK, UiPlace, BgPlace, Creating
  <1>4. TypesOf(u)'
    BY <1>0, <1>1, <1>2, <1>3, FilesKnown, AppendKnown, HeldTypes
       DEF UserOK, TypesOf, PlaceOK, UiHand, BgHand, Befriending, Thread
  <1>5. (PlaceOK(u) /\ LockOK(u))'
    BY <1>0, <1>1, <1>2, <1>3
       DEF UserOK, TypesOf, PlaceOK, LockOK, UiPlace, BgPlace, Locking, Creating, Thread,
           Nobody
  <1>6. (UiHand(u) /\ BgHand(u))'
    BY <1>0, <1>1, <1>2, <1>3, Kinds, HeldTypes
       DEF UserOK, TypesOf, PlaceOK, UiHand, BgHand, UiPlace, BgPlace, Befriending,
           Creating
  <1>7. AccountOK(u)'
    BY <1>0, <1>1, <1>2, <1>3, TornFile, FilesKnown
       DEF UserOK, TypesOf, AccountOK, UiPlace, BgPlace, Creating
  <1>8. FriendFileOK(u)'
    BY <1>0, <1>1, <1>2, <1>3, TornFile, FilesKnown
       DEF UserOK, TypesOf, FriendFileOK, Writes
  <1>9. NotifFileOK(u)'
    BY <1>0, <1>1, <1>2, <1>3, TornFile, WholeFile, FilesKnown
       DEF UserOK, TypesOf, PlaceOK, LockOK, NotifFileOK, Writes, BgPlace, UiPlace,
           Locking, Nobody, Creating
  <1>10. (OffFilesOK(u) /\ OffNamesOK(u))'
    BY <1>0, <1>1, <1>2, <1>3, TornFile, WholeFile, NoNames
       DEF UserOK, PlaceOK, OffFilesOK, OffNamesOK, BgPlace, UiPlace, Creating
  <1>11. NamesOK(u)'
    BY <1>0, <1>1, <1>2, <1>3, TornFile, WholeFile, NoNames, NamesOfFriends,
       HeldTypes
       DEF UserOK, TypesOf, PlaceOK, UiHand, BgHand, NamesOK, UiPlace, BgPlace,
           Befriending, Creating
  <1> QED
    BY <1>4, <1>5, <1>6, <1>7, <1>8, <1>9, <1>10, <1>11 DEF UserOK

(* The program stops: what is in memory is gone, what a thread was writing is  *)
(* torn.                                                                       *)
LEMMA StopOK ==
    ASSUME FilesInv, NEW u \in User, stop(u) PROVE UserOK(u)'
  <1>0. Shape /\ Numbers /\ UserOK(u)
    BY DEF FilesInv
  <1>1. /\ pc[u]["ui"] # "off" /\ pc'[u]["ui"] = "off" /\ pc'[u]["bg"] = "off"
    BY <1>0 DEF stop, Running, Off, NoHands, Thread, Shape
  <1>2. /\ hand'[u]["ui"] = Empty /\ hand'[u]["bg"] = Empty
    BY <1>0 DEF stop, Running, Off, NoHands, Thread, Shape
  <1>3. /\ friends'[u] = <<>> /\ notifs'[u] = <<>> /\ lock'[u] = Nobody
        /\ u \in cut' <=> u \in cut \/ pc[u]["ui"] \in Writing \/ pc[u]["bg"] \in Writing
        /\ u \in half' <=> u \in half \/ pc[u]["ui"] \in Creating
        /\ UNCHANGED <<ffile, nfile, profile, registered, raced>>
    BY <1>0
       DEF Shape, stop, Running, Off, NoHands, Lock, Unlock, Truncated, Written, memory,
           disk, server, net, history, counters, past, Thread, Writing
  <1>4. TypesOf(u)'
    BY <1>0, <1>1, <1>2, <1>3, FilesKnown, AppendKnown, HeldTypes
       DEF UserOK, TypesOf, PlaceOK, UiHand, BgHand, Befriending, Thread
  <1>5. (PlaceOK(u) /\ LockOK(u))'
    BY <1>0, <1>1, <1>2, <1>3
       DEF UserOK, TypesOf, PlaceOK, LockOK, UiPlace, BgPlace, Locking, Creating, Thread,
           Nobody
  <1>6. (UiHand(u) /\ BgHand(u))'
    BY <1>0, <1>1, <1>2, <1>3, Kinds, HeldTypes
       DEF UserOK, TypesOf, PlaceOK, UiHand, BgHand, UiPlace, BgPlace, Befriending,
           Creating
  <1>7. AccountOK(u)'
    BY <1>0, <1>1, <1>2, <1>3, TornFile, WholeFile
       DEF UserOK, PlaceOK, AccountOK, UiPlace, BgPlace, Creating
  <1>8. FriendFileOK(u)'
    BY <1>0, <1>1, <1>2, <1>3
       DEF UserOK, PlaceOK, LockOK, FriendFileOK, Writes, BgPlace, UiPlace, Locking,
           Nobody, Creating
  <1>9. NotifFileOK(u)'
    BY <1>0, <1>1, <1>2, <1>3, TornFile, WholeFile, FilesKnown
       DEF UserOK, TypesOf, PlaceOK, LockOK, NotifFileOK, Writes, BgPlace, UiPlace,
           Locking, Nobody, Creating
  <1>10. (OffFilesOK(u) /\ OffNamesOK(u))'
    <2>1. CASE pc[u]["bg"] = "off"
      BY <1>0, <1>1, <1>3, <2>1 DEF UserOK, OffFilesOK, OffNamesOK
    <2>2. CASE pc[u]["bg"] # "off"
      <3>1. /\ ffile[u] = IF Writes(u, "friend file") THEN Torn ELSE File(friends[u])
            /\ NamedIn(nfile[u].data) \subseteq FriendsOf(friends[u])
        BY <1>0, <2>2 DEF UserOK, FriendFileOK, NamesOK
      <3>2. \/ Writes(u, "notif file") \/ pc[u]["bg"] = "count" \/ nfile[u].whole
        BY <1>0, <2>2, WholeFile DEF UserOK, NotifFileOK
      <3> QED
        BY <1>1, <1>3, <3>1, <3>2, TornFile, WholeFile
           DEF OffFilesOK, OffNamesOK, Writes, Writing
    <2> QED
      BY <2>1, <2>2
  <1>11. NamesOK(u)'
    BY <1>0, <1>1, <1>2, <1>3, TornFile, WholeFile, NoNames, NamesOfFriends,
       HeldTypes
       DEF UserOK, TypesOf, PlaceOK, UiHand, BgHand, NamesOK, UiPlace, BgPlace,
           Befriending, Creating
  <1> QED
    BY <1>4, <1>5, <1>6, <1>7, <1>8, <1>9, <1>10, <1>11 DEF UserOK

(* A step of somebody else.                                                    *)
LEMMA SameKeeps == ASSUME NEW w \in User, UserOK(w), Same(w) PROVE UserOK(w)'
  <1>1. TypesOf(w)'
    BY DEF UserOK, Same, TypesOf
  <1>2. (PlaceOK(w) /\ UiHand(w) /\ BgHand(w) /\ LockOK(w))'
    BY ZenonT(60) DEF UserOK, Same, PlaceOK, UiHand, BgHand, LockOK
  <1>3. AccountOK(w)'
    BY DEF UserOK, Same, AccountOK
  <1>4. (FriendFileOK(w) /\ NotifFileOK(w) /\ OffFilesOK(w))'
    BY DEF UserOK, Same, FriendFileOK, NotifFileOK, OffFilesOK, Writes
  <1>5. (NamesOK(w) /\ OffNamesOK(w))'
    BY DEF UserOK, Same, NamesOK, OffNamesOK
  <1> QED
    BY <1>1, <1>2, <1>3, <1>4, <1>5 DEF UserOK

(* The actions that choose: a message from the server, a notification to open. *)
LEMMA BgMessageOK == ASSUME FilesInv, NEW u \in User, bg_message(u) PROVE UserOK(u)'
  <1>1. box[u] \in Seq(Mail) /\ box[u] # <<>>
    BY DEF FilesInv, bg_message
  <1>2. PICK m : m = Head(box[u])
    OBVIOUS
  <1>3. m \in Mail
    BY <1>1, <1>2
  <1>4. PICK f : f = IF m.type = "response" THEN Friend(m.of, m.key, 2) ELSE Empty
    OBVIOUS
  <1>5. Handled(u, m, f)
    BY <1>2, <1>4 DEF bg_message
  <1>6. m.type = "response" => f \in Buddy
    BY <1>3, <1>4, MailKinds, Kinds
  <1> QED
    BY <1>3, <1>5, <1>6, HandledOK

LEMMA SelectNotifOK == ASSUME FilesInv, NEW u \in User, select_notif(u) PROVE UserOK(u)'
  <1>1. notifs[u] \in Seq(Notice)
    BY DEF FilesInv, UserOK, TypesOf
  <1>2. CASE \E i \in DOMAIN notifs[u] :
                Selected(u, "view", notifs[u][i], RemoveAt(notifs[u], i))
    <2>1. PICK i \in DOMAIN notifs[u] :
             Selected(u, "view", notifs[u][i], RemoveAt(notifs[u], i))
      BY <1>2
    <2>2. notifs[u][i] \in Notice
      BY <1>1
    <2>3. PICK r : r = RemoveAt(notifs[u], i)
      OBVIOUS
    <2>4. r \in Seq(Notice) /\ ToSet(r) \subseteq ToSet(notifs[u])
      BY <1>1, <2>3, Removed
    <2>5. NamedIn(r) \subseteq NamedIn(notifs[u])
      BY <2>4, NamesShrink
    <2> QED
      BY <2>1, <2>2, <2>3, <2>4, <2>5, SelectedOK
  <1>3. CASE \E view \in {"view", "view none"} : Selected(u, view, Empty, <<>>)
    <2>1. <<>> \in Seq(Notice) /\ NamedIn(<<>>) \subseteq NamedIn(notifs[u])
      BY NoNames, FilesKnown
    <2> QED
      BY <1>3, <2>1, SelectedOK
  <1> QED
    BY <1>2, <1>3 DEF select_notif

(* The actions that change nothing of what a user has.                         *)
LEMMA NothingOK ==
    ASSUME FilesInv, NEW u \in User, Shape',
           cmessage_send(u) \/ login_fails(u) \/ \E v \in User : send_friendreq(u, v)
    PROVE  Same(u) /\ UserOK(u)'
  <1>0. Shape /\ UserOK(u)
    BY DEF FilesInv
  <1>1. Same(u)
    <2>1. CASE login_fails(u)
      BY <2>1 DEF login_fails, Same, memory, disk
    <2>2. CASE cmessage_send(u) \/ \E v \in User : send_friendreq(u, v)
      <3>1. Go(u, "ui", "menu", "menu")
        BY <2>2 DEF cmessage_send, send_friendreq
      <3>2. pc'[u]["ui"] = pc[u]["ui"] /\ pc'[u]["bg"] = pc[u]["bg"]
        BY <1>0, <3>1, GoAt DEF Thread
      <3>3. pc[u] = [t \in Thread |-> pc[u][t]] /\ pc'[u] = [t \in Thread |-> pc'[u][t]]
        BY <1>0 DEF Shape
      <3>4. pc'[u] = pc[u]
        BY <3>2, <3>3 DEF Thread
      <3>5. UNCHANGED <<registered, friends, notifs, lock, hand, disk, past>>
        BY <2>2 DEF cmessage_send, send_friendreq, server
      <3> QED
        BY <3>4, <3>5 DEF Same, disk, past
    <2> QED
      BY <2>1, <2>2
  <1> QED
    BY <1>0, <1>1, SameKeeps

(* Together: every step keeps what its user has in order.                      *)
LEMMA UserStep == ASSUME FilesInv, NEW u \in User, Step(u) PROVE UserOK(u)'
  <1>1. CASE user_interface(u)
    BY <1>1, AddFriendUiOK, WriteFriendfileUiOK, SelectNotifOK,
       NotifSelectedOK, RejectOK, FriendreqSendResponseOK,
       InitAccountFileOK, AddAccountOK, WriteUserfileOK DEF user_interface
  <1>2. CASE background_thread(u)
    BY <1>2, AddFriendBgOK, WriteFriendfileBgOK, InsertNotifOK,
       InsertWrittenOK, BgMessageOK, AddNewMessageOK, CountWrittenOK
       DEF background_thread
  <1>3. Shape'
    BY ShapeStep DEF FilesInv
  <1>4. CASE user(u)
    BY <1>3, <1>4, ViewNotifsOK, NothingOK, CreateAccountOK, LoginOK,
       StopOK
       DEF user
  <1> QED
    BY <1>1, <1>2, <1>3, <1>4, NothingOK DEF Step

(* What a step does to the messages at the server, and to those in the queue   *)
(* of a connection.                                                            *)
Sends(u) == \E v \in User, m \in MailOf(u) : Send(u, v, m)
Takes(u) == box[u] # <<>> /\ box' = [box EXCEPT ![u] = Tail(@)]
Loses(u) ==
    \E n \in 0 .. Len(box[u]) : box' = [box EXCEPT ![u] = SubSeq(@, n + 1, Len(@))]
Empties(u) == out' = [out EXCEPT ![u] = <<>>]

LEMMA BoxStep ==
    ASSUME FilesInv, NEW u \in User, Step(u) PROVE UNCHANGED box \/ Takes(u) \/ Loses(u)
  <1>0. box[u] \in Seq(Mail)
    BY DEF FilesInv
  <1>1. CASE bg_message(u)
    BY <1>1 DEF bg_message, Takes
  <1>2. CASE login_fails(u)
    <2>1. Len(box[u]) \in 0 .. Len(box[u])
      BY <1>0
    <2>2. box' = [box EXCEPT ![u] = SubSeq(@, Len(box[u]) + 1, Len(@))]
      BY <1>2 DEF login_fails, Lose
    <2> QED
      BY <2>1, <2>2 DEF Loses
  <1>3. CASE stop(u)
    BY <1>3 DEF stop, Lose, Loses
  <1> QED
    BY <1>1, <1>2, <1>3
       DEF Step, user_interface, background_thread, user, server, net, add_friend,
           write_friendfile, select_notif, Selected, notif_selected, reject,
           init_account_file, add_account, write_userfile, insert_notif,
           insert_written, add_new_message, count_written, view_notifs,
           create_account, login, cmessage_send, send_friendreq,
           friendreq_send_response

LEMMA OutStep ==
    ASSUME FilesInv, NEW u \in User, Step(u) PROVE UNCHANGED out \/ Sends(u) \/ Empties(u)
  <1>0. UserOK(u)
    BY DEF FilesInv
  <1>1. CASE cmessage_send(u)
    <2>1. PICK f \in ToSet(friends[u]) : Send(u, f.of, Text(u, f))
      BY <1>1 DEF cmessage_send
    <2>2. f \in Buddy
      BY <1>0 DEF UserOK, TypesOf, ToSet
    <2>3. f.of \in User /\ Text(u, f) \in MailOf(u)
      BY <2>2 DEF Buddy, Text, Mail, MailOf
    <2> QED
      BY <2>1, <2>3 DEF Sends
  <1>2. CASE \E v \in User : send_friendreq(u, v)
    <2>1. Request(u) \in MailOf(u)
      BY DEF Request, Mail, MailOf
    <2> QED
      BY <1>2, <2>1 DEF send_friendreq, Sends
  <1>3. CASE friendreq_send_response(u)
    <2>1. pc[u]["ui"] = "response"
      BY <1>3 DEF friendreq_send_response, Go
    <2>2. hand[u]["ui"] \in Notice
      BY <1>0, <2>1 DEF UserOK, UiHand
    <2>3. hand[u]["ui"].of \in User
      BY <2>2, HeldTypes
    <2>4. keys + 1 \in Nat
      BY DEF FilesInv, Numbers
    <2>5. Response(u, keys + 1) \in MailOf(u)
      BY <2>4 DEF Response, Mail, MailOf
    <2> QED
      BY <1>3, <2>3, <2>5 DEF friendreq_send_response, Sends
  <1>4. CASE login_fails(u) \/ stop(u)
    BY <1>4 DEF login_fails, stop, Lose, Empties
  <1> QED
    BY <1>1, <1>2, <1>3, <1>4
       DEF Step, user_interface, background_thread, user, net, add_friend,
           write_friendfile, select_notif, Selected, notif_selected, reject,
           init_account_file, add_account, write_userfile, insert_notif,
           insert_written, add_new_message, count_written, view_notifs,
           create_account, login, bg_message, Handled

LEMMA MailStep ==
    ASSUME FilesInv, NEW u \in User, Step(u)
    PROVE  \A w \in User : box'[w] \in Seq(Mail) /\ out'[w] \in Seq(User \X MailOf(w))
  <1>0. /\ box = [w \in User |-> box[w]] /\ \A w \in User : box[w] \in Seq(Mail)
        /\ out = [w \in User |-> out[w]]
        /\ \A w \in User : out[w] \in Seq(User \X MailOf(w))
    BY DEF FilesInv, Shape
  <1>1. \A w \in User : box'[w] \in Seq(Mail)
    <2>1. CASE UNCHANGED box
      BY <1>0, <2>1
    <2>2. CASE Takes(u)
      <3>1. Tail(box[u]) \in Seq(Mail)
        BY <1>0, <2>2 DEF Takes
      <3> QED
        BY <1>0, <2>2, <3>1 DEF Takes
    <2>3. CASE Loses(u)
      <3>1. PICK n \in 0 .. Len(box[u]) :
               box' = [box EXCEPT ![u] = SubSeq(@, n + 1, Len(@))]
        BY <2>3 DEF Loses
      <3>2. PICK r : r = Ending(box[u], n)
        OBVIOUS
      <3>3. r \in Seq(Mail)
        BY <1>0, <3>2, Dropped
      <3> QED
        BY <1>0, <3>1, <3>2, <3>3 DEF Ending
    <2> QED
      BY <2>1, <2>2, <2>3, BoxStep
  <1>2. \A w \in User : out'[w] \in Seq(User \X MailOf(w))
    <2>1. CASE UNCHANGED out
      BY <1>0, <2>1
    <2>2. CASE Sends(u)
      <3>1. PICK v \in User, m \in MailOf(u) : Send(u, v, m)
        BY <2>2 DEF Sends
      <3>2. PICK x : x = <<v, m>>
        OBVIOUS
      <3>3. x \in User \X MailOf(u)
        BY <3>2
      <3>4. Append(out[u], x) \in Seq(User \X MailOf(u))
        BY <1>0, <3>3, AppendProperties
      <3> QED
        BY <1>0, <3>1, <3>2, <3>4 DEF Send
    <2>3. CASE Empties(u)
      BY <1>0, <2>3, EmptySeq DEF Empties
    <2> QED
      BY <2>1, <2>2, <2>3, OutStep
  <1> QED
    BY <1>1, <1>2

(* A message that leaves its sender's queue.                                   *)
Transmits(u, w, m) ==
    /\ out[u] # <<>> /\ Head(out[u]) = <<w, m>>
    /\ out' = [out EXCEPT ![u] = Tail(@)]
    /\ box' = [box EXCEPT ![w] = Append(@, m)]
    /\ UNCHANGED <<registered, memory, disk, history>>
LEMMA TransmitEffect ==
    ASSUME FilesInv, NEW u \in User, transmit(u)
    PROVE  \E w \in User, m \in MailOf(u) : Transmits(u, w, m)
  <1>1. out[u] \in Seq(User \X MailOf(u)) /\ out[u] # <<>>
    BY DEF FilesInv, transmit
  <1>2. PICK x : x = Head(out[u])
    OBVIOUS
  <1>3. x \in User \X MailOf(u)
    BY <1>1, <1>2
  <1>4. PICK w \in User, m \in MailOf(u) : x = <<w, m>>
    BY <1>3
  <1>5. box' = [box EXCEPT ![w] = Append(@, m)]
    <2>1. box' = [box EXCEPT ![Head(out[u])[1]] = Append(@, Head(out[u])[2])]
      BY DEF transmit
    <2>2. Head(out[u])[1] = w /\ Head(out[u])[2] = m
      BY <1>2, <1>4
    <2> QED
      BY <2>1, <2>2
  <1> QED
    BY <1>1, <1>2, <1>4, <1>5 DEF transmit, Transmits

LEMMA TransmitSame ==
    ASSUME NEW u, NEW w, NEW m, Transmits(u, w, m) PROVE \A v : Same(v)
  BY DEF Transmits, Same, memory, disk, history, past

LEMMA NumbersStep == ASSUME Numbers, NEW u \in User, Step(u) PROVE Numbers'
  <1>1. CASE cmessage_send(u) \/ \E v \in User : send_friendreq(u, v)
    BY <1>1 DEF Numbers, cmessage_send, send_friendreq, server
  <1>2. CASE friendreq_send_response(u)
    <2>1. keys' = keys + 1 /\ UNCHANGED <<registered, asked, sent, stops>>
      BY <1>2 DEF friendreq_send_response, server
    <2>2. keys + 1 \in Nat
      BY DEF Numbers
    <2> QED
      BY <2>1, <2>2 DEF Numbers
  <1>3. CASE create_account(u)
    BY <1>3 DEF Numbers, create_account, history, counters
  <1>4. CASE stop(u)
    BY <1>4 DEF Numbers, stop
  <1> QED
    BY <1>1, <1>2, <1>3, <1>4
       DEF Numbers, Step, user_interface, background_thread, user,
           server, net, add_friend,
           write_friendfile, select_notif, Selected, notif_selected, reject,
           init_account_file, add_account, write_userfile, insert_notif,
           insert_written, add_new_message, count_written, view_notifs,
           bg_message, Handled, login, login_fails, history, counters

LEMMA FilesTransmit == ASSUME FilesInv, NEW u \in User, transmit(u) PROVE FilesInv'
  <1>1. PICK w \in User, m \in MailOf(u) : Transmits(u, w, m)
    BY TransmitEffect
  <1>2. Shape /\ Numbers /\ out[u] \in Seq(User \X MailOf(u)) /\ box[w] \in Seq(Mail)
    BY DEF FilesInv
  <1>3. Shape' /\ Numbers'
    BY <1>1, <1>2
       DEF Transmits, Shape, Numbers, memory, disk, history, counters
  <1>4. Append(box[w], m) \in Seq(Mail)
    BY <1>2, AppendProperties DEF MailOf
  <1>5. Tail(out[u]) \in Seq(User \X MailOf(u))
    BY <1>1, <1>2 DEF Transmits
  <1>6. \A v \in User : box'[v] \in Seq(Mail)
    BY <1>1, <1>2, <1>4 DEF Transmits, FilesInv, Shape
  <1>7. \A v \in User : out'[v] \in Seq(User \X MailOf(v))
    BY <1>1, <1>2, <1>5 DEF Transmits, FilesInv, Shape
  <1>8. \A v \in User : UserOK(v)'
    BY <1>1, TransmitSame, SameKeeps DEF FilesInv
  <1> QED
    BY <1>3, <1>6, <1>7, <1>8 DEF FilesInv

LEMMA FilesStep == FilesInv /\ [Next]_vars => FilesInv'
  <1>1. ASSUME FilesInv, NEW u \in User, Step(u) PROVE FilesInv'
    <2>1. Shape' /\ Apart(u)
      BY <1>1, ShapeStep DEF FilesInv
    <2>2. Numbers'
      BY <1>1, NumbersStep DEF FilesInv
    <2>3. \A w \in User : box'[w] \in Seq(Mail) /\ out'[w] \in Seq(User \X MailOf(w))
      BY <1>1, MailStep
    <2>4. ASSUME NEW w \in User PROVE UserOK(w)'
      <3>1. CASE w = u
        BY <1>1, <3>1, UserStep
      <3>2. CASE w # u
        BY <1>1, <2>1, <3>2, SameKeeps DEF Apart, FilesInv
      <3> QED
        BY <3>1, <3>2
    <2> QED
      BY <2>1, <2>2, <2>3, <2>4 DEF FilesInv
  <1>2. ASSUME FilesInv, UNCHANGED vars PROVE FilesInv'
    <2>1. Shape' /\ Numbers'
      BY <1>2
         DEF FilesInv, Shape, Numbers, vars, server, net, memory, disk, history, counters
    <2>2. \A w \in User : box'[w] \in Seq(Mail) /\ out'[w] \in Seq(User \X MailOf(w))
      BY <1>2 DEF FilesInv, vars, server, net
    <2>3. ASSUME NEW w \in User PROVE UserOK(w)'
      <3>1. UserOK(w) /\ Same(w)
        BY <1>2 DEF FilesInv, vars, server, net, memory, disk, history, past, Same
      <3> QED
        BY <3>1, SameKeeps
    <2> QED
      BY <2>1, <2>2, <2>3 DEF FilesInv
  <1> QED
    BY <1>1, <1>2, FilesTransmit DEF Next, Step

(* At the start nobody is registered, or those in Registered have an account.  *)
LEMMA FilesInit == Init => FilesInv
  <1> SUFFICES ASSUME Init PROVE FilesInv
    OBVIOUS
  <1>1. Shape
    BY DEF Init, Shape, Off, NoHands, Thread
  <1>2. Numbers
    BY DEF Init, Numbers
  <1>3. \A u \in User : box[u] \in Seq(Mail) /\ out[u] \in Seq(User \X MailOf(u))
    BY EmptySeq DEF Init
  <1>4. ASSUME NEW u \in User PROVE UserOK(u)
    <2>1. /\ pc[u]["ui"] = "off" /\ pc[u]["bg"] = "off"
          /\ hand[u]["ui"] = Empty /\ hand[u]["bg"] = Empty
      BY DEF Init, Off, NoHands, Thread
    <2>2. /\ friends[u] = <<>> /\ notifs[u] = <<>> /\ lock[u] = Nobody
          /\ u \in registered <=> u \notin NewUser
          /\ ffile[u] = IF u \in NewUser THEN Torn ELSE File(<<>>)
          /\ nfile[u] = ffile[u]
          /\ profile[u] = IF u \in NewUser THEN File(<<>>) ELSE File(<<u>>)
      BY DEF Init
    <2>3. TypesOf(u)
      <3>1. /\ ffile[u] \in Files(Buddy) /\ nfile[u] \in Files(Notice)
            /\ profile[u] \in Files(User)
        <4>1. CASE u \in NewUser
          BY ZenonT(60), <2>2, <4>1, FilesKnown
        <4>2. CASE u \notin NewUser
          <5>1. PICK l : l = <<u>>
            OBVIOUS
          <5>2. l \in Seq(User)
            BY <5>1
          <5>3. File(l) \in Files(User)
            BY <5>2, FilesKnown
          <5>4. ffile[u] = File(<<>>) /\ nfile[u] = File(<<>>) /\ profile[u] = File(l)
            BY <2>2, <4>2, <5>1
          <5>5. File(<<>>) \in Files(Buddy) /\ File(<<>>) \in Files(Notice)
            BY FilesKnown
          <5> QED
            BY <5>3, <5>4, <5>5
        <4> QED
          BY <4>1, <4>2
      <3> QED
        BY <2>2, <3>1 DEF TypesOf
    <2>4. PlaceOK(u) /\ LockOK(u)
      BY <2>1, <2>2 DEF PlaceOK, UiPlace, BgPlace, LockOK, Locking, Nobody
    <2>5. UiHand(u) /\ BgHand(u)
      BY <2>1 DEF UiHand, BgHand, Befriending
    <2>6. AccountOK(u)
      BY <2>1, <2>2 DEF AccountOK, Creating
    <2>7. FriendFileOK(u) /\ NotifFileOK(u) /\ NamesOK(u)
      BY <2>1 DEF FriendFileOK, NotifFileOK, NamesOK
    <2>8. OffFilesOK(u)
      BY <2>1, <2>2, WholeFile DEF OffFilesOK
    <2>9. OffNamesOK(u)
      BY <2>2, NoNames, TornFile, WholeFile DEF OffNamesOK
    <2> QED
      BY <2>3, <2>4, <2>5, <2>6, <2>7, <2>8, <2>9 DEF UserOK
  <1> QED
    BY <1>1, <1>2, <1>3, <1>4 DEF FilesInv

(* FilesInv holds in every reachable state.                                    *)
LEMMA FilesAlways == Spec => []FilesInv
  BY FilesInit, FilesStep, PTL DEF Spec

(* The friend file and the notification file of a client that runs have what   *)
(* the lists in memory have, unless a thread that holds the lock is writing,   *)
(* or two threads raced for the notifications; whom a notification names is in *)
(* the friend file (friends.c: add_friend, notifications.c: write_notiffile).  *)
THEOREM FilesOfFriends == Spec => []FriendsInv
  <1>1. FilesInv => FriendsInv
    <2> SUFFICES ASSUME FilesInv PROVE FriendsInv
      OBVIOUS
    <2>1. ASSUME NEW u \in User, NEW t \in Thread
          PROVE  pc[u][t] \in Places /\ lock[u] \in Thread \cup {Nobody}
      BY
         DEF FilesInv, UserOK, PlaceOK, TypesOf, UiPlace, BgPlace, Places, Creating, Thread
    <2>2. TypeOK
      BY <2>1 DEF FilesInv, Numbers, TypeOK
    <2>3. ASSUME NEW u \in User
          PROVE
            /\ \A t \in Thread :
                  lock[u] = t <=> pc[u][t] \in {"friend file", "notif file", "endless"}
            /\ lock[u] = Nobody /\ pc[u]["bg"] \notin {"off", "count"} =>
                  /\ ffile[u] = File(friends[u])
                  /\ nfile[u] = File(notifs[u]) \/ u \in raced
            /\ pc[u]["ui"] = "off" /\ HasAccount(u) /\ u \notin cut =>
                  ffile[u].whole /\ nfile[u].whole
            /\ ffile[u].whole => NamedIn(nfile[u].data) \subseteq FriendsOf(ffile[u].data)
      <3>0. UserOK(u)
        BY DEF FilesInv
      <3>1. \A t \in Thread :
               lock[u] = t <=> pc[u][t] \in {"friend file", "notif file", "endless"}
        BY <3>0 DEF UserOK, LockOK, Locking, Thread
      <3>2. lock[u] = Nobody =>
               ~ Writes(u, "friend file") /\ ~ Writes(u, "notif file")
        BY <3>1 DEF Writes, Thread, Nobody
      <3>3. lock[u] = Nobody /\ pc[u]["bg"] \notin {"off", "count"} =>
               /\ ffile[u] = File(friends[u])
               /\ nfile[u] = File(notifs[u]) \/ u \in raced
        BY <3>0, <3>2 DEF UserOK, FriendFileOK, NotifFileOK
      <3>4. pc[u]["ui"] = "off" => pc[u]["bg"] = "off"
        BY <3>0 DEF UserOK, PlaceOK
      <3>5. HasAccount(u) => profile[u] = File(<<u>>)
        <4>1. profile[u] = Torn \/ profile[u] = File(profile[u].data)
          BY <3>0, FilesKnown DEF UserOK, TypesOf
        <4>2. <<>> # <<u>>
          OBVIOUS
        <4> QED
          BY <4>1, <4>2, TornFile DEF HasAccount
      <3>6. pc[u]["ui"] = "off" /\ HasAccount(u) /\ u \notin cut =>
               ffile[u].whole /\ nfile[u].whole
        BY <3>0, <3>4, <3>5 DEF UserOK, OffFilesOK
      <3>7. ffile[u].whole => NamedIn(nfile[u].data) \subseteq FriendsOf(ffile[u].data)
        <4>1. CASE pc[u]["bg"] = "off"
          BY <3>0, <4>1 DEF UserOK, OffNamesOK
        <4>2. CASE pc[u]["bg"] # "off"
          <5>1. ffile[u].whole => ffile[u] = File(friends[u])
            BY <3>0, <4>2, TornFile DEF UserOK, FriendFileOK
          <5> QED
            BY <3>0, <4>2, <5>1, WholeFile DEF UserOK, NamesOK
        <4> QED
          BY <4>1, <4>2
      <3> QED
        BY <3>1, <3>3, <3>6, <3>7
    <2> QED
      BY <2>2, <2>3 DEF FriendsInv, FilesAgree
  <1> QED
    BY <1>1, FilesAlways, PTL

(* Whoever has registered has a user file and files that a login can read, but *)
(* for a stop within a write or while the account is made, and for the news of *)
(* an accepted request, which read_notiffile takes for an error                *)
(* (login_server.c: create_account, notifications.c: read_notiffile).          *)
THEOREM AccountCanReturn == Spec => []CanReturn
  <1>1. FilesInv => CanReturn
    <2> SUFFICES ASSUME FilesInv, NEW u \in registered, pc[u]["ui"] = "off",
                        u \notin cut, u \notin half,
                        ~ \E n \in ToSet(nfile[u].data) : n.type = "accepted"
                 PROVE  profile[u].whole /\ HasAccount(u) /\ Readable(u)
      BY DEF CanReturn
    <2>0. u \in User /\ UserOK(u)
      BY DEF FilesInv, Numbers
    <2>1. profile[u] = File(<<u>>) /\ pc[u]["bg"] = "off"
      BY <2>0 DEF UserOK, AccountOK, PlaceOK
    <2>2. profile[u].whole /\ HasAccount(u)
      BY <2>1, WholeFile DEF HasAccount
    <2>3. ffile[u].whole /\ nfile[u].whole
      BY <2>0, <2>1 DEF UserOK, OffFilesOK
    <2>4. NamedIn(nfile[u].data) \subseteq FriendsOf(ffile[u].data)
      BY <2>0, <2>1, <2>3 DEF UserOK, OffNamesOK
    <2> QED
      BY <2>2, <2>3, <2>4 DEF Readable
  <1> QED
    BY <1>1, FilesAlways, PTL

(* What a step does with the friends a user holds.                             *)
Keeps(u) ==
    \A f \in Buddy : Has(u, f) => Has(u, f)' \/ f.key \in lost' \/ u \in cut'
Grows(u) == ToSet(friends'[u]) \cup ToSet(ffile'[u].data) \subseteq Old(u)
Fresh(u) ==
    \A t \in Thread : hand'[u][t].type = "friend" => hand'[u][t] = hand[u][t]

(* A key is in a thread's hands exactly where it is about to be listed or      *)
(* written.                                                                    *)
LEMMA HandTypes ==
    ASSUME NEW u \in User, UserOK(u), NEW t \in Thread
    PROVE  /\ hand[u][t].type = "friend" <=> pc[u][t] \in Befriending
           /\ hand[u][t].type = "friend" <=> hand[u][t] \in Buddy
  <1>1. /\ \A h \in Buddy : h.type = "friend"
        /\ \A h \in Notice \cup Listed \cup {Empty} : h.type # "friend"
    BY DEF Buddy, Notice, Listed, Empty
  <1>2. CASE t = "ui"
    BY <1>1, <1>2 DEF UserOK, UiHand, Befriending
  <1>3. CASE t = "bg"
    BY <1>1, <1>3 DEF UserOK, PlaceOK, BgPlace, BgHand, Befriending
  <1> QED
    BY <1>2, <1>3 DEF Thread

HandsMatch ==
    \A u \in User, t \in Thread :
        hand[u][t].type = "friend" <=> pc[u][t] \in Befriending
LEMMA HandsKnown == FilesInv => HandsMatch
  BY HandTypes DEF FilesInv, HandsMatch
LEMMA HandsKnownNext == FilesInv' => HandsMatch'
  BY HandsKnown, PTL

(* Keeps: no key is lost but by a stop that cuts. Grows: lists and files gain  *)
(* only what was in a hand. Fresh: no key comes into a hand.                   *)
LEMMA SameHas ==
    ASSUME NEW u \in User, Same(u) PROVE Keeps(u) /\ Grows(u) /\ Fresh(u)
  <1>1. List(u)' = List(u)
    BY DEF Same, List
  <1>2. \A f : Has(u, f)' = Has(u, f)
    BY <1>1 DEF Has, Same
  <1> QED
    BY <1>2 DEF Keeps, Grows, Fresh, Old, Same

(* A thread of a program that runs does something else.                        *)
LEMMA Elsewhere ==
    ASSUME FilesInv, FilesInv', NEW u \in User, NEW t \in Thread,
           NEW from \in Places \ (Befriending \cup Creating \cup {"off"}),
           NEW to \in Places, NEW h,
           Go(u, t, from, to), Take(u, t, h) \/ UNCHANGED hand,
           UNCHANGED <<friends, ffile>>
    PROVE  /\ Keeps(u) /\ Grows(u)
           /\ to \notin Befriending => Fresh(u)
           /\ \A s \in Thread \ {t} : hand'[u][s] = hand[u][s]
           /\ hand[u][t] \notin Buddy
  <1>0. Shape /\ UserOK(u) /\ UserOK(u)'
    BY DEF FilesInv
  <1>1. /\ pc[u][t] = from /\ pc'[u][t] = to
        /\ \A s \in Thread \ {t} : pc'[u][s] = pc[u][s]
    BY <1>0, GoAt
  <1>2. \A s \in Thread \ {t} : hand'[u][s] = hand[u][s]
    BY <1>0, TakeAt
  <1>3. hand[u][t] \notin Buddy
    BY <1>0, <1>1, HandTypes
  <1>4. pc[u]["bg"] # "off"
    BY <1>0, <1>1 DEF UserOK, PlaceOK, Thread
  <1>5. pc'[u]["bg"] # "off"
    <2>1. CASE t = "ui"
      BY <1>1, <1>4, <2>1 DEF Thread
    <2>2. CASE t = "bg"
      <3>1. pc'[u]["ui"] = pc[u]["ui"] /\ pc[u]["ui"] \notin Creating \cup {"off"}
        BY <1>0, <1>1, <1>4, <2>2 DEF Thread, UserOK, PlaceOK
      <3> QED
        BY <1>0, <3>1 DEF UserOK, PlaceOK
    <2> QED
      BY <2>1, <2>2 DEF Thread
  <1>6. List(u)' = List(u)
    BY <1>4, <1>5 DEF List
  <1>7. Keeps(u)
    BY <1>2, <1>3, <1>6 DEF Keeps, Has
  <1>8. Grows(u)
    BY DEF Grows, Old
  <1>9. to \notin Befriending => Fresh(u)
    <2> SUFFICES ASSUME to \notin Befriending, NEW s \in Thread,
                        hand'[u][s].type = "friend"
                 PROVE  hand'[u][s] = hand[u][s]
      BY DEF Fresh
    <2>1. pc'[u][s] \in Befriending
      BY HandsKnownNext DEF HandsMatch
    <2> QED
      BY <1>1, <1>2, <2>1
  <1> QED
    BY <1>2, <1>3, <1>7, <1>8, <1>9

Quietly(u) ==
    \E t \in Thread, from \in Places \ (Befriending \cup Creating \cup {"off"}),
       to \in Places \ Befriending :
       /\ Go(u, t, from, to)
       /\ UNCHANGED hand \/ \E h : Take(u, t, h)
       /\ UNCHANGED <<friends, ffile>>

(* The actions on notifications do neither.                                    *)
LEMMA QuietSteps ==
    ASSUME NEW u \in User,
           \/ insert_notif(u) \/ insert_written(u) \/ add_new_message(u)
           \/ count_written(u) \/ view_notifs(u) \/ select_notif(u)
           \/ notif_selected(u) \/ reject(u)
    PROVE  Quietly(u)
  <1> USE DEF Places, Befriending, Creating, Thread
  <1>1. CASE insert_notif(u)
    BY <1>1 DEF insert_notif, Quietly
  <1>2. CASE insert_written(u)
    BY <1>2 DEF insert_written, Quietly
  <1>3. CASE add_new_message(u)
    BY <1>3 DEF add_new_message, Quietly
  <1>4. CASE count_written(u)
    BY <1>4 DEF count_written, Quietly
  <1>5. CASE view_notifs(u)
    BY <1>5 DEF view_notifs, Quietly, disk
  <1>6. CASE select_notif(u)
    BY <1>6 DEF select_notif, Selected, Quietly
  <1>7. CASE notif_selected(u)
    BY <1>7 DEF notif_selected, Quietly
  <1>8. CASE reject(u)
    BY <1>8 DEF reject, Quietly, disk
  <1> QED
    BY <1>1, <1>2, <1>3, <1>4, <1>5, <1>6, <1>7, <1>8

LEMMA QuietKeeps ==
    ASSUME FilesInv, FilesInv', NEW u \in User, Quietly(u)
    PROVE  Keeps(u) /\ Grows(u) /\ Fresh(u)
  <1>1. PICK t \in Thread, from \in Places \ (Befriending \cup Creating \cup {"off"}),
             to \in Places \ Befriending :
           /\ Go(u, t, from, to)
           /\ UNCHANGED hand \/ \E h : Take(u, t, h)
           /\ UNCHANGED <<friends, ffile>>
    BY DEF Quietly
  <1>2. PICK h : Take(u, t, h) \/ UNCHANGED hand
    BY <1>1
  <1> QED
    BY <1>1, <1>2, Elsewhere

(* add_friend puts the friend of the hand into the list, write_friendfile the  *)
(* list into the file.                                                         *)
LEMMA AddKeeps ==
    ASSUME FilesInv, FilesInv', NEW u \in User, NEW t \in Thread, add_friend(u, t)
    PROVE  Keeps(u) /\ Grows(u) /\ Fresh(u)
  <1>0. Shape /\ UserOK(u)
    BY DEF FilesInv
  <1>1. /\ pc[u][t] = "add friend" /\ pc'[u][t] = "friend file"
        /\ \A s \in Thread \ {t} : pc'[u][s] = pc[u][s]
    BY <1>0, GoAt DEF add_friend
  <1>2. pc[u]["bg"] # "off" /\ pc'[u]["bg"] # "off"
    BY <1>0, <1>1 DEF UserOK, PlaceOK, Thread, Creating
  <1>3. /\ friends'[u] = Append(friends[u], hand[u][t]) /\ ffile'[u] = Torn
        /\ UNCHANGED hand
    BY <1>0 DEF Shape, add_friend, Truncated
  <1>4. ToSet(friends'[u]) = ToSet(friends[u]) \cup {hand[u][t]}
    BY <1>0, <1>3, Listing DEF UserOK, TypesOf
  <1>5. List(u) = friends[u] /\ List(u)' = friends'[u]
    BY <1>2 DEF List
  <1>6. Keeps(u)
    BY <1>3, <1>4, <1>5 DEF Keeps, Has
  <1>7. hand[u][t].type = "friend"
    BY <1>0, <1>1, HandTypes DEF Befriending
  <1>8. ToSet(ffile'[u].data) = {}
    BY <1>3, TornFile, NoNames
  <1> QED
    BY <1>3, <1>4, <1>6, <1>7, <1>8 DEF Grows, Old, Fresh

LEMMA WriteKeeps ==
    ASSUME FilesInv, FilesInv', NEW u \in User, NEW t \in Thread, write_friendfile(u, t)
    PROVE  Keeps(u) /\ Grows(u) /\ Fresh(u)
  <1>0. Shape /\ UserOK(u) /\ UserOK(u)'
    BY DEF FilesInv
  <1>1. PICK h : /\ Go(u, t, "friend file", IF t = "bg" THEN "insert" ELSE "menu")
                 /\ Take(u, t, h)
    BY DEF write_friendfile
  <1>2. PICK to \in {"insert", "menu"} : Go(u, t, "friend file", to)
    BY <1>1
  <1>3. /\ pc[u][t] = "friend file" /\ pc'[u][t] = to
        /\ \A s \in Thread \ {t} : pc'[u][s] = pc[u][s]
    BY <1>0, <1>2, GoAt
  <1>4. \A s \in Thread \ {t} : hand'[u][s] = hand[u][s]
    BY <1>0, <1>1, TakeAt
  <1>5. pc[u]["bg"] # "off"
    BY <1>0, <1>3 DEF UserOK, PlaceOK, Thread, Creating
  <1>6. pc'[u]["bg"] # "off"
    BY <1>2, <1>3, <1>5 DEF Thread
  <1>7. hand[u][t] \in ToSet(friends[u])
    BY <1>0, <1>3, <1>5 DEF UserOK, NamesOK, Thread
  <1>8. friends'[u] = friends[u] /\ ffile'[u] = File(friends[u])
    BY <1>0 DEF Shape, write_friendfile, Written
  <1>9. List(u) = friends[u] /\ List(u)' = friends[u]
    BY <1>5, <1>6, <1>8 DEF List
  <1>10. Keeps(u)
    BY <1>4, <1>7, <1>9 DEF Keeps, Has
  <1>11. Grows(u)
    BY <1>8, WholeFile DEF Grows, Old
  <1>12. hand'[u][t].type # "friend"
    BY <1>2, <1>3, HandsKnownNext DEF HandsMatch, Befriending
  <1> QED
    BY <1>4, <1>10, <1>11, <1>12 DEF Fresh

(* An account is made, or logged in to.                                        *)
LEMMA StartKeeps ==
    ASSUME FilesInv, FilesInv', NEW u \in User,
           \/ create_account(u) \/ init_account_file(u) \/ add_account(u)
           \/ write_userfile(u) \/ login(u)
    PROVE  Keeps(u) /\ Grows(u) /\ Fresh(u)
  <1>0. Shape /\ UserOK(u) /\ UserOK(u)'
    BY DEF FilesInv
  <1>1. hand' = hand /\ pc[u]["ui"] \in Creating \cup {"off"}
    <2>1. CASE create_account(u)
      BY <2>1 DEF create_account, Go
    <2>2. CASE init_account_file(u)
      BY <2>2 DEF init_account_file, Go, Creating
    <2>3. CASE add_account(u)
      BY <2>3 DEF add_account, Go, Creating
    <2>4. CASE write_userfile(u)
      BY <2>4 DEF write_userfile, Creating
    <2>5. CASE login(u)
      <3>1. pc[u] = Off
        BY <2>5 DEF login, start_program
      <3> QED
        BY <2>5, <3>1 DEF login, Off
    <2> QED
      BY <2>1, <2>2, <2>3, <2>4, <2>5
  <1>2. pc[u]["bg"] = "off"
    BY <1>0, <1>1 DEF UserOK, PlaceOK
  <1>3. friends[u] = <<>> /\ List(u) = ffile[u].data
    BY <1>0, <1>2 DEF UserOK, AccountOK, List
  <1>4. /\ ffile'[u].data = ffile[u].data
        /\ friends'[u] = ffile[u].data \/ (pc'[u]["bg"] = "off" /\ friends'[u] = <<>>)
    <2>1. CASE create_account(u)
      <3>1. pc'[u]["bg"] = pc[u]["bg"]
        BY <1>0, <2>1, GoAt DEF create_account, Thread
      <3> QED
        BY <1>2, <1>3, <2>1, <3>1 DEF create_account, disk
    <2>2. CASE init_account_file(u)
      <3>1. PICK from \in {"init friend file", "init notif file"}, to \in Creating :
               Go(u, "ui", from, to)
        BY <2>2 DEF init_account_file, Creating
      <3>2. pc[u]["ui"] = from /\ pc'[u]["bg"] = pc[u]["bg"]
        BY <1>0, <3>1, GoAt DEF Thread
      <3>3. ffile[u].data = <<>>
        BY ZenonT(60), <1>0, <3>1, <3>2, TornFile, WholeFile DEF UserOK, AccountOK
      <3>4. ffile'[u] = ffile[u] \/ ffile'[u] = File(<<>>)
        BY <1>0, <2>2 DEF init_account_file, Written, Shape
      <3> QED
        BY <1>2, <1>3, <2>2, <3>2, <3>3, <3>4, WholeFile DEF init_account_file
    <2>3. CASE add_account(u)
      <3>1. pc'[u]["bg"] = pc[u]["bg"]
        BY <1>0, <2>3, GoAt DEF add_account, Thread
      <3> QED
        BY <1>2, <1>3, <2>3, <3>1 DEF add_account
    <2>4. CASE write_userfile(u)
      <3>1. pc[u]["ui"] = "user file"
        BY <2>4 DEF write_userfile
      <3>2. ffile[u].data = <<>>
        BY ZenonT(60), <1>0, <3>1, WholeFile DEF UserOK, AccountOK
      <3> QED
        BY <1>3, <2>4, <3>2 DEF write_userfile
    <2>5. CASE login(u)
      <3>1. friends' = [friends EXCEPT ![u] = ffile[u].data] /\ ffile' = ffile
        BY <2>5 DEF login, disk
      <3> QED
        BY <1>0, <3>1 DEF Shape
    <2> QED
      BY <2>1, <2>2, <2>3, <2>4, <2>5
  <1>5. List(u)' = List(u)
    BY <1>3, <1>4 DEF List
  <1>6. Keeps(u)
    BY <1>1, <1>5 DEF Keeps, Has
  <1>7. Grows(u)
    BY <1>3, <1>4 DEF Grows, Old
  <1> QED
    BY <1>1, <1>6, <1>7 DEF Fresh

(* What the program had is in the file, unless it stopped with a key in its    *)
(* hands or in a write: then the key is in lost or the user in cut.            *)
LEMMA StopKeeps ==
    ASSUME FilesInv, FilesInv', NEW u \in User, stop(u)
    PROVE  Keeps(u) /\ Grows(u) /\ Fresh(u)
  <1>0. Shape /\ UserOK(u) /\ UserOK(u)'
    BY DEF FilesInv
  <1>1. /\ pc'[u]["bg"] = "off" /\ friends'[u] = <<>> /\ ffile'[u] = ffile[u]
        /\ \A t \in Thread : hand'[u][t] = Empty
    BY <1>0 DEF stop, Off, NoHands, Shape, disk, Thread
  <1>2. PICK n : Lose(u, n)
    BY DEF stop
  <1>3. KeysIn({hand[u][t] : t \in Thread}) \subseteq lost'
    BY <1>2 DEF Lose
  <1>4. ASSUME NEW t \in Thread, hand[u][t] \in Buddy PROVE hand[u][t].key \in lost'
    <2>1. hand[u][t].type \in {"response", "friend"}
      BY <1>0, <1>4, HandTypes
    <2> QED
      BY <1>3, <2>1 DEF KeysIn
  <1>5. List(u)' = ffile[u].data
    BY <1>1 DEF List
  <1>6. u \in cut' \/ List(u) = ffile[u].data
    <2>1. CASE pc[u]["bg"] = "off"
      BY <2>1 DEF List
    <2>2. CASE pc[u]["bg"] # "off" /\ Writes(u, "friend file")
      BY <2>2 DEF stop, Writes, Writing, Thread
    <2>3. CASE pc[u]["bg"] # "off" /\ ~ Writes(u, "friend file")
      BY <1>0, <2>3, WholeFile DEF UserOK, FriendFileOK, List
    <2> QED
      BY <2>1, <2>2, <2>3
  <1>7. Keeps(u)
    BY <1>4, <1>5, <1>6 DEF Keeps, Has
  <1>8. Grows(u)
    BY <1>1, NoNames DEF Grows, Old
  <1>9. Fresh(u)
    BY <1>1, HeldTypes DEF Fresh
  <1> QED
    BY <1>7, <1>8, <1>9

(* The two steps that take a key in hand: a response sent, a message read.     *)
LEMMA AnswerKeeps ==
    ASSUME FilesInv, FilesInv', NEW u \in User, friendreq_send_response(u)
    PROVE  /\ Keeps(u) /\ Grows(u)
           /\ hand[u]["ui"].of \in User
           /\ hand'[u]["ui"] = Friend(hand[u]["ui"].of, keys + 1, 1)
           /\ hand'[u]["bg"] = hand[u]["bg"]
  <1>0. Shape /\ UserOK(u)
    BY DEF FilesInv
  <1>1. PICK h : h = Friend(hand[u]["ui"].of, keys + 1, 1)
    OBVIOUS
  <1>2. /\ Go(u, "ui", "response", "add friend") /\ Take(u, "ui", h)
        /\ UNCHANGED <<friends, ffile>>
    BY <1>1 DEF friendreq_send_response, disk
  <1>3. /\ "response" \in Places \ (Befriending \cup Creating \cup {"off"})
        /\ "add friend" \in Places
    BY DEF Places, Befriending, Creating
  <1>4. Keeps(u) /\ Grows(u)
    BY <1>2, <1>3, Elsewhere DEF Thread
  <1>5. hand'[u]["ui"] = h /\ hand'[u]["bg"] = hand[u]["bg"]
    BY <1>0, <1>2, TakeAt DEF Thread
  <1>6. pc[u]["ui"] = "response"
    BY <1>2 DEF Go
  <1>7. hand[u]["ui"] \in Notice
    BY <1>0, <1>6 DEF UserOK, UiHand
  <1>8. hand[u]["ui"].of \in User
    BY <1>7, HeldTypes
  <1> QED
    BY <1>1, <1>4, <1>5, <1>8

LEMMA ReadKeeps ==
    ASSUME FilesInv, FilesInv', NEW u \in User, bg_message(u), NEW m, m = Head(box[u])
    PROVE  /\ Keeps(u) /\ Grows(u) /\ m \in Mail
           /\ hand'[u]["ui"] = hand[u]["ui"]
           /\ m.type = "response" => hand'[u]["bg"] = Friend(m.of, m.key, 2)
           /\ m.type # "response" => Fresh(u)
  <1>0. Shape /\ UserOK(u) /\ box[u] \in Seq(Mail) /\ box[u] # <<>>
    BY DEF FilesInv, bg_message
  <1>1. m \in Mail
    BY <1>0
  <1>2. PICK f : f = IF m.type = "response" THEN Friend(m.of, m.key, 2) ELSE Empty
    OBVIOUS
  <1>3. Handled(u, m, f)
    BY <1>2 DEF bg_message
  <1>4. /\ "recv" \in Places \ (Befriending \cup Creating \cup {"off"})
        /\ {"insert", "recv", "new message", "add friend"} \subseteq Places
    BY DEF Places, Befriending, Creating
  <1>5. UNCHANGED <<friends, ffile>>
    BY <1>3 DEF Handled, disk
  <1>6. CASE m.type = "response"
    <2>1. Go(u, "bg", "recv", "add friend") /\ Take(u, "bg", f)
      BY <1>3, <1>6 DEF Handled
    <2>2. Keeps(u) /\ Grows(u) /\ hand'[u]["ui"] = hand[u]["ui"]
      BY <1>4, <1>5, <2>1, Elsewhere DEF Thread
    <2>3. hand'[u]["bg"] = f
      BY <1>0, <2>1, TakeAt DEF Thread
    <2> QED
      BY <1>1, <1>2, <1>6, <2>2, <2>3
  <1>7. CASE m.type # "response"
    <2>1. PICK to \in {"insert", "recv", "new message"} : Go(u, "bg", "recv", to)
      BY <1>3, <1>7 DEF Handled
    <2>2. PICK h : Take(u, "bg", h) \/ UNCHANGED hand
      BY <1>3 DEF Handled
    <2>3. to \in Places /\ to \notin Befriending
      BY <1>4 DEF Befriending
    <2>4. /\ Keeps(u) /\ Grows(u) /\ Fresh(u)
          /\ \A s \in Thread \ {"bg"} : hand'[u][s] = hand[u][s]
      BY <1>4, <1>5, <2>1, <2>2, <2>3, Elsewhere DEF Thread
    <2> QED
      BY <1>1, <1>7, <2>4 DEF Thread
  <1> QED
    BY <1>6, <1>7

(* All the other steps take no new key in hand.                                *)
LEMMA OthersKeep ==
    ASSUME FilesInv, FilesInv', NEW u \in User, Step(u),
           ~ friendreq_send_response(u), ~ bg_message(u)
    PROVE  Keeps(u) /\ Grows(u) /\ Fresh(u)
  <1>1. CASE user_interface(u)
    BY <1>1, AddKeeps, WriteKeeps, QuietSteps, QuietKeeps, StartKeeps
       DEF user_interface, Thread
  <1>2. CASE background_thread(u)
    BY <1>2, AddKeeps, WriteKeeps, QuietSteps, QuietKeeps
       DEF background_thread, Thread
  <1>3. CASE cmessage_send(u) \/ login_fails(u) \/ \E v \in User : send_friendreq(u, v)
    <2>1. Same(u)
      BY <1>3, NothingOK DEF FilesInv
    <2> QED
      BY <2>1, SameHas
  <1>4. CASE user(u)
    BY <1>3, <1>4, QuietSteps, QuietKeeps, StartKeeps, StopKeeps DEF user
  <1> QED
    BY <1>1, <1>2, <1>3, <1>4 DEF Step

LEMMA Names ==
    \A v, k, h : /\ Friend(v, k, h).of = v /\ Friend(v, k, h).key = k
                 /\ Friend(v, k, h).type = "friend" /\ Friend(v, k, h).s = h
                 /\ Response(v, k).of = v /\ Response(v, k).key = k
                 /\ Response(v, k).type = "response"
  BY DEF Friend, Response

(* What a step does to the messages, and to what has been accepted and lost.   *)
Answers(u) ==
    LET v == hand[u]["ui"].of  k == keys + 1 IN
    /\ keys' = k /\ Send(u, v, Response(u, k))
    /\ accepted' = accepted \cup {<<u, v, k>>}
    /\ UNCHANGED <<box, cut, lost>>
Tells(u) ==
    /\ \E v \in User, m \in MailOf(u) : m.type # "response" /\ Send(u, v, m)
    /\ UNCHANGED <<box, keys, accepted, cut, lost>>
LosesKeys(u) ==
    /\ stop(u) \/ login_fails(u)
    /\ \E n \in 0 .. Len(box[u]) : Lose(u, n)
    /\ cut \subseteq cut' /\ UNCHANGED <<keys, accepted>>
LEMMA KeyEffects ==
    ASSUME FilesInv, NEW u \in User, Step(u)
    PROVE  \/ friendreq_send_response(u) /\ Answers(u)
           \/ bg_message(u) /\ Takes(u) /\ UNCHANGED <<out, keys, accepted, cut, lost>>
           \/ /\ ~ friendreq_send_response(u) /\ ~ bg_message(u)
              /\ \/ Tells(u) \/ LosesKeys(u)
                 \/ UNCHANGED <<box, out, keys, accepted, cut, lost>>
  <1>0. UserOK(u) /\ box[u] \in Seq(Mail)
    BY DEF FilesInv
  <1>1. CASE friendreq_send_response(u)
    BY <1>1 DEF friendreq_send_response, Answers, server
  <1>2. CASE bg_message(u)
    BY <1>2 DEF bg_message, Handled, Takes, history, counters, past
  <1> SUFFICES ASSUME ~ friendreq_send_response(u), ~ bg_message(u)
               PROVE  \/ Tells(u) \/ LosesKeys(u)
                      \/ UNCHANGED <<box, out, keys, accepted, cut, lost>>
    BY <1>1, <1>2
  <1>3. CASE cmessage_send(u)
    <2>1. PICK f \in ToSet(friends[u]) : Send(u, f.of, Text(u, f))
      BY <1>3 DEF cmessage_send
    <2>2. f \in Buddy
      BY <1>0 DEF UserOK, TypesOf, ToSet
    <2>3. f.of \in User /\ Text(u, f) \in MailOf(u) /\ Text(u, f).type # "response"
      BY <2>2 DEF Buddy, Text, Mail, MailOf
    <2> QED
      BY <1>3, <2>1, <2>3 DEF Tells, cmessage_send, past, server
  <1>4. CASE \E v \in User : send_friendreq(u, v)
    <2>1. PICK v \in User : send_friendreq(u, v)
      BY <1>4
    <2>2. Request(u) \in MailOf(u) /\ Request(u).type # "response"
      BY DEF Request, Mail, MailOf
    <2> QED
      BY <2>1, <2>2 DEF send_friendreq, Tells, past, server
  <1>5. CASE login_fails(u)
    <2>1. Len(box[u]) \in 0 .. Len(box[u])
      BY <1>0
    <2> QED
      BY <1>5, <2>1 DEF login_fails, LosesKeys, counters
  <1>6. CASE stop(u)
    BY <1>6 DEF stop, LosesKeys
  <1> QED
    BY <1>3, <1>4, <1>5, <1>6
       DEF Step, user_interface, background_thread, user, server, net, add_friend,
           write_friendfile, select_notif, Selected, notif_selected, reject,
           init_account_file, add_account, write_userfile, insert_notif,
           insert_written, add_new_message, count_written, view_notifs,
           create_account, disk, login, history, counters, past

(* Where the messages were, and are.                                           *)
Comes(u) == \A w \in User, m \in Mail :
    m.type = "response" /\ OnWay(w, m)' =>
        \/ OnWay(w, m)
        \/ Answers(u) /\ w = hand[u]["ui"].of /\ m = Response(u, keys + 1)
Stays(u) == \A w \in User, m \in Mail :
    m.type = "response" /\ OnWay(w, m) =>
        \/ OnWay(w, m)' \/ m.key \in lost'
        \/ w = u /\ bg_message(u) /\ m = Head(box[u])

LEMMA Enqueued ==
    ASSUME FilesInv, NEW u \in User, NEW v \in User, NEW x \in MailOf(u), Send(u, v, x),
           UNCHANGED box
    PROVE  \A w \in User, m \in Mail :
              OnWay(w, m)' <=> OnWay(w, m) \/ (w = v /\ m = x)
  <1>1. out = [w \in User |-> out[w]] /\ out[u] \in Seq(User \X MailOf(u))
    BY DEF FilesInv, Shape
  <1>2. out'[u] = Append(out[u], <<v, x>>) /\ \A w \in User \ {u} : out'[w] = out[w]
    BY <1>1 DEF Send
  <1>3. ToSet(out'[u]) = ToSet(out[u]) \cup {<<v, x>>}
    BY <1>1, <1>2, Listing
  <1> SUFFICES ASSUME NEW w \in User, NEW m \in Mail
               PROVE  OnWay(w, m)' <=> OnWay(w, m) \/ (w = v /\ m = x)
    OBVIOUS
  <1>4. m.of \in User /\ x.of = u
    BY MailKinds DEF MailOf
  <1>5. CASE m.of = u
    BY <1>3, <1>5 DEF OnWay
  <1>6. CASE m.of # u
    BY <1>2, <1>4, <1>6 DEF OnWay
  <1> QED
    BY <1>5, <1>6

LEMMA MailMoves ==
    ASSUME FilesInv, NEW u \in User, Step(u) PROVE Comes(u) /\ Stays(u)
  <1>0. /\ box = [w \in User |-> box[w]] /\ \A w \in User : box[w] \in Seq(Mail)
        /\ out = [w \in User |-> out[w]]
    BY DEF FilesInv, Shape
  <1>2. CASE friendreq_send_response(u) /\ Answers(u)
    <2>1. hand[u]["ui"].of \in User
      <3>1. pc[u]["ui"] = "response"
        BY <1>2 DEF friendreq_send_response, Go
      <3>2. hand[u]["ui"] \in Notice
        BY <3>1 DEF FilesInv, UserOK, UiHand
      <3> QED
        BY <3>2, HeldTypes
    <2>2. PICK v \in User : v = hand[u]["ui"].of
      BY <2>1
    <2>3. keys + 1 \in Nat
      BY DEF FilesInv, Numbers
    <2>4. PICK x : x = Response(u, keys + 1)
      OBVIOUS
    <2>5. x \in MailOf(u)
      BY <2>3, <2>4, Kinds, Names DEF MailOf
    <2>6. Send(u, v, x) /\ UNCHANGED box
      BY <1>2, <2>2, <2>4 DEF Answers
    <2>7. \A w \in User, m \in Mail : OnWay(w, m)' <=> OnWay(w, m) \/ (w = v /\ m = x)
      BY <2>5, <2>6, Enqueued
    <2> QED
      BY <1>2, <2>2, <2>4, <2>7 DEF Comes, Stays
  <1>3. CASE Tells(u)
    <2>1. PICK v \in User, x \in MailOf(u) : x.type # "response" /\ Send(u, v, x)
      BY <1>3 DEF Tells
    <2>2. \A w \in User, m \in Mail : OnWay(w, m)' <=> OnWay(w, m) \/ (w = v /\ m = x)
      BY <1>3, <2>1, Enqueued DEF Tells
    <2> QED
      BY <2>1, <2>2 DEF Comes, Stays
  <1>4. CASE bg_message(u) /\ Takes(u) /\ UNCHANGED out
    <2>1. PICK r : r = Tail(box[u])
      OBVIOUS
    <2>2. box[u] # <<>> /\ box'[u] = r /\ \A w \in User \ {u} : box'[w] = box[w]
      BY <1>0, <1>4, <2>1 DEF Takes
    <2>3. /\ ToSet(box[u]) \subseteq ToSet(r) \cup {Head(box[u])}
          /\ ToSet(r) \subseteq ToSet(box[u])
      BY <1>0, <2>1, <2>2, HeadAndTail
    <2>4. ASSUME NEW w \in User, NEW m \in Mail
          PROVE  /\ OnWay(w, m)' => OnWay(w, m)
                 /\ OnWay(w, m) => OnWay(w, m)' \/ (w = u /\ m = Head(box[u]))
      BY <1>4, <2>2, <2>3 DEF OnWay
    <2> QED
      BY <1>4, <2>4 DEF Comes, Stays
  <1>5. CASE LosesKeys(u)
    <2>1. PICK n \in 0 .. Len(box[u]) : Lose(u, n)
      BY <1>5 DEF LosesKeys
    <2>2. PICK r : r = Ending(box[u], n)
      OBVIOUS
    <2>3. PICK q : q = Beginning(box[u], n)
      OBVIOUS
    <2>4. ToSet(r) \subseteq ToSet(box[u]) /\ ToSet(box[u]) \subseteq ToSet(q) \cup ToSet(r)
      <3>1. box[u] \in Seq(Mail)
        BY <1>0
      <3>2. /\ ToSet(r) \subseteq ToSet(box[u])
            /\ ToSet(box[u]) \subseteq ToSet(Beginning(box[u], n)) \cup ToSet(r)
        BY <2>2, <3>1, Dropped
      <3> QED
        BY <2>3, <3>2
    <2>5. /\ box'[u] = r /\ \A w \in User \ {u} : box'[w] = box[w]
          /\ out'[u] = <<>> /\ \A w \in User \ {u} : out'[w] = out[w]
      BY <1>0, <2>1, <2>2 DEF Lose, Ending
    <2>6. \A m \in ToSet(q) : m.type = "response" => m.key \in lost'
      BY <2>1, <2>3 DEF Lose, KeysIn, Beginning
    <2>7. ASSUME NEW w, NEW m, <<w, m>> \in ToSet(out[u]), m.type = "response"
          PROVE  m.key \in lost'
      <3>1. m \in Queued(u)
        BY <2>7 DEF Queued
      <3>2. KeysIn(Queued(u)) \subseteq lost'
        BY <2>1 DEF Lose
      <3> QED
        BY <2>7, <3>1, <3>2 DEF KeysIn
    <2>8. ASSUME NEW w \in User, NEW m \in Mail, m.type = "response"
          PROVE  /\ OnWay(w, m)' => OnWay(w, m)
                 /\ OnWay(w, m) => OnWay(w, m)' \/ m.key \in lost'
      <3>1. m.of \in User
        BY MailKinds
      <3>2. m \in ToSet(box'[w]) => m \in ToSet(box[w])
        BY <2>4, <2>5
      <3>3. m \in ToSet(box[w]) => m \in ToSet(box'[w]) \/ m.key \in lost'
        BY <2>4, <2>5, <2>6, <2>8
      <3>4. <<w, m>> \in ToSet(out'[m.of]) => <<w, m>> \in ToSet(out[m.of])
        BY <2>5, <3>1, NoNames
      <3>5. <<w, m>> \in ToSet(out[m.of]) =>
               <<w, m>> \in ToSet(out'[m.of]) \/ m.key \in lost'
        BY <2>5, <2>7, <2>8, <3>1
      <3> QED
        BY <3>2, <3>3, <3>4, <3>5 DEF OnWay
    <2> QED
      BY <2>8 DEF Comes, Stays
  <1>6. CASE UNCHANGED <<box, out>>
    BY <1>6 DEF Comes, Stays, OnWay
  <1> QED
    BY <1>2, <1>3, <1>4, <1>5, <1>6, KeyEffects

(* A message that leaves its queue is still on its way.                        *)
LEMMA TransmitMoves ==
    ASSUME FilesInv, NEW u \in User, NEW v \in User, NEW x \in MailOf(u),
           Transmits(u, v, x)
    PROVE  /\ \A w \in User \ {v} : box'[w] = box[w]
           /\ box'[v] = Append(box[v], x) /\ ToSet(box'[v]) = ToSet(box[v]) \cup {x}
           /\ \A w \in User \ {u} : out'[w] = out[w]
           /\ out'[u] = Tail(out[u])
           /\ \A w \in User, m \in Mail : OnWay(w, m)' <=> OnWay(w, m)
  <1>1. /\ out = [w \in User |-> out[w]] /\ out[u] \in Seq(User \X MailOf(u))
        /\ box = [w \in User |-> box[w]] /\ box[v] \in Seq(Mail)
    BY DEF FilesInv, Shape
  <1>2. box'[v] = Append(box[v], x) /\ \A w \in User \ {v} : box'[w] = box[w]
    BY <1>1 DEF Transmits
  <1>3. ToSet(box'[v]) = ToSet(box[v]) \cup {x}
    BY <1>1, <1>2, Listing
  <1>4. PICK r : r = Tail(out[u])
    OBVIOUS
  <1>5. out'[u] = r /\ \A w \in User \ {u} : out'[w] = out[w]
    BY <1>1, <1>4 DEF Transmits
  <1>6. /\ ToSet(r) \subseteq ToSet(out[u])
        /\ ToSet(out[u]) \subseteq ToSet(r) \cup {<<v, x>>}
    BY <1>1, <1>4, HeadAndTail DEF Transmits
  <1>7. <<v, x>> \in ToSet(out[u])
    <2>1. out[u] # <<>> /\ <<v, x>> = out[u][1]
      BY <1>1 DEF Transmits
    <2>2. 1 \in DOMAIN out[u]
      BY <1>1, <2>1
    <2> QED
      BY <2>1, <2>2 DEF ToSet
  <1>8. ASSUME NEW w \in User, NEW m \in Mail PROVE OnWay(w, m)' <=> OnWay(w, m)
    <2>1. m.of \in User /\ x.of = u
      BY MailKinds DEF MailOf
    <2>2. CASE m.of = u
      <3>1. <<w, m>> = <<v, x>> <=> w = v /\ m = x
        OBVIOUS
      <3>2. OnWay(w, m)' <=> m \in ToSet(box'[w]) \/ <<w, m>> \in ToSet(r)
        BY <1>5, <2>2 DEF OnWay
      <3>3. OnWay(w, m) <=> m \in ToSet(box[w]) \/ <<w, m>> \in ToSet(out[u])
        BY <2>2 DEF OnWay
      <3>4. m \in ToSet(box'[w]) <=> m \in ToSet(box[w]) \/ (w = v /\ m = x)
        BY <1>2, <1>3
      <3> QED
        BY <1>6, <1>7, <3>1, <3>2, <3>3, <3>4
    <2>3. CASE m.of # u
      BY <1>2, <1>3, <1>5, <2>1, <2>3 DEF OnWay
    <2> QED
      BY <2>2, <2>3
  <1> QED
    BY <1>2, <1>3, <1>4, <1>5, <1>8

(* Requests accepted, keys lost and files cut are only ever added to.          *)
LEMMA AcceptedStep ==
    ASSUME FilesInv, AcceptedOK, NEW u \in User, Step(u) PROVE AcceptedOK'
  <1>1. keys \in Nat
    BY DEF FilesInv, Numbers
  <1>2. CASE friendreq_send_response(u) /\ Answers(u)
    <2>1. hand[u]["ui"] \in Notice
      BY <1>2 DEF FilesInv, UserOK, UiHand, friendreq_send_response, Go
    <2>2. PICK v \in User : v = hand[u]["ui"].of
      BY <2>1, HeldTypes
    <2>3. keys' = keys + 1 /\ accepted' = accepted \cup {<<u, v, keys + 1>>}
      BY <1>2, <2>2 DEF Answers
    <2> QED
      BY <1>1, <2>2, <2>3 DEF AcceptedOK
  <1>3. CASE UNCHANGED <<keys, accepted>>
    BY <1>3 DEF AcceptedOK
  <1> QED
    BY <1>2, <1>3, KeyEffects DEF Tells, LosesKeys

LEMMA PastGrows ==
    ASSUME FilesInv, NEW u \in User, Step(u)
    PROVE  /\ accepted \subseteq accepted' /\ cut \subseteq cut' /\ lost \subseteq lost'
  BY KeyEffects DEF Answers, Tells, LosesKeys, Lose

LEMMA GrantedStays ==
    ASSUME NEW u, NEW f, Granted(u, f), accepted \subseteq accepted'
    PROVE  GrantedBy(u, f, accepted')
  BY DEF Granted, GrantedBy

(* Every key in use is of a request that was accepted.                         *)
LEMMA GrantedStep ==
    ASSUME FilesInv, FilesInv', GrantedAll, NEW u \in User, Step(u) PROVE GrantedAll'
  <1>1. Apart(u) /\ Comes(u) /\ accepted \subseteq accepted'
    BY ShapeStep, MailMoves, PastGrows DEF FilesInv
  <1>2. ASSUME NEW w \in User, NEW m \in Mail, m.type = "response", OnWay(w, m)'
        PROVE  <<m.of, w, m.key>> \in accepted'
    <2>1. CASE OnWay(w, m)
      BY <1>1, <1>2, <2>1 DEF GrantedAll
    <2>2. CASE Answers(u) /\ w = hand[u]["ui"].of /\ m = Response(u, keys + 1)
      BY <2>2, Names DEF Answers
    <2> QED
      BY <1>1, <1>2, <2>1, <2>2 DEF Comes
  <1>3. ASSUME NEW w \in User, NEW f \in ToSet(friends'[w]) \cup ToSet(ffile'[w].data)
        PROVE  GrantedBy(w, f, accepted')
    <2>1. Grows(w)
      <3>1. CASE w = u
        BY <3>1, AnswerKeeps, ReadKeeps, OthersKeep
      <3>2. CASE w # u
        BY <1>1, <3>2, SameHas DEF Apart
      <3> QED
        BY <3>1, <3>2
    <2>2. f \in Old(w)
      BY <1>3, <2>1 DEF Grows
    <2>3. Granted(w, f)
      BY <2>2 DEF Old, GrantedAll
    <2> QED
      BY <1>1, <2>3, GrantedStays
  <1>4. ASSUME NEW w \in User, NEW t \in Thread, hand'[w][t].type = "friend"
        PROVE  GrantedBy(w, hand'[w][t], accepted')
    <2>1. CASE hand'[w][t] = hand[w][t]
      BY <1>1, <1>4, <2>1, GrantedStays DEF GrantedAll
    <2>2. CASE w # u
      <3>1. hand'[w] = hand[w]
        BY <1>1, <2>2 DEF Apart, Same
      <3> QED
        BY <2>1, <3>1
    <2>3. CASE w = u /\ friendreq_send_response(u) /\ t = "ui"
      <3>1. PICK v : v = hand[u]["ui"].of
        OBVIOUS
      <3>2. hand'[u]["ui"] = Friend(v, keys + 1, 1)
        BY <2>3, <3>1, AnswerKeeps
      <3>3. <<u, v, keys + 1>> \in accepted'
        BY <2>3, <3>1 DEF friendreq_send_response
      <3> QED
        BY <2>3, <3>2, <3>3, Names DEF GrantedBy
    <2>4. CASE w = u /\ bg_message(u) /\ t = "bg" /\ Head(box[u]).type = "response"
      <3>1. PICK m : m = Head(box[u])
        OBVIOUS
      <3>2. hand'[u]["bg"] = Friend(m.of, m.key, 2)
        BY <2>4, <3>1, ReadKeeps
      <3>3. box[u] \in Seq(Mail) /\ box[u] # <<>>
        BY <2>4 DEF FilesInv, bg_message
      <3>4. m \in Mail /\ OnWay(u, m)
        BY <3>1, <3>3 DEF ToSet, OnWay
      <3>5. <<m.of, u, m.key>> \in accepted'
        BY <1>1, <2>4, <3>1, <3>4 DEF GrantedAll
      <3> QED
        BY <2>4, <3>2, <3>5, Names DEF GrantedBy
    <2> QED
      BY <1>4, <2>1, <2>2, <2>3, <2>4, AnswerKeeps, ReadKeeps, OthersKeep
         DEF Fresh, Thread
  <1> QED
    BY <1>2, <1>3, <1>4 DEF GrantedAll, Granted

(* Either of the two has the other, or has the response on its way: the step   *)
(* that takes it from the server takes it in hand, the one that takes it from  *)
(* the hand lists it.                                                          *)
LEMMA BothStep ==
    ASSUME FilesInv, FilesInv', BothHave, NEW u \in User, Step(u) PROVE BothHave'
  <1>1. Apart(u) /\ Stays(u)
    BY ShapeStep, MailMoves DEF FilesInv
  <1>2. ASSUME NEW w \in User PROVE Keeps(w)
    <2>1. CASE w = u
      BY <2>1, AnswerKeeps, ReadKeeps, OthersKeep
    <2>2. CASE w # u
      BY <1>1, <2>2, SameHas DEF Apart
    <2> QED
      BY <2>1, <2>2
  <1> SUFFICES ASSUME NEW a \in User, NEW b \in User, NEW k \in Nat,
                      <<a, b, k>> \in accepted', k \notin lost', a \notin cut',
                      b \notin cut'
               PROVE  /\ Has(a, Friend(b, k, 1))'
                      /\ Has(b, Friend(a, k, 2))' \/ OnWay(b, Response(a, k))'
    BY DEF BothHave
  <1>3. /\ Friend(b, k, 1) \in Buddy /\ Friend(a, k, 2) \in Buddy
        /\ Response(a, k) \in Mail
    BY Kinds
  <1>4. CASE <<a, b, k>> \in accepted
    <2>1. k \notin lost /\ a \notin cut /\ b \notin cut
      BY PastGrows
    <2>2. /\ Has(a, Friend(b, k, 1))
          /\ Has(b, Friend(a, k, 2)) \/ OnWay(b, Response(a, k))
      BY <1>4, <2>1 DEF BothHave
    <2>3. Has(a, Friend(b, k, 1))'
      BY <1>2, <1>3, <2>2, Names DEF Keeps
    <2>4. CASE Has(b, Friend(a, k, 2))
      <3>1. Has(b, Friend(a, k, 2))'
        BY <1>2, <1>3, <2>4, Names DEF Keeps
      <3> QED
        BY <2>3, <3>1
    <2>5. CASE OnWay(b, Response(a, k))
      <3>1. CASE b = u /\ bg_message(u) /\ Response(a, k) = Head(box[u])
        <4>1. hand'[u]["bg"] = Friend(a, k, 2)
          BY <3>1, ReadKeeps, Names
        <4> QED
          BY <2>3, <3>1, <4>1 DEF Has, Thread
      <3>2. CASE OnWay(b, Response(a, k))'
        BY <2>3, <3>2
      <3> QED
        BY <1>1, <1>3, <2>5, <3>1, <3>2, Names DEF Stays
    <2> QED
      BY <2>2, <2>4, <2>5
  <1>5. CASE <<a, b, k>> \notin accepted
    <2>1. friendreq_send_response(u) /\ Answers(u)
      BY <1>5, KeyEffects DEF Tells, LosesKeys
    <2>2. a = u /\ b = hand[u]["ui"].of /\ k = keys + 1
      BY <1>5, <2>1 DEF Answers
    <2>3. hand'[u]["ui"] = Friend(b, k, 1)
      BY <2>1, <2>2, AnswerKeeps
    <2>4. PICK x : x = Response(a, k)
      OBVIOUS
    <2>5. x \in MailOf(u)
      BY <1>3, <2>2, <2>4, Names DEF MailOf
    <2>6. Send(u, b, x) /\ UNCHANGED box
      BY <2>1, <2>2, <2>4 DEF Answers
    <2>7. OnWay(b, x)'
      BY <1>3, <2>4, <2>5, <2>6, Enqueued
    <2> QED
      BY <2>2, <2>3, <2>4, <2>7 DEF Has, Thread
  <1> QED
    BY <1>4, <1>5

(* A message that leaves a queue changes nothing of this.                      *)
LEMMA KeysTransmit == ASSUME KeysInv, NEW u \in User, transmit(u) PROVE KeysInv'
  <1>0. FilesInv /\ FilesInv'
    BY FilesTransmit DEF KeysInv
  <1>1. PICK v \in User, x \in MailOf(u) : Transmits(u, v, x)
    BY <1>0, TransmitEffect
  <1>2. UNCHANGED <<friends, ffile, hand, pc, accepted, keys, lost, cut>>
    BY <1>1 DEF Transmits, memory, disk, history, counters, past
  <1>3. \A w \in User, m \in Mail : OnWay(w, m)' <=> OnWay(w, m)
    BY <1>0, <1>1, TransmitMoves
  <1>4. AcceptedOK'
    BY <1>2 DEF KeysInv, AcceptedOK
  <1>5. GrantedAll'
    BY <1>2, <1>3 DEF KeysInv, GrantedAll, Granted, GrantedBy
  <1>6. BothHave'
    BY <1>2, <1>3, Kinds DEF KeysInv, BothHave, Has, List
  <1> QED
    BY <1>0, <1>4, <1>5, <1>6 DEF KeysInv

(* KeysInv at the start and after each step.                                   *)
LEMMA KeysInit == Init => KeysInv
  <1> SUFFICES ASSUME Init PROVE KeysInv
    OBVIOUS
  <1>1. FilesInv
    BY FilesInit
  <1>2. /\ accepted = {}
        /\ \A u \in User : friends[u] = <<>> /\ box[u] = <<>> /\ out[u] = <<>>
    BY DEF Init
  <1>3. AcceptedOK /\ BothHave
    BY <1>2 DEF AcceptedOK, BothHave
  <1>4. ASSUME NEW u \in User
        PROVE  ffile[u].data = <<>> /\ \A t \in Thread : hand[u][t].type # "friend"
    BY TornFile, WholeFile, HeldTypes DEF Init, NoHands
  <1>5. ToSet(<<>>) = {}
    BY NoNames
  <1>6. \A u \in User, m \in Mail : ~ OnWay(u, m)
    BY <1>2, <1>5, MailKinds DEF OnWay
  <1>7. GrantedAll
    BY <1>2, <1>4, <1>5, <1>6 DEF GrantedAll
  <1> QED
    BY <1>1, <1>3, <1>7 DEF KeysInv

LEMMA KeysStep == KeysInv /\ [Next]_vars => KeysInv'
  <1> SUFFICES ASSUME KeysInv, [Next]_vars PROVE KeysInv'
    OBVIOUS
  <1>1. FilesInv /\ FilesInv'
    BY FilesStep DEF KeysInv
  <1>2. ASSUME NEW u \in User, Step(u) PROVE KeysInv'
    BY <1>1, <1>2, AcceptedStep, GrantedStep, BothStep DEF KeysInv
  <1>3. CASE UNCHANGED vars
    <2>1. AcceptedOK'
      BY <1>3 DEF KeysInv, AcceptedOK, vars, history, counters, past
    <2>2. GrantedAll'
      BY <1>3
         DEF KeysInv, GrantedAll, Granted, GrantedBy, OnWay, vars, server, net, memory, disk,
             history, past
    <2>3. BothHave'
      BY <1>3
         DEF KeysInv, BothHave, Has, List, OnWay, vars, server, net, memory, disk, history, past
    <2> QED
      BY <1>1, <2>1, <2>2, <2>3 DEF KeysInv
  <1> QED
    BY <1>2, <1>3, KeysTransmit DEF Next, Step

(* KeysInv holds in every reachable state.                                     *)
LEMMA KeysAlways == Spec => []KeysInv
  BY KeysInit, KeysStep, PTL DEF Spec

(* Each accepted request gives both users the same key, one as sender and one  *)
(* as receiver, in memory, in a file, in the hands of a thread or in a message *)
(* queued or on its way, but for keys that stopped with a program and users    *)
(* cut in a write; nobody has a friend without a request that was accepted     *)
(* (friendreq.c: friendreq_send_response, parse_friendreq_response).            *)
THEOREM KeysOfFriendsMatch == Spec => []KeysMatch
  <1>1. KeysInv => KeysMatch
    <2> SUFFICES ASSUME KeysInv PROVE KeysMatch
      OBVIOUS
    <2>1. ASSUME NEW a \in accepted, a[3] \notin lost, {a[1], a[2]} \cap cut = {}
          PROVE  /\ Has(a[1], Friend(a[2], a[3], 1))
                 /\ \/ Has(a[2], Friend(a[1], a[3], 2))
                    \/ Response(a[1], a[3]) \in ToSet(box[a[2]])
                    \/ <<a[2], Response(a[1], a[3])>> \in ToSet(out[a[1]])
      <3>1. PICK u \in User, v \in User, k \in Nat : a = <<u, v, k>>
        BY DEF KeysInv, AcceptedOK, FilesInv, Numbers
      <3>2. k \notin lost /\ u \notin cut /\ v \notin cut /\ <<u, v, k>> \in accepted
        BY <2>1, <3>1
      <3>3. /\ Has(u, Friend(v, k, 1))
            /\ \/ Has(v, Friend(u, k, 2)) \/ Response(u, k) \in ToSet(box[v])
               \/ <<v, Response(u, k)>> \in ToSet(out[u])
        BY <3>2, Names DEF KeysInv, BothHave, OnWay
      <3>4. a[1] = u /\ a[2] = v /\ a[3] = k
        BY <3>1
      <3> QED
        BY <3>3, <3>4
    <2>2. ASSUME NEW u \in User, NEW f \in ToSet(List(u)) PROVE Granted(u, f)
      BY DEF KeysInv, GrantedAll, List
    <2> QED
      BY <2>1, <2>2 DEF KeysMatch, Granted, GrantedBy
  <1> QED
    BY <1>1, KeysAlways, PTL

(* Lists that grow at the end keep their order.                                *)
LEMMA RisingAppend ==
    ASSUME NEW l \in Seq(Buddy), NEW e \in Buddy, NEW h, Rising(l, h),
           e.s = h => Above(e.key, e.of, l, h)
    PROVE  Rising(Append(l, e), h)
  <1>1. PICK a : a = Append(l, e)
    OBVIOUS
  <1>2. /\ DOMAIN a = 1 .. Len(l) + 1 /\ a[Len(l) + 1] = e
        /\ \A i \in 1 .. Len(l) : a[i] = l[i]
    BY <1>1
  <1>3. DOMAIN l = 1 .. Len(l) /\ Len(l) \in Nat
    OBVIOUS
  <1> SUFFICES ASSUME NEW i \in DOMAIN a, NEW j \in DOMAIN a,
                      i < j, a[i].s = h, a[j].s = h, a[i].of = a[j].of
               PROVE  a[i].key < a[j].key
    BY <1>1 DEF Rising
  <1>4. i \in 1 .. Len(l)
    BY <1>2, <1>3
  <1>5. CASE j = Len(l) + 1
    BY <1>2, <1>3, <1>4, <1>5 DEF Above
  <1>6. CASE j \in 1 .. Len(l)
    BY <1>2, <1>3, <1>4, <1>6 DEF Rising
  <1> QED
    BY <1>2, <1>3, <1>5, <1>6

LEMMA AboveAppend ==
    ASSUME NEW l \in Seq(Buddy), NEW e \in Buddy, NEW h, NEW k, NEW v, Above(k, v, l, h),
           e.s = h /\ e.of = v => e.key < k
    PROVE  Above(k, v, Append(l, e), h)
  <1>1. PICK a : a = Append(l, e)
    OBVIOUS
  <1>2. /\ DOMAIN a = 1 .. Len(l) + 1 /\ a[Len(l) + 1] = e
        /\ \A i \in 1 .. Len(l) : a[i] = l[i]
    BY <1>1
  <1>3. DOMAIN l = 1 .. Len(l) /\ Len(l) \in Nat
    OBVIOUS
  <1> SUFFICES ASSUME NEW i \in DOMAIN a, a[i].s = h, a[i].of = v
               PROVE  a[i].key < k
    BY <1>1 DEF Above
  <1>4. CASE i = Len(l) + 1
    BY <1>2, <1>4
  <1>5. CASE i \in 1 .. Len(l)
    BY <1>2, <1>3, <1>5 DEF Above
  <1> QED
    BY <1>2, <1>3, <1>4, <1>5

LEMMA WaitingTail ==
    ASSUME NEW b \in Seq(Mail), b # <<>>, NEW l, Waiting(b, l), NEW r, r = Tail(b)
    PROVE  /\ Waiting(r, l)
           /\ Head(b).type = "response" =>
                 /\ After(Head(b).key, Head(b).of, r)
                 /\ Above(Head(b).key, Head(b).of, l, 2)
           /\ \A k, v : After(k, v, b) => After(k, v, r)
  <1>1. /\ Len(b) \in Nat /\ Len(b) > 0 /\ Head(b) = b[1] /\ DOMAIN b = 1 .. Len(b)
        /\ DOMAIN r = 1 .. Len(b) - 1
        /\ \A i \in 1 .. Len(b) - 1 : r[i] = b[i + 1]
    OBVIOUS
  <1>2. \A i \in DOMAIN r : i + 1 \in DOMAIN b /\ i \in Nat /\ r[i] = b[i + 1]
    BY <1>1
  <1>3. 1 \in DOMAIN b
    BY <1>1
  <1>4. Waiting(r, l)
    BY <1>2 DEF Waiting
  <1>5. Head(b).type = "response" =>
           /\ After(Head(b).key, Head(b).of, r)
           /\ Above(Head(b).key, Head(b).of, l, 2)
    <2> SUFFICES ASSUME b[1].type = "response"
                 PROVE  After(b[1].key, b[1].of, r) /\ Above(b[1].key, b[1].of, l, 2)
      BY <1>1
    <2>1. Above(b[1].key, b[1].of, l, 2)
      BY <1>3 DEF Waiting
    <2>2. ASSUME NEW i \in DOMAIN r, r[i].type = "response", r[i].of = b[1].of
          PROVE  b[1].key < r[i].key
      <3>1. i + 1 \in DOMAIN b /\ 1 < i + 1 /\ r[i] = b[i + 1]
        BY <1>1, <1>2
      <3> QED
        BY <1>3, <2>2, <3>1 DEF Waiting
    <2> QED
      BY <2>1, <2>2 DEF After
  <1>6. \A k, v : After(k, v, b) => After(k, v, r)
    BY <1>2 DEF After
  <1> QED
    BY <1>4, <1>5, <1>6

LEMMA WaitingAppend ==
    ASSUME NEW b \in Seq(Mail), NEW m \in Mail, NEW l, Waiting(b, l),
           m.type = "response" =>
              /\ Above(m.key, m.of, l, 2)
              /\ \A x \in ToSet(b) : x.type = "response" /\ x.of = m.of => x.key < m.key,
           NEW a, a = Append(b, m)
    PROVE  /\ Waiting(a, l)
           /\ \A k, v : After(k, v, b) /\ (m.type = "response" /\ m.of = v => k < m.key)
                           => After(k, v, a)
  <1>1. /\ Len(b) \in Nat /\ DOMAIN b = 1 .. Len(b)
        /\ DOMAIN a = 1 .. Len(b) + 1 /\ a[Len(b) + 1] = m
        /\ \A i \in 1 .. Len(b) : a[i] = b[i]
    OBVIOUS
  <1>2. ASSUME NEW i \in DOMAIN a, a[i].type = "response"
        PROVE  /\ Above(a[i].key, a[i].of, l, 2)
               /\ \A j \in DOMAIN a :
                     j < i /\ a[j].type = "response" /\ a[j].of = a[i].of =>
                        a[j].key < a[i].key
    <2>1. CASE i = Len(b) + 1
      <3>1. Above(m.key, m.of, l, 2) /\ a[i] = m
        BY <1>1, <1>2, <2>1
      <3>2. ASSUME NEW j \in DOMAIN a, j < i, a[j].type = "response", a[j].of = m.of
            PROVE  a[j].key < m.key
        <4>1. j \in 1 .. Len(b) /\ a[j] = b[j]
          BY <1>1, <2>1, <3>2
        <4>2. b[j] \in ToSet(b)
          BY <4>1, Element
        <4> QED
          BY <1>2, <3>1, <3>2, <4>1, <4>2
      <3> QED
        BY <3>1, <3>2
    <2>2. CASE i \in 1 .. Len(b)
      BY <1>1, <1>2, <2>2 DEF Waiting
    <2> QED
      BY <1>1, <2>1, <2>2
  <1>3. Waiting(a, l)
    BY <1>2 DEF Waiting
  <1>4. ASSUME NEW k, NEW v, After(k, v, b),
               m.type = "response" /\ m.of = v => k < m.key
        PROVE  After(k, v, a)
    <2> SUFFICES ASSUME NEW i \in DOMAIN a, a[i].type = "response", a[i].of = v
                 PROVE  k < a[i].key
      BY DEF After
    <2>1. CASE i = Len(b) + 1
      BY <1>1, <1>4, <2>1
    <2>2. CASE i \in 1 .. Len(b)
      BY <1>1, <1>4, <2>2 DEF After
    <2> QED
      BY <1>1, <2>1, <2>2
  <1> QED
    BY <1>3, <1>4

LEMMA WaitingMore ==
    ASSUME NEW b, NEW l \in Seq(Buddy), NEW e \in Buddy, Waiting(b, l),
           e.s = 2 => After(e.key, e.of, b)
    PROVE  Waiting(b, Append(l, e))
  <1> SUFFICES ASSUME NEW i \in DOMAIN b, b[i].type = "response"
               PROVE  Above(b[i].key, b[i].of, Append(l, e), 2)
    BY DEF Waiting
  <1>1. Above(b[i].key, b[i].of, l, 2)
    BY DEF Waiting
  <1>2. e.s = 2 /\ e.of = b[i].of => e.key < b[i].key
    BY DEF After
  <1> QED
    BY <1>1, <1>2, AboveAppend

(* A queue that is appended to, and one whose first has left.                  *)
LEMMA DrawnAppend ==
    ASSUME NEW u \in User, NEW b \in Seq(User \X MailOf(u)), NEW e \in User \X MailOf(u),
           Drawn(b),
           e[2].type = "response" =>
              \A x \in ToSet(b) : x[2].type = "response" => x[2].key < e[2].key
    PROVE  Drawn(Append(b, e))
  <1>1. PICK a : a = Append(b, e)
    OBVIOUS
  <1>2. /\ Len(b) \in Nat /\ DOMAIN b = 1 .. Len(b)
        /\ DOMAIN a = 1 .. Len(b) + 1 /\ a[Len(b) + 1] = e
        /\ \A i \in 1 .. Len(b) : a[i] = b[i] /\ b[i] \in ToSet(b)
    BY <1>1, Element
  <1> SUFFICES ASSUME NEW i \in DOMAIN a, NEW j \in DOMAIN a, j < i,
                      a[i][2].type = "response", a[j][2].type = "response"
               PROVE  a[j][2].key < a[i][2].key
    BY <1>1 DEF Drawn
  <1>3. j \in 1 .. Len(b)
    BY <1>2
  <1>4. CASE i = Len(b) + 1
    BY <1>2, <1>3, <1>4
  <1>5. CASE i \in 1 .. Len(b)
    BY <1>2, <1>3, <1>5 DEF Drawn
  <1> QED
    BY <1>2, <1>4, <1>5

LEMMA DrawnTail ==
    ASSUME NEW u \in User, NEW b \in Seq(User \X MailOf(u)), b # <<>>, Drawn(b),
           NEW r, r = Tail(b)
    PROVE  /\ Drawn(r) /\ ToSet(r) \subseteq ToSet(b)
           /\ Head(b)[2].type = "response" =>
                 \A x \in ToSet(r) : x[2].type = "response" => Head(b)[2].key < x[2].key
  <1>1. /\ Len(b) \in Nat /\ Len(b) > 0 /\ Head(b) = b[1] /\ DOMAIN b = 1 .. Len(b)
        /\ DOMAIN r = 1 .. Len(b) - 1
        /\ \A i \in 1 .. Len(b) - 1 : r[i] = b[i + 1]
    OBVIOUS
  <1>2. \A i \in DOMAIN r : i + 1 \in DOMAIN b /\ i \in Nat /\ 1 < i + 1 /\ r[i] = b[i + 1]
    BY <1>1
  <1>3. Drawn(r)
    <2> SUFFICES ASSUME NEW i \in DOMAIN r, NEW j \in DOMAIN r, j < i,
                        r[i][2].type = "response", r[j][2].type = "response"
                 PROVE  r[j][2].key < r[i][2].key
      BY DEF Drawn
    <2>1. /\ i + 1 \in DOMAIN b /\ j + 1 \in DOMAIN b /\ j + 1 < i + 1
          /\ r[i] = b[i + 1] /\ r[j] = b[j + 1]
      BY <1>2
    <2> QED
      BY <2>1 DEF Drawn
  <1>4. ASSUME b[1][2].type = "response", NEW x \in ToSet(r), x[2].type = "response"
        PROVE  b[1][2].key < x[2].key
    <2>1. PICK i \in DOMAIN r : x = r[i]
      BY DEF ToSet
    <2>2. 1 \in DOMAIN b /\ i + 1 \in DOMAIN b /\ 1 < i + 1 /\ x = b[i + 1]
      BY <1>1, <1>2, <2>1
    <2> QED
      BY <1>4, <2>2 DEF Drawn
  <1>5. ToSet(r) \subseteq ToSet(b)
    BY <1>2 DEF ToSet
  <1> QED
    BY <1>1, <1>3, <1>4, <1>5

(* No key is above the last that was drawn.                                    *)
KeysBelow ==
    \A u \in User :
        /\ \A f \in Old(u) : f.key \in 1 .. keys
        /\ \A m \in Mail : m.type = "response" /\ OnWay(u, m) => m.key \in 1 .. keys
LEMMA KeysAreBelow == ASSUME KeysInv PROVE KeysBelow
  <1>1. \A a, b, k : <<a, b, k>> \in accepted => k \in 1 .. keys
    BY DEF KeysInv, AcceptedOK
  <1>2. \A u, f : Granted(u, f) => f.key \in 1 .. keys
    BY <1>1 DEF Granted, GrantedBy
  <1> QED
    BY <1>1, <1>2 DEF KeysInv, GrantedAll, KeysBelow, Old

LEMMA AllBelow ==
    ASSUME KeysInv, NEW u \in User, NEW h, NEW v PROVE Above(keys + 1, v, friends[u], h)
  <1>1. keys \in Nat
    BY DEF KeysInv, FilesInv, Numbers
  <1>2. \A f \in ToSet(friends[u]) : f.key < keys + 1
    BY <1>1, KeysAreBelow DEF KeysBelow, Old
  <1>3. friends[u] \in Seq(Buddy)
    BY DEF KeysInv, FilesInv, UserOK, TypesOf
  <1>4. \A i \in DOMAIN friends[u] : friends[u][i] \in ToSet(friends[u])
    BY <1>3 DEF ToSet
  <1> QED
    BY <1>2, <1>4 DEF Above

LEMMA GotBelow ==
    ASSUME KeysInv, NEW w \in User, NEW v \in User
    PROVE  /\ \A k \in Nat : Got(w, v, k) => k < keys + 1
           /\ \A x \in ToSet(out[v]) : x[2].type = "response" => x[2].key < keys + 1
  <1>1. /\ keys \in Nat /\ box[w] \in Seq(Mail) /\ out[v] \in Seq(User \X MailOf(v))
    BY DEF KeysInv, FilesInv, Numbers
  <1>2. \A k \in 1 .. keys : k < keys + 1
    BY <1>1
  <1>3. \A f \in Old(w) : f.key < keys + 1
    BY <1>2, KeysAreBelow DEF KeysBelow
  <1>4. ASSUME NEW m \in ToSet(box[w]), m.type = "response" PROVE m.key < keys + 1
    <2>1. m \in Mail /\ OnWay(w, m)
      BY <1>1 DEF ToSet, OnWay
    <2> QED
      BY <1>2, <1>4, <2>1, KeysAreBelow DEF KeysBelow
  <1>5. ASSUME NEW x \in ToSet(out[v]), x[2].type = "response" PROVE x[2].key < keys + 1
    <2>1. x \in User \X MailOf(v)
      BY <1>1 DEF ToSet
    <2>2. PICK y \in User, m \in MailOf(v) : x = <<y, m>>
      BY <2>1
    <2>3. m \in Mail /\ OnWay(y, m) /\ m.type = "response"
      BY <1>5, <2>2 DEF MailOf, OnWay
    <2>4. m.key \in 1 .. keys
      BY <2>3, KeysAreBelow DEF KeysBelow
    <2> QED
      BY <1>2, <2>2, <2>4
  <1> QED
    BY <1>3, <1>4, <1>5 DEF Got

(* A thread that is not adding a friend leaves the order as it is.             *)
Idle(u) ==
    /\ friends'[u] = friends[u]
    /\ \A t \in Thread : pc'[u][t] \in Befriending =>
          pc'[u][t] = pc[u][t] /\ hand'[u][t] = hand[u][t]
LEMMA IdleOrder == ASSUME NEW u \in User, Idle(u), ListOrder(u) PROVE ListOrder(u)'
  BY DEF Idle, ListOrder, Befriending, Thread

(* While no program has stopped, one that is off has never been on.            *)
LEMMA OffEmpty ==
    ASSUME FilesInv, NoStop, NEW u \in User, pc[u]["bg"] = "off"
    PROVE  friends[u] = <<>> /\ ffile[u].data = <<>>
  <1>0. UserOK(u)
    BY DEF FilesInv
  <1>1. CASE pc[u]["ui"] = "off" /\ u \in registered
    BY <1>0, <1>1 DEF UserOK, AccountOK, NoStop
  <1>2. CASE pc[u]["ui"] = "off" /\ u \notin registered
    BY <1>0, <1>2, TornFile DEF UserOK, AccountOK
  <1>3. CASE pc[u]["ui"] \in Creating
    BY <1>0, <1>3, TornFile, WholeFile DEF UserOK, AccountOK, Creating
  <1> QED
    BY <1>0, <1>1, <1>2, <1>3 DEF UserOK, PlaceOK, AccountOK

LEMMA NoFailure == ASSUME FilesInv, NoStop, NEW u \in User PROVE ~ login_fails(u)
  <1> SUFFICES ASSUME login_fails(u) PROVE FALSE
    OBVIOUS
  <1>0. UserOK(u)
    BY DEF FilesInv
  <1>1. pc[u] = Off /\ profile[u].data = <<u>> /\ profile[u].whole
    BY DEF login_fails, start_program, HasAccount
  <1>2. pc[u]["bg"] = "off"
    BY <1>1 DEF Off
  <1>3. profile[u] = File(<<u>>)
    BY <1>0, <1>1, FilesKnown, TornFile DEF UserOK, TypesOf
  <1>4. /\ ffile[u].whole /\ nfile[u].whole
        /\ ffile[u].data = <<>> /\ nfile[u].data = <<>>
    BY <1>0, <1>2, <1>3 DEF UserOK, OffFilesOK, NoStop
  <1>5. Readable(u)
    BY <1>4, NoNames DEF Readable
  <1> QED
    BY <1>5 DEF login_fails

(* The actions other than add_friend, friendreq_send_response and bg_message   *)
(* leave lists and keys in hand as they are.                                   *)
LEMMA QuietIdle == ASSUME FilesInv, NEW u \in User, Quietly(u) PROVE Idle(u)
  <1>0. Shape
    BY DEF FilesInv
  <1>1. PICK t \in Thread, from \in Places \ (Befriending \cup Creating \cup {"off"}),
             to \in Places \ Befriending :
           /\ Go(u, t, from, to)
           /\ UNCHANGED hand \/ \E h : Take(u, t, h)
           /\ UNCHANGED <<friends, ffile>>
    BY DEF Quietly
  <1>2. PICK h : Take(u, t, h) \/ UNCHANGED hand
    BY <1>1
  <1>3. pc'[u][t] = to /\ \A s \in Thread \ {t} : pc'[u][s] = pc[u][s]
    BY <1>0, <1>1, GoAt
  <1>4. \A s \in Thread \ {t} : hand'[u][s] = hand[u][s]
    BY <1>0, <1>2, TakeAt
  <1> QED
    BY <1>1, <1>3, <1>4 DEF Idle

LEMMA WriteIdle ==
    ASSUME FilesInv, NEW u \in User, NEW t \in Thread, write_friendfile(u, t) PROVE Idle(u)
  <1>0. Shape
    BY DEF FilesInv
  <1>1. PICK h : /\ Go(u, t, "friend file", IF t = "bg" THEN "insert" ELSE "menu")
                 /\ Take(u, t, h)
    BY DEF write_friendfile
  <1>2. PICK to \in {"insert", "menu"} : Go(u, t, "friend file", to)
    BY <1>1
  <1>3. /\ pc[u][t] = "friend file" /\ pc'[u][t] = to
        /\ \A s \in Thread \ {t} : pc'[u][s] = pc[u][s]
    BY <1>0, <1>2, GoAt
  <1>4. \A s \in Thread \ {t} : hand'[u][s] = hand[u][s]
    BY <1>0, <1>1, TakeAt
  <1> QED
    BY <1>2, <1>3, <1>4 DEF Idle, write_friendfile, Befriending

LEMMA StartIdle ==
    ASSUME FilesInv, NoStop, NEW u \in User,
           \/ create_account(u) \/ init_account_file(u) \/ add_account(u)
           \/ write_userfile(u) \/ login(u)
    PROVE  Idle(u)
  <1>0. Shape
    BY DEF FilesInv
  <1>1. CASE write_userfile(u) \/ login(u)
    <2>1. pc'[u] = On
      BY <1>0, <1>1 DEF write_userfile, login, Shape
    <2>2. pc'[u]["ui"] = "menu" /\ pc'[u]["bg"] = "recv"
      BY <2>1 DEF On
    <2>3. CASE write_userfile(u)
      BY <2>2, <2>3 DEF write_userfile, Idle, Befriending, Thread
    <2>4. CASE login(u)
      <3>1. pc[u] = Off
        BY <2>4 DEF login, start_program
      <3>2. friends[u] = <<>> /\ ffile[u].data = <<>>
        BY <3>1, OffEmpty DEF Off
      <3>3. friends'[u] = ffile[u].data
        BY <1>0, <2>4 DEF login, Shape
      <3> QED
        BY <2>2, <3>2, <3>3 DEF Idle, Befriending, Thread
    <2> QED
      BY <1>1, <2>3, <2>4
  <1>2. CASE create_account(u) \/ init_account_file(u) \/ add_account(u)
    <2>1. PICK from \in Creating \cup {"off"}, to \in Creating : Go(u, "ui", from, to)
      BY <1>2 DEF create_account, init_account_file, add_account, Creating
    <2>2. UNCHANGED <<hand, friends>>
      BY <1>2 DEF create_account, init_account_file, add_account
    <2>3. pc'[u]["ui"] = to /\ pc'[u]["bg"] = pc[u]["bg"]
      BY <1>0, <2>1, GoAt DEF Thread
    <2> QED
      BY <2>1, <2>2, <2>3 DEF Idle, Befriending, Creating, Thread
  <1> QED
    BY <1>1, <1>2

LEMMA IdleSteps ==
    ASSUME FilesInv, NoStop, NEW u \in User, Step(u),
           ~ add_friend(u, "ui"), ~ add_friend(u, "bg"), ~ friendreq_send_response(u),
           ~ bg_message(u), ~ stop(u)
    PROVE  Idle(u)
  <1>1. CASE user_interface(u)
    BY <1>1, WriteIdle, QuietSteps, QuietIdle, StartIdle DEF user_interface, Thread
  <1>2. CASE background_thread(u)
    BY <1>2, WriteIdle, QuietSteps, QuietIdle DEF background_thread, Thread
  <1>3. CASE cmessage_send(u) \/ login_fails(u) \/ \E v \in User : send_friendreq(u, v)
    <2>1. Same(u)
      <3>1. Shape'
        BY ShapeStep DEF FilesInv
      <3> QED
        BY <1>3, <3>1, NothingOK
    <2> QED
      BY <2>1 DEF Same, Idle
  <1>4. CASE user(u)
    BY <1>3, <1>4, QuietSteps, QuietIdle, StartIdle DEF user
  <1> QED
    BY <1>1, <1>2, <1>3, <1>4 DEF Step

(* What add_friend, friendreq_send_response and bg_message do to lists and     *)
(* hands.                                                                      *)
LEMMA AddsEffect ==
    ASSUME FilesInv, NEW u \in User, NEW t \in Thread, add_friend(u, t)
    PROVE  /\ pc[u][t] = "add friend" /\ pc'[u][t] = "friend file"
           /\ \A s \in Thread \ {t} : pc'[u][s] = pc[u][s]
           /\ friends'[u] = Append(friends[u], hand[u][t]) /\ hand' = hand
           /\ hand[u][t] \in Buddy /\ UNCHANGED <<box, cut, half, lost>>
  <1>0. Shape /\ UserOK(u)
    BY DEF FilesInv
  <1>1. /\ pc[u][t] = "add friend" /\ pc'[u][t] = "friend file"
        /\ \A s \in Thread \ {t} : pc'[u][s] = pc[u][s]
    BY <1>0, GoAt DEF add_friend
  <1>2. hand[u][t] \in Buddy
    BY <1>0, <1>1, HandTypes DEF Befriending
  <1>3. friends'[u] = Append(friends[u], hand[u][t])
    BY <1>0 DEF Shape, add_friend
  <1> QED
    BY <1>1, <1>2, <1>3 DEF add_friend, server, net, history, past

LEMMA AnswerEffect ==
    ASSUME FilesInv, NEW u \in User, friendreq_send_response(u)
    PROVE  /\ pc'[u]["ui"] = "add friend" /\ pc'[u]["bg"] = pc[u]["bg"]
           /\ friends'[u] = friends[u] /\ hand'[u]["bg"] = hand[u]["bg"]
           /\ hand'[u]["ui"].key = keys + 1 /\ hand'[u]["ui"].s = 1
           /\ keys' = keys + 1
  <1>0. Shape
    BY DEF FilesInv
  <1>1. PICK h : h = Friend(hand[u]["ui"].of, keys + 1, 1)
    OBVIOUS
  <1>2. /\ Go(u, "ui", "response", "add friend") /\ Take(u, "ui", h)
        /\ UNCHANGED friends
    BY <1>1 DEF friendreq_send_response
  <1>3. pc'[u]["ui"] = "add friend" /\ pc'[u]["bg"] = pc[u]["bg"]
    BY ZenonT(60), <1>0, <1>2, GoAt DEF Thread
  <1>4. hand'[u]["ui"] = h /\ hand'[u]["bg"] = hand[u]["bg"]
    BY <1>0, <1>2, TakeAt DEF Thread
  <1>5. h.key = keys + 1 /\ h.s = 1
    BY <1>1, Names
  <1> QED
    BY <1>2, <1>3, <1>4, <1>5 DEF friendreq_send_response

LEMMA ReadEffect ==
    ASSUME FilesInv, NEW u \in User, bg_message(u), NEW m, m = Head(box[u])
    PROVE  /\ m.type # "response" => Idle(u)
           /\ m.type = "response" =>
                 /\ pc'[u]["bg"] = "add friend" /\ pc'[u]["ui"] = pc[u]["ui"]
                 /\ friends'[u] = friends[u] /\ hand'[u]["ui"] = hand[u]["ui"]
                 /\ hand'[u]["bg"].key = m.key /\ hand'[u]["bg"].s = 2
                 /\ hand'[u]["bg"].of = m.of
  <1>0. Shape
    BY DEF FilesInv
  <1>1. PICK f : f = IF m.type = "response" THEN Friend(m.of, m.key, 2) ELSE Empty
    OBVIOUS
  <1>2. Handled(u, m, f)
    BY <1>1 DEF bg_message
  <1>3. UNCHANGED friends
    BY <1>2 DEF Handled
  <1>4. CASE m.type = "response"
    <2>1. Go(u, "bg", "recv", "add friend") /\ Take(u, "bg", f)
      BY <1>2, <1>4 DEF Handled
    <2>2. pc'[u]["bg"] = "add friend" /\ pc'[u]["ui"] = pc[u]["ui"]
      BY ZenonT(60), <1>0, <2>1, GoAt DEF Thread
    <2>3. hand'[u]["bg"] = f /\ hand'[u]["ui"] = hand[u]["ui"]
      BY <1>0, <2>1, TakeAt DEF Thread
    <2>4. f.key = m.key /\ f.s = 2 /\ f.of = m.of
      BY <1>1, <1>4, Names
    <2> QED
      BY <1>3, <1>4, <2>2, <2>3, <2>4
  <1>5. CASE m.type # "response"
    <2>1. PICK to \in {"insert", "recv", "new message"} : Go(u, "bg", "recv", to)
      BY <1>2, <1>5 DEF Handled
    <2>2. PICK h : Take(u, "bg", h) \/ UNCHANGED hand
      BY <1>2 DEF Handled
    <2>3. pc[u]["bg"] = "recv" /\ pc'[u]["bg"] = to /\ pc'[u]["ui"] = pc[u]["ui"]
      BY ZenonT(60), <1>0, <2>1, GoAt DEF Thread
    <2>4. hand'[u]["ui"] = hand[u]["ui"]
      BY <1>0, <2>2, TakeAt DEF Thread
    <2> QED
      BY <1>3, <1>5, <2>1, <2>3, <2>4 DEF Idle, Befriending, Thread
  <1> QED
    BY <1>4, <1>5

(* The lists keep the order in which keys were drawn ...                       *)
LEMMA ListOrderStep ==
    ASSUME KeysInv, NoStop, NEW u \in User, Step(u), ~ stop(u), NEW w \in User,
           ListOrder(w), MailOrder(w)
    PROVE  ListOrder(w)'
  <1>0. FilesInv /\ friends[w] \in Seq(Buddy) /\ box[w] \in Seq(Mail)
    BY DEF KeysInv, FilesInv, UserOK, TypesOf
  <1>1. CASE w # u
    <2>1. Same(w)
      BY <1>0, <1>1, ShapeStep DEF Apart, FilesInv
    <2> QED
      BY <2>1, IdleOrder DEF Same, Idle
  <1>2. CASE w = u /\ add_friend(u, "ui")
    <2>1. /\ pc[u]["ui"] = "add friend" /\ pc'[u]["ui"] = "friend file"
          /\ pc'[u]["bg"] = pc[u]["bg"]
          /\ friends'[u] = Append(friends[u], hand[u]["ui"]) /\ hand' = hand
          /\ hand[u]["ui"] \in Buddy
      BY <1>0, <1>2, AddsEffect DEF Thread
    <2>2. hand[u]["ui"].s = 1 /\ Above(hand[u]["ui"].key, hand[u]["ui"].of, friends[u], 1)
      BY <1>2, <2>1 DEF ListOrder, Befriending
    <2>3. Rising(friends'[u], 1) /\ Rising(friends'[u], 2)
      BY <1>0, <1>2, <2>1, <2>2, RisingAppend DEF ListOrder
    <2>4. ASSUME pc[u]["bg"] = "add friend"
          PROVE  Above(hand[u]["bg"].key, hand[u]["bg"].of, friends'[u], 2)
      <3>1. Above(hand[u]["bg"].key, hand[u]["bg"].of, friends[u], 2)
        BY <1>2, <2>4 DEF ListOrder
      <3>2. PICK l \in Seq(Buddy), e \in Buddy : l = friends[u] /\ e = hand[u]["ui"]
        BY <1>0, <1>2, <2>1
      <3>3. Above(hand[u]["bg"].key, hand[u]["bg"].of, l, 2) /\ e.s # 2
        BY <2>2, <3>1, <3>2
      <3>4. Above(hand[u]["bg"].key, hand[u]["bg"].of, Append(l, e), 2)
        BY <3>3, AboveAppend
      <3> QED
        BY <2>1, <3>2, <3>4
    <2> QED
      BY <1>2, <2>1, <2>2, <2>3, <2>4 DEF ListOrder
  <1>3. CASE w = u /\ add_friend(u, "bg")
    <2>1. /\ pc[u]["bg"] = "add friend" /\ pc'[u]["bg"] = "friend file"
          /\ pc'[u]["ui"] = pc[u]["ui"]
          /\ friends'[u] = Append(friends[u], hand[u]["bg"]) /\ hand' = hand
          /\ hand[u]["bg"] \in Buddy
      BY ZenonT(60), <1>0, <1>3, AddsEffect DEF Thread
    <2>2. hand[u]["bg"].s = 2 /\ Above(hand[u]["bg"].key, hand[u]["bg"].of, friends[u], 2)
      BY <1>3, <2>1 DEF ListOrder, Befriending
    <2>3. Rising(friends'[u], 1) /\ Rising(friends'[u], 2)
      BY <1>0, <1>3, <2>1, <2>2, RisingAppend DEF ListOrder
    <2>4. ASSUME pc[u]["ui"] = "add friend"
          PROVE  Above(hand[u]["ui"].key, hand[u]["ui"].of, friends'[u], 1)
      <3>1. Above(hand[u]["ui"].key, hand[u]["ui"].of, friends[u], 1)
        BY <1>3, <2>4 DEF ListOrder
      <3>2. PICK l \in Seq(Buddy), e \in Buddy : l = friends[u] /\ e = hand[u]["bg"]
        BY <1>0, <1>3, <2>1
      <3>3. Above(hand[u]["ui"].key, hand[u]["ui"].of, l, 1) /\ e.s # 1
        BY <2>2, <3>1, <3>2
      <3>4. Above(hand[u]["ui"].key, hand[u]["ui"].of, Append(l, e), 1)
        BY <3>3, AboveAppend
      <3> QED
        BY <2>1, <3>2, <3>4
    <2> QED
      BY <1>3, <2>1, <2>2, <2>3, <2>4 DEF ListOrder
  <1>4. CASE w = u /\ friendreq_send_response(u)
    <2>1. \A v : Above(keys + 1, v, friends[u], 1)
      BY AllBelow
    <2> QED
      BY <1>0, <1>4, <2>1, AnswerEffect DEF ListOrder
  <1>5. CASE w = u /\ bg_message(u)
    <2>1. PICK m : m = Head(box[u])
      OBVIOUS
    <2>2. CASE m.type = "response"
      <3>1. PICK r : r = Tail(box[u])
        OBVIOUS
      <3>2. box[u] # <<>>
        BY <1>5 DEF bg_message
      <3>3. Above(m.key, m.of, friends[u], 2)
        BY <1>0, <1>5, <2>1, <2>2, <3>1, <3>2, WaitingTail DEF MailOrder
      <3> QED
        BY ZenonT(60), <1>0, <1>5, <2>1, <2>2, <3>3, ReadEffect DEF ListOrder
    <2>3. CASE m.type # "response"
      BY <1>0, <1>5, <2>1, <2>3, ReadEffect, IdleOrder
    <2> QED
      BY <2>2, <2>3
  <1> QED
    BY <1>0, <1>1, <1>2, <1>3, <1>4, <1>5, IdleSteps, IdleOrder

(* ... and so do the responses on their way, each above what is listed.        *)
LEMMA MailOrderStep ==
    ASSUME KeysInv, NoStop, NEW u \in User, Step(u), ~ stop(u), NEW w \in User,
           ListOrder(w), MailOrder(w)
    PROVE  MailOrder(w)'
  <1>0. FilesInv /\ friends[w] \in Seq(Buddy) /\ box[w] \in Seq(Mail) /\ UserOK(w)
    BY DEF KeysInv, FilesInv, UserOK, TypesOf
  <1>1. CASE w = u /\ add_friend(u, "ui")
    <2>1. /\ pc[u]["ui"] = "add friend" /\ pc'[u]["bg"] = pc[u]["bg"]
          /\ friends'[u] = Append(friends[u], hand[u]["ui"]) /\ hand' = hand
          /\ hand[u]["ui"] \in Buddy /\ UNCHANGED box
      BY <1>0, <1>1, AddsEffect DEF Thread
    <2>2. hand[u]["ui"].s = 1
      BY <1>1, <2>1 DEF ListOrder, Befriending
    <2>3. Waiting(box[u], friends'[u])
      <3>1. Waiting(box[u], friends[u])
        BY <1>1 DEF MailOrder
      <3>2. PICK l \in Seq(Buddy), e \in Buddy : l = friends[u] /\ e = hand[u]["ui"]
        BY <1>0, <1>1, <2>1
      <3>3. Waiting(box[u], l) /\ e.s # 2
        BY <2>2, <3>1, <3>2
      <3>4. Waiting(box[u], Append(l, e))
        BY <3>3, WaitingMore
      <3> QED
        BY <2>1, <3>2, <3>4
    <2> QED
      BY <1>1, <2>1, <2>3 DEF MailOrder
  <1>2. CASE w = u /\ add_friend(u, "bg")
    <2>1. /\ pc[u]["bg"] = "add friend" /\ pc'[u]["bg"] = "friend file"
          /\ pc'[u]["ui"] = pc[u]["ui"]
          /\ friends'[u] = Append(friends[u], hand[u]["bg"]) /\ hand' = hand
          /\ hand[u]["bg"] \in Buddy /\ UNCHANGED box
      BY <1>0, <1>2, AddsEffect DEF Thread
    <2>2. Waiting(box[u], friends'[u])
      BY <1>0, <1>2, <2>1, WaitingMore DEF MailOrder
    <2> QED
      BY <1>2, <2>1, <2>2 DEF MailOrder
  <1>3. CASE w = u /\ bg_message(u)
    <2>1. PICK m : m = Head(box[u])
      OBVIOUS
    <2>2. PICK r : r = Tail(box[u])
      OBVIOUS
    <2>3. box[u] # <<>> /\ box'[u] = r
      BY <1>0, <1>3, <2>2 DEF bg_message, FilesInv, Shape
    <2>4. /\ Waiting(r, friends[u])
          /\ m.type = "response" => After(m.key, m.of, r)
          /\ \A k, v : After(k, v, box[u]) => After(k, v, r)
      BY <1>0, <1>3, <2>1, <2>2, <2>3, WaitingTail DEF MailOrder
    <2>5. CASE m.type = "response"
      BY <1>0, <1>3, <2>1, <2>3, <2>4, <2>5, ReadEffect DEF MailOrder
    <2>6. CASE m.type # "response"
      <3>1. Idle(u)
        BY <1>0, <1>3, <2>1, <2>6, ReadEffect
      <3> QED
        BY <1>3, <2>3, <2>4, <3>1 DEF MailOrder, Idle, Befriending, Thread
    <2> QED
      BY <2>5, <2>6
  <1>4. CASE ~ (w = u /\ (add_friend(u, "ui") \/ add_friend(u, "bg") \/ bg_message(u)))
    <2>1. /\ friends'[w] = friends[w]
          /\ pc'[w]["bg"] = "add friend" =>
                pc[w]["bg"] = "add friend" /\ hand'[w]["bg"] = hand[w]["bg"]
      <3>1. CASE w # u
        BY <1>0, <3>1, ShapeStep DEF Apart, Same, FilesInv
      <3>2. CASE w = u /\ friendreq_send_response(u)
        BY <1>0, <3>2, AnswerEffect
      <3>3. CASE w = u /\ ~ friendreq_send_response(u)
        <4>1. Idle(u)
          BY <1>0, <1>4, <3>3, IdleSteps
        <4> QED
          BY <3>3, <4>1 DEF Idle, Befriending, Thread
      <3> QED
        BY <3>1, <3>2, <3>3
    <2>2. box'[w] = box[w]
      <3>1. CASE UNCHANGED box
        BY <3>1
      <3>2. CASE bg_message(u) /\ Takes(u)
        <4>1. w # u
          BY <1>4, <3>2
        <4> QED
          BY <1>0, <3>2, <4>1 DEF Takes, FilesInv, Shape
      <3>3. CASE LosesKeys(u)
        BY <1>0, <3>3, NoFailure DEF LosesKeys
      <3> QED
        BY <1>0, <3>1, <3>2, <3>3, KeyEffects DEF Answers, Tells
    <2> QED
      BY <2>1, <2>2 DEF MailOrder
  <1> QED
    BY <1>1, <1>2, <1>3, <1>4

(* A user gets a key only when a message to him leaves a queue.                *)
LEMMA GotStep ==
    ASSUME FilesInv, FilesInv', NEW u \in User, Step(u), NEW w \in User, NEW v, NEW k,
           Got(w, v, k)'
    PROVE  Got(w, v, k)
  <1>0. /\ box = [x \in User |-> box[x]] /\ \A x \in User : box[x] \in Seq(Mail)
    BY DEF FilesInv, Shape
  <1>1. ToSet(box'[w]) \subseteq ToSet(box[w])
    <2>1. CASE UNCHANGED box
      BY <2>1
    <2>2. CASE Takes(u)
      <3>1. PICK r : r = Tail(box[u])
        OBVIOUS
      <3>2. box[u] # <<>> /\ box'[u] = r /\ \A x \in User \ {u} : box'[x] = box[x]
        BY <1>0, <2>2, <3>1 DEF Takes
      <3>3. ToSet(r) \subseteq ToSet(box[u])
        BY <1>0, <3>1, <3>2, HeadAndTail
      <3> QED
        BY <3>2, <3>3
    <2>3. CASE Loses(u)
      <3>1. PICK n \in 0 .. Len(box[u]) :
               box' = [box EXCEPT ![u] = SubSeq(@, n + 1, Len(@))]
        BY <2>3 DEF Loses
      <3>2. PICK r : r = Ending(box[u], n)
        OBVIOUS
      <3>3. ToSet(r) \subseteq ToSet(box[u])
        BY <1>0, <3>2, Dropped
      <3>4. box'[u] = r /\ \A x \in User \ {u} : box'[x] = box[x]
        BY <1>0, <3>1, <3>2 DEF Ending
      <3> QED
        BY <3>3, <3>4
    <2> QED
      BY <2>1, <2>2, <2>3, BoxStep
  <1>2. ASSUME NEW f \in Old(w)', f.s = 2 PROVE f \in Old(w) \/ Got(w, f.of, f.key)
    <2>1. Grows(w)
      <3>1. CASE w = u
        BY <3>1, AnswerKeeps, ReadKeeps, OthersKeep
      <3>2. CASE w # u
        BY <3>2, ShapeStep, SameHas DEF Apart, FilesInv
      <3> QED
        BY <3>1, <3>2
    <2>2. CASE f \in ToSet(friends'[w]) \cup ToSet(ffile'[w].data)
      BY <2>1, <2>2 DEF Grows
    <2>3. CASE \E t \in Thread : f = hand'[w][t] /\ hand'[w][t].type = "friend"
      <3>1. PICK t \in Thread : f = hand'[w][t] /\ hand'[w][t].type = "friend"
        BY <2>3
      <3>2. CASE hand'[w][t] = hand[w][t]
        BY <3>1, <3>2 DEF Old
      <3>3. CASE w # u
        <4>1. hand'[w] = hand[w]
          BY <3>3, ShapeStep DEF Apart, Same, FilesInv
        <4> QED
          BY <3>2, <4>1
      <3>4. CASE w = u /\ friendreq_send_response(u) /\ t = "ui"
        <4>1. f = Friend(hand[u]["ui"].of, keys + 1, 1)
          BY <3>1, <3>4, AnswerKeeps
        <4> QED
          BY <1>2, <4>1, Names
      <3>5. CASE w = u /\ bg_message(u) /\ t = "bg" /\ Head(box[u]).type = "response"
        <4>1. PICK m : m = Head(box[u])
          OBVIOUS
        <4>2. f = Friend(m.of, m.key, 2)
          BY <3>1, <3>5, <4>1, ReadKeeps
        <4>3. m \in ToSet(box[u])
          BY <1>0, <3>5, <4>1, Element DEF bg_message, ToSet
        <4> QED
          BY <3>5, <4>1, <4>2, <4>3, Names DEF Got
      <3> QED
        BY <3>1, <3>2, <3>3, <3>4, <3>5, AnswerKeeps, ReadKeeps, OthersKeep
           DEF Fresh, Thread
    <2> QED
      BY <2>2, <2>3 DEF Old
  <1>3. CASE \E f \in Old(w)' : f.s = 2 /\ f.of = v /\ f.key = k
    BY <1>2, <1>3 DEF Got
  <1>4. CASE \E m \in ToSet(box'[w]) : m.type = "response" /\ m.of = v /\ m.key = k
    BY <1>1, <1>4 DEF Got
  <1> QED
    BY <1>3, <1>4 DEF Got

(* What is queued is above all that has left the queue.                        *)
LEMMA OutOrderStep ==
    ASSUME KeysInv, NoStop, NEW u \in User, Step(u), ~ stop(u), NEW w \in User,
           OutOrder(w)
    PROVE  OutOrder(w)'
  <1>0. /\ FilesInv /\ FilesInv' /\ out = [x \in User |-> out[x]]
        /\ out[u] \in Seq(User \X MailOf(u))
    BY FilesStep DEF KeysInv, FilesInv, Shape, Next, Step
  <1>1. ASSUME NEW x, x[1] \in User, Unseen(w, x) PROVE Unseen(w, x)'
    <2> SUFFICES ASSUME x[2].type = "response", NEW k \in Nat, Got(x[1], w, k)'
                 PROVE  k < x[2].key
      BY DEF Unseen
    <2>1. PICK y \in User : y = x[1]
      BY <1>1
    <2>2. Got(y, w, k)'
      BY <2>1
    <2>3. Got(y, w, k)
      BY <1>0, <2>2, GotStep
    <2> QED
      BY <1>1, <2>1, <2>3 DEF Unseen
  <1>2. ASSUME NEW x \in ToSet(out[w]) PROVE x[1] \in User
    <2>1. out[w] \in Seq(User \X MailOf(w))
      BY <1>0 DEF FilesInv
    <2>2. x \in User \X MailOf(w)
      BY <2>1 DEF ToSet
    <2> QED
      BY <2>2
  <1>3. CASE out'[w] = out[w]
    BY <1>1, <1>2, <1>3 DEF OutOrder
  <1>4. ASSUME w = u, NEW v \in User, NEW m \in MailOf(u), Send(u, v, m),
               m.type = "response" => m.key = keys + 1
        PROVE  OutOrder(u)'
    <2>1. PICK e : e = <<v, m>>
      OBVIOUS
    <2>2. e \in User \X MailOf(u) /\ e[1] = v /\ e[2] = m
      BY <2>1
    <2>3. out'[u] = Append(out[u], e)
      BY <1>0, <1>4, <2>1 DEF Send
    <2>4. ToSet(out'[u]) = ToSet(out[u]) \cup {e}
      BY <1>0, <2>3, Listing
    <2>5. Drawn(out'[u])
      <3>1. m.type = "response" =>
               \A x \in ToSet(out[u]) : x[2].type = "response" => x[2].key < m.key
        BY <1>4, GotBelow
      <3>2. Drawn(Append(out[u], e))
        BY <1>0, <1>4, <2>2, <3>1, DrawnAppend DEF OutOrder
      <3> QED
        BY <2>3, <3>2
    <2>6. Unseen(u, e)
      BY <1>4, <2>2, GotBelow DEF Unseen
    <2>7. \A x \in ToSet(out'[u]) : Unseen(u, x)'
      BY <1>1, <1>2, <1>4, <2>2, <2>4, <2>6 DEF OutOrder
    <2> QED
      BY <2>5, <2>7 DEF OutOrder
  <1>5. CASE friendreq_send_response(u) /\ Answers(u)
    <2>1. hand[u]["ui"] \in Notice
      BY <1>0, <1>5 DEF FilesInv, UserOK, UiHand, friendreq_send_response, Go
    <2>2. PICK v \in User : v = hand[u]["ui"].of
      BY <2>1, HeldTypes
    <2>3. keys + 1 \in Nat
      BY <1>0 DEF FilesInv, Numbers
    <2>4. PICK m : m = Response(u, keys + 1)
      OBVIOUS
    <2>5. m \in MailOf(u) /\ m.key = keys + 1
      BY <2>3, <2>4, Kinds, Names DEF MailOf
    <2>6. Send(u, v, m)
      BY <1>5, <2>2, <2>4 DEF Answers
    <2>7. w # u => out'[w] = out[w]
      BY <1>0, <2>6 DEF Send
    <2> QED
      BY <1>3, <1>4, <2>5, <2>6, <2>7
  <1>6. CASE Tells(u)
    <2>1. PICK v \in User, m \in MailOf(u) : m.type # "response" /\ Send(u, v, m)
      BY <1>6 DEF Tells
    <2>2. w # u => out'[w] = out[w]
      BY <1>0, <2>1 DEF Send
    <2> QED
      BY <1>3, <1>4, <2>1, <2>2
  <1>7. CASE UNCHANGED out
    BY <1>3, <1>7
  <1>8. ~ LosesKeys(u)
    BY <1>0, NoFailure DEF LosesKeys
  <1> QED
    BY <1>0, <1>5, <1>6, <1>7, <1>8, KeyEffects

(* The step that takes a message from a queue to a box keeps all of this.      *)
LEMMA OrderTransmit ==
    ASSUME KeysInv, NoStop, NEW u \in User, transmit(u),
           \A w \in User : ListOrder(w) /\ MailOrder(w) /\ OutOrder(w)
    PROVE  NoStop' /\ \A w \in User : (ListOrder(w) /\ MailOrder(w) /\ OutOrder(w))'
  <1>0. FilesInv
    BY DEF KeysInv
  <1>1. PICK v \in User, m \in MailOf(u) : Transmits(u, v, m)
    BY <1>0, TransmitEffect
  <1>2. UNCHANGED <<friends, ffile, nfile, profile, hand, pc, cut, half, lost>>
    BY <1>1 DEF Transmits, memory, disk, history, past
  <1>3. /\ \A w \in User \ {v} : box'[w] = box[w]
        /\ box'[v] = Append(box[v], m) /\ ToSet(box'[v]) = ToSet(box[v]) \cup {m}
        /\ \A w \in User \ {u} : out'[w] = out[w]
        /\ out'[u] = Tail(out[u])
    BY <1>0, <1>1, TransmitMoves
  <1>4. NoStop'
    BY <1>2 DEF NoStop
  <1>5. ASSUME NEW w \in User PROVE ListOrder(w)'
    BY <1>2, IdleOrder DEF Idle
  <1>6. m \in Mail /\ m.of = u
    BY DEF MailOf
  <1>7. out[u] \in Seq(User \X MailOf(u)) /\ out[u] # <<>> /\ Head(out[u]) = <<v, m>>
    BY <1>0, <1>1 DEF FilesInv, Transmits
  <1>8. ASSUME m.type = "response", NEW k \in Nat, Got(v, u, k) PROVE k < m.key
    <2>1. PICK x : x = <<v, m>>
      OBVIOUS
    <2>2. x \in ToSet(out[u])
      <3>1. 1 \in DOMAIN out[u] /\ out[u][1] = x
        BY <1>7, <2>1
      <3> QED
        BY <3>1 DEF ToSet
    <2>3. Unseen(u, x)
      BY <2>2 DEF OutOrder
    <2>4. x[1] = v /\ x[2] = m
      BY <2>1
    <2> QED
      BY <1>8, <2>3, <2>4 DEF Unseen
  <1>9. ASSUME NEW w \in User PROVE MailOrder(w)'
    <2>1. CASE w # v
      BY <1>2, <1>3, <2>1 DEF MailOrder
    <2>2. CASE w = v
      <3>1. box[v] \in Seq(Mail) /\ friends[v] \in Seq(Buddy) /\ UserOK(v)
        BY <1>0 DEF FilesInv, UserOK, TypesOf
      <3>2. ASSUME m.type = "response" PROVE Above(m.key, u, friends[v], 2)
        <4> SUFFICES ASSUME NEW i \in DOMAIN friends[v], friends[v][i].s = 2,
                            friends[v][i].of = u
                     PROVE  friends[v][i].key < m.key
          BY DEF Above
        <4>1. PICK f : f = friends[v][i]
          OBVIOUS
        <4>2. f \in Old(v) /\ f \in Buddy
          BY <3>1, <4>1 DEF Old, ToSet
        <4>3. f.key \in Nat /\ Got(v, u, f.key)
          BY <4>1, <4>2, HeldTypes DEF Got
        <4> QED
          BY <1>8, <3>2, <4>1, <4>3
      <3>3. ASSUME m.type = "response", NEW x \in ToSet(box[v]), x.type = "response",
                   x.of = u
            PROVE  x.key < m.key
        <4>1. x \in Mail
          BY <3>1 DEF ToSet
        <4>2. x.key \in Nat /\ Got(v, u, x.key)
          BY <3>3, <4>1, MailKinds DEF Got
        <4> QED
          BY <1>8, <3>3, <4>2
      <3>4. ASSUME m.type = "response", pc[v]["bg"] = "add friend", hand[v]["bg"].of = u
            PROVE  hand[v]["bg"].key < m.key
        <4>1. PICK f : f = hand[v]["bg"]
          OBVIOUS
        <4>2. f.type = "friend" /\ f \in Buddy
          BY <3>1, <3>4, <4>1, HandTypes DEF Befriending, Thread
        <4>3. f \in Old(v)
          BY <4>1, <4>2 DEF Old, Thread
        <4>4. f.s = 2
          BY <3>4, <4>1 DEF ListOrder, Befriending
        <4>5. f.key \in Nat /\ Got(v, u, f.key)
          BY <3>4, <4>1, <4>2, <4>3, <4>4, HeldTypes DEF Got
        <4> QED
          BY <1>8, <3>4, <4>1, <4>5
      <3>5. PICK a : a = Append(box[v], m)
        OBVIOUS
      <3>6. /\ Waiting(a, friends[v])
            /\ \A k, y : /\ After(k, y, box[v])
                         /\ m.type = "response" /\ m.of = y => k < m.key
                         => After(k, y, a)
        <4>1. Waiting(box[v], friends[v])
          BY DEF MailOrder
        <4> QED
          BY <1>6, <3>1, <3>2, <3>3, <3>5, <4>1, WaitingAppend
      <3>7. ASSUME pc[v]["bg"] = "add friend"
            PROVE  After(hand[v]["bg"].key, hand[v]["bg"].of, a)
        <4>1. After(hand[v]["bg"].key, hand[v]["bg"].of, box[v])
          BY <3>7 DEF MailOrder
        <4> QED
          BY <1>6, <3>4, <3>6, <3>7, <4>1
      <3> QED
        BY <1>2, <1>3, <2>2, <3>5, <3>6, <3>7 DEF MailOrder
    <2> QED
      BY <2>1, <2>2
  <1>10. ASSUME NEW w \in User, NEW y, NEW k, Got(w, y, k)'
         PROVE  Got(w, y, k) \/ (w = v /\ m.type = "response" /\ y = u /\ k = m.key)
    <2>1. Old(w)' = Old(w)
      BY <1>2 DEF Old
    <2>2. \A x \in ToSet(box'[w]) : x \in ToSet(box[w]) \/ (w = v /\ x = m)
      BY <1>3
    <2> QED
      BY <1>6, <1>10, <2>1, <2>2 DEF Got
  <1>11. ASSUME NEW w \in User PROVE OutOrder(w)'
    <2>1. ASSUME NEW x \in ToSet(out[w]) PROVE x[1] \in User
      <3>1. out[w] \in Seq(User \X MailOf(w))
        BY <1>0 DEF FilesInv
      <3>2. x \in User \X MailOf(w)
        BY <3>1 DEF ToSet
      <3> QED
        BY <3>2
    <2>2. CASE w # u
      <3>1. ASSUME NEW x \in ToSet(out[w]) PROVE Unseen(w, x)'
        <4>1. Unseen(w, x) /\ x[1] \in User
          BY <2>1 DEF OutOrder
        <4> QED
          BY <1>10, <2>2, <4>1 DEF Unseen
      <3> QED
        BY <1>3, <2>2, <3>1 DEF OutOrder
    <2>3. CASE w = u
      <3>1. PICK r : r = Tail(out[u])
        OBVIOUS
      <3>2. Drawn(out[u])
        BY DEF OutOrder
      <3>3. /\ Drawn(r) /\ ToSet(r) \subseteq ToSet(out[u])
            /\ Head(out[u])[2].type = "response" =>
                  \A x \in ToSet(r) :
                      x[2].type = "response" => Head(out[u])[2].key < x[2].key
        BY <1>7, <3>1, <3>2, DrawnTail
      <3>4. Head(out[u])[2] = m
        BY <1>7
      <3>5. ASSUME NEW x \in ToSet(r) PROVE Unseen(u, x)'
        <4>1. Unseen(u, x) /\ x[1] \in User
          BY <2>1, <2>3, <3>3 DEF OutOrder
        <4>2. m.type = "response" /\ x[2].type = "response" => m.key < x[2].key
          BY <3>3, <3>4
        <4> QED
          BY <1>10, <4>1, <4>2 DEF Unseen
      <3> QED
        BY <1>3, <2>3, <3>1, <3>3, <3>5 DEF OutOrder
    <2> QED
      BY <2>2, <2>3
  <1> QED
    BY <1>4, <1>5, <1>9, <1>11

(* A program that stops ends the claim: the other steps keep NoStop.           *)
LEMMA NotOff ==
    ASSUME FilesInv, NEW u \in User, Step(u), ~ stop(u), ~ login_fails(u)
    PROVE  \E t \in Thread : pc'[u][t] # "off"
  <1>0. Shape
    BY DEF FilesInv
  <1>1. ASSUME NEW t \in Thread, NEW from, NEW to, Go(u, t, from, to), to # "off"
        PROVE  \E s \in Thread : pc'[u][s] # "off"
    BY <1>0, <1>1, GoAt
  <1>2. ASSUME pc' = [pc EXCEPT ![u] = On] PROVE \E s \in Thread : pc'[u][s] # "off"
    BY <1>0, <1>2 DEF Shape, On, Thread
  <1>3. CASE user_interface(u)
    BY <1>1, <1>2, <1>3
       DEF user_interface, add_friend, write_friendfile, select_notif, Selected,
           notif_selected, reject, friendreq_send_response, init_account_file,
           add_account, write_userfile, Thread
  <1>4. CASE background_thread(u)
    BY <1>1, <1>4
       DEF background_thread, add_friend, write_friendfile, insert_notif,
           insert_written, bg_message, Handled, add_new_message, count_written, Thread
  <1>5. CASE user(u) \/ \E v \in User : send_friendreq(u, v)
    BY <1>1, <1>2, <1>5
       DEF user, view_notifs, cmessage_send, create_account, login, send_friendreq, Thread
  <1> QED
    BY <1>3, <1>4, <1>5 DEF Step

LEMMA NoStopStep ==
    ASSUME FilesInv, NoStop, NEW u \in User, Step(u), ~ stop(u) PROVE NoStop'
  <1>0. Shape /\ Shape' /\ Apart(u)
    BY ShapeStep DEF FilesInv
  <1>1. UNCHANGED <<cut, half, lost>>
    <2>1. ~ login_fails(u)
      BY NoFailure
    <2>2. UNCHANGED <<cut, lost>>
      BY SMTT(30), <2>1, KeyEffects DEF Answers, Tells, LosesKeys
    <2>3. UNCHANGED half
      BY <2>1
         DEF Step, user_interface, background_thread, user, add_friend,
             write_friendfile, select_notif, Selected, notif_selected, reject,
             friendreq_send_response, init_account_file, add_account, write_userfile,
             insert_notif, insert_written, add_new_message, count_written,
             view_notifs, bg_message, Handled, create_account, login,
             cmessage_send, send_friendreq, history, past
    <2> QED
      BY <2>2, <2>3
  <1>2. ASSUME NEW w \in User, pc'[w]["bg"] = "off", profile'[w] = File(<<w>>)
        PROVE  ffile'[w].data = <<>> /\ nfile'[w].data = <<>>
    <2>1. CASE w # u
      BY <1>0, <1>2, <2>1 DEF Apart, Same, NoStop
    <2>2. w # u
      <3>1. SUFFICES ASSUME w = u PROVE FALSE
        OBVIOUS
      <3>2. UserOK(u)'
        BY UserStep
      <3>3. pc'[u]["ui"] # "off"
        BY <1>2, <3>1, NotOff, NoFailure DEF Thread
      <3>4. pc'[u]["ui"] \in Creating
        BY <1>2, <3>1, <3>2, <3>3 DEF UserOK, PlaceOK
      <3>5. profile'[u] \in {Torn, File(<<>>)}
        BY <3>2, <3>4 DEF UserOK, AccountOK
      <3> QED
        BY <1>2, <3>1, <3>5, WholeFile
    <2> QED
      BY <2>1, <2>2
  <1> QED
    BY <1>1, <1>2 DEF NoStop

(* The order at the start and after each step.                                 *)
LEMMA OrderInit == Init => OrderInv
  <1> SUFFICES ASSUME Init PROVE OrderInv
    OBVIOUS
  <1>1. NoStop
    BY WholeFile, TornFile DEF Init, NoStop
  <1>2. ASSUME NEW u \in User PROVE ListOrder(u) /\ MailOrder(u) /\ OutOrder(u)
    <2>1. /\ friends[u] = <<>> /\ box[u] = <<>> /\ out[u] = <<>>
          /\ pc[u]["ui"] = "off" /\ pc[u]["bg"] = "off"
      BY <1>2 DEF Init, Off
    <2> QED
      BY <2>1, NoNames
         DEF ListOrder, MailOrder, Befriending, Rising, Waiting, OutOrder, Drawn
  <1> QED
    BY <1>1, <1>2 DEF OrderInv

LEMMA OrderStep == KeysInv /\ OrderInv /\ [Next]_vars => OrderInv'
  <1> SUFFICES ASSUME KeysInv, OrderInv, [Next]_vars PROVE OrderInv'
    OBVIOUS
  <1>0. FilesInv /\ stops \in Nat
    BY DEF KeysInv, FilesInv, Numbers
  <1>1. ASSUME NEW u \in User, Step(u) PROVE OrderInv'
    <2>1. CASE stop(u)
      <3>1. stops' # 0
        BY <1>0, <2>1 DEF stop
      <3> QED
        BY <3>1 DEF OrderInv
    <2>2. CASE ~ stop(u)
      <3>1. UNCHANGED stops
        BY <1>1, <2>2
           DEF Step, user_interface, background_thread, user, add_friend,
               write_friendfile, select_notif, Selected, notif_selected, reject,
               friendreq_send_response, init_account_file, add_account,
               write_userfile, insert_notif, insert_written, add_new_message,
               count_written, view_notifs, bg_message, Handled, create_account, login,
               login_fails, cmessage_send, send_friendreq, history, counters, server
      <3>2. CASE stops = 0
        <4>1. NoStop /\ \A w \in User : ListOrder(w) /\ MailOrder(w) /\ OutOrder(w)
          BY <3>2 DEF OrderInv
        <4>2. NoStop'
          BY <1>0, <1>1, <2>2, <4>1, NoStopStep
        <4>3. \A w \in User : ListOrder(w)' /\ MailOrder(w)' /\ OutOrder(w)'
          BY <1>1, <2>2, <4>1, ListOrderStep, MailOrderStep, OutOrderStep
        <4> QED
          BY <4>2, <4>3 DEF OrderInv
      <3>3. CASE stops # 0
        BY <3>1, <3>3 DEF OrderInv
      <3> QED
        BY SMTT(30), <3>2, <3>3
    <2> QED
      BY <2>1, <2>2
  <1>2. CASE UNCHANGED vars
    <2>1. NoStop => NoStop'
      BY <1>2 DEF NoStop, vars, memory, disk, history, past
    <2>2. \A w \in User : ListOrder(w) /\ MailOrder(w) => (ListOrder(w) /\ MailOrder(w))'
      BY <1>2 DEF ListOrder, MailOrder, vars, server, net, memory
    <2>3. \A w \in User : OutOrder(w) => OutOrder(w)'
      BY <1>2 DEF OutOrder, Unseen, Got, Old, vars, server, net, memory, disk
    <2> QED
      BY <1>2, <2>1, <2>2, <2>3 DEF OrderInv, vars, history, counters
  <1>3. ASSUME NEW u \in User, transmit(u) PROVE OrderInv'
    <2>1. UNCHANGED stops
      BY <1>3 DEF transmit, history, counters
    <2>2. CASE stops = 0
      <3>1. NoStop /\ \A w \in User : ListOrder(w) /\ MailOrder(w) /\ OutOrder(w)
        BY <2>2 DEF OrderInv
      <3>2. NoStop' /\ \A w \in User : (ListOrder(w) /\ MailOrder(w) /\ OutOrder(w))'
        BY <1>3, <3>1, OrderTransmit
      <3> QED
        BY <3>2 DEF OrderInv
    <2>3. CASE stops # 0
      BY <2>1, <2>3 DEF OrderInv
    <2> QED
      BY SMTT(30), <2>2, <2>3
  <1> QED
    BY <1>1, <1>2, <1>3 DEF Next, Step

LEMMA OrderAlways == Spec => [](KeysInv /\ OrderInv)
  <1>1. Init => KeysInv /\ OrderInv
    BY KeysInit, OrderInit
  <1>2. KeysInv /\ OrderInv /\ [Next]_vars => (KeysInv /\ OrderInv)'
    BY KeysStep, OrderStep
  <1> QED
    BY <1>1, <1>2, PTL DEF Spec

LEMMA FirstOf ==
    ASSUME NEW l \in Seq(Buddy), NEW v, NEW f \in ToSet(l), f.of = v
    PROVE  \E i \in DOMAIN l :
              /\ First(l, v) = l[i] /\ l[i].of = v
              /\ \A j \in 1 .. i - 1 : l[j].of # v
  <1>1. DOMAIN l = 1 .. Len(l) /\ Len(l) \in Nat
    OBVIOUS
  <1> DEFINE T == {i \in DOMAIN l : l[i].of = v}
  <1>2. T \in SUBSET Nat /\ T # {}
    BY <1>1 DEF ToSet
  <1>3. PICK n \in T : \A k \in T : n <= k
    <2> HIDE DEF T
    <2> QED
      BY <1>2, Least
  <1>4. n \in DOMAIN l /\ l[n].of = v
    OBVIOUS
  <1>5. ASSUME NEW j \in 1 .. n - 1 PROVE l[j].of # v
    <2>1. j \in DOMAIN l /\ ~ (n <= j)
      BY <1>1, <1>4
    <2> QED
      BY <1>3, <2>1
  <1>6. \E i \in DOMAIN l : l[i].of = v /\ \A j \in 1 .. i - 1 : l[j].of # v
    BY <1>4, <1>5
  <1> QED
    BY <1>6 DEF First

(* The first of those that are given a key in order has the least.             *)
LEMMA FirstIsLeast ==
    ASSUME NEW l \in Seq(Buddy), NEW v, NEW h, NEW K \in SUBSET Nat, K # {}, Rising(l, h),
           \A f \in ToSet(l) : f.of = v => f.s = h /\ f.key \in K,
           \A k \in K : \E f \in ToSet(l) : f.of = v /\ f.key = k
    PROVE  First(l, v).key \in K /\ \A k \in K : First(l, v).key <= k
  <1>1. DOMAIN l = 1 .. Len(l) /\ Len(l) \in Nat
    OBVIOUS
  <1>2. \E f \in ToSet(l) : f.of = v
    OBVIOUS
  <1>3. PICK i \in DOMAIN l : /\ First(l, v) = l[i] /\ l[i].of = v
                              /\ \A j \in 1 .. i - 1 : l[j].of # v
    BY SMTT(30), <1>2, FirstOf
  <1>4. l[i] \in ToSet(l)
    BY DEF ToSet
  <1>5. l[i].s = h /\ l[i].key \in K
    BY <1>3, <1>4
  <1>6. ASSUME NEW k \in K PROVE l[i].key <= k
    <2>1. PICK f \in ToSet(l) : f.of = v /\ f.key = k
      OBVIOUS
    <2>2. PICK j \in DOMAIN l : f = l[j]
      BY DEF ToSet
    <2>3. f.s = h
      BY <2>1
    <2>4. ~ (j < i)
      BY <1>1, <1>3, <2>1, <2>2
    <2>5. CASE j = i
      BY <1>5, <2>1, <2>2, <2>5
    <2>6. CASE i < j
      <3>1. l[i].key < l[j].key
        BY <1>3, <1>5, <2>1, <2>2, <2>3, <2>6 DEF Rising
      <3>2. l[j].key = k /\ k \in Nat /\ l[i].key \in Nat
        BY <1>5, <2>1, <2>2
      <3>3. \A x \in Nat, y \in Nat : x < y => x <= y
        OBVIOUS
      <3> QED
        BY <3>1, <3>2, <3>3
    <2> QED
      BY <1>1, <2>4, <2>5, <2>6
  <1> QED
    BY <1>3, <1>5, <1>6

(* If one of two users accepted all the requests between them, the friend that *)
(* either finds first in the list has the same key once nothing is on its way  *)
(* and no program has stopped (conversation.c: parse_conv_message).            *)
THEOREM FirstKeysAgree == Spec => []FirstsAgree
  <1>1. ASSUME KeysInv, OrderInv PROVE FirstsAgree
    <2> SUFFICES ASSUME stops = 0, Settled, NEW u \in User, NEW v \in User, OneSided(u, v)
                 PROVE  First(List(u), v).key = First(List(v), u).key
      BY DEF FirstsAgree
    <2>0. FilesInv /\ NoStop /\ \A w \in User : ListOrder(w)
      BY <1>1 DEF KeysInv, OrderInv
    <2>1. ASSUME NEW w \in User
          PROVE  List(w) \in Seq(Buddy) /\ Rising(List(w), 1) /\ Rising(List(w), 2)
      <3>1. CASE pc[w]["bg"] = "off"
        <4>1. List(w) = <<>>
          BY <2>0, <3>1, OffEmpty DEF List
        <4> QED
          BY <4>1, FilesKnown DEF Rising
      <3>2. CASE pc[w]["bg"] # "off"
        BY <2>0, <3>2 DEF List, ListOrder, FilesInv, UserOK, TypesOf
      <3> QED
        BY <3>1, <3>2
    <2>2. PICK K : K = {k \in Nat : <<u, v, k>> \in accepted}
      OBVIOUS
    <2>3. K \in SUBSET Nat /\ K # {}
      <3>1. PICK a \in accepted : a[1] = u /\ a[2] = v
        BY DEF OneSided
      <3>2. PICK x \in User, y \in User, k \in Nat : a = <<x, y, k>>
        BY <1>1 DEF KeysInv, AcceptedOK, FilesInv, Numbers
      <3> QED
        BY <2>2, <3>1, <3>2
    <2>4. \A k : <<v, u, k>> \notin accepted
      BY DEF OneSided
    <2>5. ASSUME NEW w \in User, NEW f \in ToSet(List(w))
          PROVE  f \in Buddy /\ Granted(w, f)
      BY <1>1, <2>1, <2>5 DEF ToSet, KeysInv, GrantedAll, List
    <2>6. ASSUME NEW f \in ToSet(List(u)), f.of = v PROVE f.s = 1 /\ f.key \in K
      <3>1. f.key \in Nat
        BY <2>5, HeldTypes
      <3>2. f = Friend(v, f.key, 1) /\ <<u, v, f.key>> \in accepted
        BY <2>4, <2>5, <2>6 DEF Granted, GrantedBy
      <3>3. f.s = 1
        BY <3>2, Names
      <3> QED
        BY <2>2, <3>1, <3>2, <3>3
    <2>7. ASSUME NEW f \in ToSet(List(v)), f.of = u PROVE f.s = 2 /\ f.key \in K
      <3>1. f.key \in Nat
        BY <2>5, HeldTypes
      <3>2. f = Friend(u, f.key, 2) /\ <<u, v, f.key>> \in accepted
        BY <2>4, <2>5, <2>7 DEF Granted, GrantedBy
      <3>3. f.s = 2
        BY <3>2, Names
      <3> QED
        BY <2>2, <3>1, <3>2, <3>3
    <2>8. ASSUME NEW w \in User, NEW f, Has(w, f), f.type = "friend"
          PROVE  f \in ToSet(List(w))
      BY <2>8 DEF Has, Settled
    <2>9. ASSUME NEW k \in K
          PROVE  /\ Friend(v, k, 1) \in ToSet(List(u))
                 /\ Friend(u, k, 2) \in ToSet(List(v))
      <3>1. /\ Has(u, Friend(v, k, 1))
            /\ Has(v, Friend(u, k, 2)) \/ OnWay(v, Response(u, k))
        BY <1>1, <2>0, <2>2 DEF KeysInv, BothHave, NoStop
      <3>2. ~ OnWay(v, Response(u, k))
        <4>1. \A m : <<v, m>> \in ToSet(out[u]) => m \in Queued(u)
          BY DEF Queued
        <4> QED
          BY <4>1, Names DEF Settled, OnWay
      <3> QED
        BY <2>8, <3>1, <3>2, Names
    <2>10. PICK l \in Seq(Buddy), r \in Seq(Buddy) :
              l = List(u) /\ r = List(v) /\ Rising(l, 1) /\ Rising(r, 2)
      BY <2>1
    <2>11. First(l, v).key \in K /\ \A k \in K : First(l, v).key <= k
      <3>1. \A k \in K : \E f \in ToSet(l) : f.of = v /\ f.key = k
        BY <2>9, <2>10, Names
      <3> QED
        BY <2>3, <2>6, <2>10, <3>1, FirstIsLeast
    <2>12. First(r, u).key \in K /\ \A k \in K : First(r, u).key <= k
      <3>1. \A k \in K : \E f \in ToSet(r) : f.of = u /\ f.key = k
        BY <2>9, <2>10, Names
      <3> QED
        BY ZenonT(60), <2>3, <2>7, <2>10, <3>1, FirstIsLeast
    <2>13. \A x \in Nat, y \in Nat : x <= y /\ y <= x => x = y
      OBVIOUS
    <2>14. First(l, v).key = First(r, u).key
      BY <2>3, <2>11, <2>12, <2>13
    <2> QED
      BY <2>10, <2>14
  <1> QED
    BY <1>1, OrderAlways, PTL
==============================================================================

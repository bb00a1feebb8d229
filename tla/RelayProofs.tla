----------------------------- MODULE RelayProofs -----------------------------
(***************************************************************************)
(* Lab 3: as long as troll lets the packages pass, the files that ftps     *)
(* writes are the files that ftpc read, for any files, any length of a     *)
(* package and any number of them on their way.                            *)
(***************************************************************************)
EXTENDS Relay, TLAPS

(***************************************************************************)
(* What a package can be is known from its place: the size, the name, or   *)
(* the bytes when so many are left, of a file.  The loop of ftpc and that  *)
(* of ftps go through the same places.                                     *)
(***************************************************************************)
Start(f) == [file |-> f, part |-> "size", left |-> 0]
NamePlace(f) == [file |-> f, part |-> "name", left |-> 0]
DataPlace(f, n) == [file |-> f, part |-> "data", left |-> n]

AfterName(f) == IF files[f] \in {0, Missing} THEN Start(f + 1) ELSE DataPlace(f, files[f])
AfterData(f, n) == IF n <= BodyLen THEN Start(f + 1) ELSE DataPlace(f, n - BodyLen)

Places == [file : Nat, part : {"size", "name", "data"}, left : Nat]

NextPlace(p) ==
    CASE p.part = "size" -> NamePlace(p.file)
      [] p.part = "name" -> AfterName(p.file)
      [] OTHER -> AfterData(p.file, p.left)

Item ==
    {Junk} \cup {<<"size", n>> : n \in Nat} \cup {<<"name", f>> : f \in Nat}
           \cup {<<"byte", f, i>> : f \in Nat, i \in Nat}

Body == {b \in Seq(Item) : Len(b) = BodyLen}

(* The bytes of file f from where n of them are left. *)
Carries(b, f, n) ==
    /\ f \in DOMAIN files /\ files[f] \in Nat /\ n \in 1..files[f]
    /\ b \in Body
    /\ \A i \in 1..BodyLen : i <= n => b[i] = <<"byte", f, files[f] - n + i>>

Fits(b, p) ==
    \/ p = Start(p.file) /\ b[1] = SizeField(files[p.file])
    \/ p = NamePlace(p.file) /\ b[1] = NameField(p.file)
    \/ p = DataPlace(p.file, p.left) /\ Carries(b, p.file, p.left)

(* The packages of a queue are those of the places from p up to r. *)
Chain(queue, p, r) ==
    \E place \in [1..Len(queue) + 1 -> Places] :
        /\ place[1] = p /\ place[Len(queue) + 1] = r
        /\ \A i \in 1..Len(queue) :
             Fits(queue[i], place[i]) /\ place[i + 1] = NextPlace(place[i])

-----------------------------------------------------------------------------
(* Where ftps is, in the file that comes next to be stored. *)
ServerIn(f, p) ==
    \/ server.at \in {"SOCKET", "BIND", "size"} /\ p = Start(f)
    \/ server.at = "name" /\ p = NamePlace(f) /\ server.left = files[f]
    \/ /\ server.at = "data" /\ p = DataPlace(f, server.left)
       /\ server.left \in 1..files[f] /\ server.name = NameField(f)

ServerHas(f) ==
    /\ server = [at |-> server.at, left |-> server.left, name |-> server.name,
                 content |-> server.content]
    /\ server.content \in Seq(Item)
    /\ Len(server.content) = IF server.at = "data" THEN files[f] - server.left ELSE 0
    /\ \A i \in 1..Len(server.content) : server.content[i] = <<"byte", f, i>>

Wanted == IF server.at = "data" THEN BodyLen ELSE 1

(* And which package it takes next. *)
ServerCalls(p, next) ==
    LET c == call["server"] IN
    \/ c.status = "idle" /\ next = p
    \/ /\ c.status = "asked" /\ next = p
       /\ IF server.at \in {"SOCKET", "BIND"} THEN c.name = server.at
          ELSE c.name = "RECV" /\ c.arg = <<Wanted>>
    \/ /\ c.status = "answered"
       /\ IF server.at \in {"SOCKET", "BIND"} THEN next = p
          ELSE Fits(c.value, p) /\ next = NextPlace(p)

(* Which package ftpc, or the daemon for it, sends next. *)
ClientIn(f, next) ==
    LET c == call["client"] IN
    \/ client.at = "done" /\ c.status = "idle"
    \/ /\ client.at \in {"SOCKET", "CONNECT"} /\ client.left = files[f] /\ next = Start(f)
       /\ c.status = "asked" => c.name = client.at
    \/ /\ client.at = "size" /\ client.left = files[f]
       /\ next = IF c.status = "answered" THEN NamePlace(f) ELSE Start(f)
       /\ c.status = "asked" => c.name = "SEND" /\ c.arg = <<SizeField(files[f])>>
    \/ /\ client.at = "name" /\ client.left = files[f]
       /\ next = IF c.status = "answered" THEN AfterName(f) ELSE NamePlace(f)
       /\ c.status = "asked" => c.name = "SEND" /\ c.arg = <<NameField(f)>>
       /\ c.status # "idle" => client.buf \in Body
    \/ /\ client.at = "data" /\ files[f] = Missing /\ next = Start(f + 1)
       /\ c.status = "idle"
    \/ /\ client.at = "data" /\ files[f] # Missing /\ client.buf \in Body
       /\ client.left \in 0..files[f]
       /\ \/ /\ c.status = "idle" /\ client.left > 0 /\ next = DataPlace(f, client.left)
          \/ /\ c.status = "asked" /\ c.name = "SEND" /\ Carries(c.arg, f, next.left)
             /\ next = DataPlace(f, next.left)
             /\ client.left = IF next.left <= BodyLen THEN 0 ELSE next.left - BodyLen
          \/ /\ c.status = "answered"
             /\ next = IF client.left = 0 THEN Start(f + 1) ELSE DataPlace(f, client.left)

ClientHas(f) ==
    /\ client = [file |-> f, at |-> client.at, left |-> client.left, buf |-> client.buf]
    /\ f \in Nat \ {0}
    /\ client.at # "done" => f \in DOMAIN files

ServerSide(f, next) ==
    ServerHas(f) /\ \E p \in Places : ServerIn(f, p) /\ ServerCalls(p, next)

ClientSide(next) == ClientHas(client.file) /\ ClientIn(client.file, next)

(* What is between them is what one has sent and the other not yet taken. *)
Flow(f) ==
    /\ wire \in Seq(Body) /\ arrived \in Seq(Body)
    /\ \E q, m, r \in Places :
         /\ ServerSide(f, q) /\ ClientSide(r)
         /\ Chain(arrived, q, m) /\ Chain(wire, m, r)

InStep ==
    LET f == Len(stored) + 1
    IN  f \in DOMAIN files /\ Readable(f) => Flow(f)

StoredExact ==
    \A i \in DOMAIN stored :
        i \in DOMAIN files /\ Readable(i) =>
            stored[i] = [name |-> NameField(i), content |-> Content(i)]

CallsFormed ==
    /\ DOMAIN call = Host
    /\ \A h \in Host : call[h] = [name |-> call[h].name, status |-> call[h].status,
                                 arg |-> call[h].arg, value |-> call[h].value]

RelayInv ==
    /\ files \in Seq(Nat \cup {Missing}) /\ faults \in Nat
    /\ \E T : stored \in Seq(T)
    /\ CallsFormed
    /\ faults = 0 => InStep /\ StoredExact

-----------------------------------------------------------------------------
(* Queues of packages. *)
LEMMA PlacesFacts ==
    ASSUME NEW f \in Nat
    PROVE  /\ Start(f) \in Places /\ NamePlace(f) \in Places
           /\ \A n \in Nat : DataPlace(f, n) \in Places
  BY DEF Places, Start, NamePlace, DataPlace

LEMMA NextPlaces ==
    ASSUME NEW f
    PROVE  /\ NextPlace(Start(f)) = NamePlace(f)
           /\ NextPlace(NamePlace(f)) = AfterName(f)
           /\ \A n : NextPlace(DataPlace(f, n)) = AfterData(f, n)
  BY DEF NextPlace, Start, NamePlace, DataPlace

LEMMA ChainEmpty ==
    ASSUME NEW p \in Places
    PROVE  Chain(<<>>, p, p)
  <1>. DEFINE place == [i \in 1..1 |-> p]
  <1>1. Len(<<>>) = 0 /\ 0 + 1 = 1 /\ 1..0 = {}
    OBVIOUS
  <1>2. place \in [1..1 -> Places] /\ place[1] = p
    OBVIOUS
  <1>. QED BY <1>1, <1>2 DEF Chain

LEMMA ChainAppend ==
    ASSUME NEW queue \in Seq(Body), NEW p \in Places, NEW r \in Places, Chain(queue, p, r),
           NEW b \in Body, Fits(b, r), NextPlace(r) \in Places
    PROVE  Append(queue, b) \in Seq(Body) /\ Chain(Append(queue, b), p, NextPlace(r))
  <1>1. PICK n \in Nat : n = Len(queue)
    OBVIOUS
  <1>2. PICK place \in [1..n + 1 -> Places] :
           /\ place[1] = p /\ place[n + 1] = r
           /\ \A i \in 1..n : Fits(queue[i], place[i]) /\ place[i + 1] = NextPlace(place[i])
    BY <1>1, Zenon DEF Chain
  <1>3. PICK longer : longer = Append(queue, b)
    OBVIOUS
  <1>4. /\ longer \in Seq(Body) /\ Len(longer) = n + 1
        /\ \A i \in 1..n : longer[i] = queue[i]
        /\ longer[n + 1] = b
    BY <1>1, <1>3
  <1>5. PICK next \in Places : next = NextPlace(r)
    OBVIOUS
  <1>6. PICK there : there = [i \in 1..(n + 1) + 1 |-> IF i = n + 2 THEN next ELSE place[i]]
    OBVIOUS
  <1>7. /\ there \in [1..(n + 1) + 1 -> Places] /\ there[1] = p /\ there[n + 1] = r
        /\ there[(n + 1) + 1] = next
        /\ \A i \in 1..n : there[i] = place[i] /\ there[i + 1] = place[i + 1]
    BY <1>2, <1>6
  <1>8. \A i \in 1..n + 1 : i \in 1..n \/ i = n + 1
    OBVIOUS
  <1>9. ASSUME NEW i \in 1..n + 1
        PROVE  Fits(longer[i], there[i]) /\ there[i + 1] = NextPlace(there[i])
    <2>1. CASE i \in 1..n
      BY <1>2, <1>4, <1>7, <2>1, Zenon
    <2>2. CASE i = n + 1
      BY <1>4, <1>5, <1>7, <2>2, Zenon
    <2>. QED BY <1>8, <2>1, <2>2, Zenon
  <1>10. Chain(longer, p, next)
    <2>1. \A i \in 1..n + 1 : Fits(longer[i], there[i]) /\ there[i + 1] = NextPlace(there[i])
      BY <1>9, Zenon
    <2>2. Len(longer) = n + 1
      BY <1>4, Zenon
    <2>. QED BY <1>7, <2>1, <2>2, Zenon DEF Chain
  <1>. QED BY <1>3, <1>4, <1>5, <1>10, Zenon

LEMMA ChainHead ==
    ASSUME NEW queue \in Seq(Body), queue # <<>>, NEW p \in Places, NEW r \in Places,
           Chain(queue, p, r)
    PROVE  /\ Head(queue) \in Body /\ Tail(queue) \in Seq(Body)
           /\ Fits(Head(queue), p) /\ NextPlace(p) \in Places
           /\ Chain(Tail(queue), NextPlace(p), r)
  <1>1. PICK n \in Nat : n + 1 = Len(queue)
    <2>1. Len(queue) - 1 \in Nat /\ (Len(queue) - 1) + 1 = Len(queue)
      OBVIOUS
    <2>. QED BY <2>1
  <1>2. PICK place \in [1..(n + 1) + 1 -> Places] :
           /\ place[1] = p /\ place[(n + 1) + 1] = r
           /\ \A i \in 1..n + 1 : Fits(queue[i], place[i]) /\ place[i + 1] = NextPlace(place[i])
    BY <1>1, Zenon DEF Chain
  <1>3. PICK rest : rest = Tail(queue)
    OBVIOUS
  <1>4. /\ Head(queue) \in Body /\ Head(queue) = queue[1]
        /\ rest \in Seq(Body) /\ Len(rest) = n
        /\ \A i \in 1..n : rest[i] = queue[i + 1]
    BY <1>1, <1>3
  <1>5. PICK there : there = [i \in 1..n + 1 |-> place[i + 1]]
    OBVIOUS
  <1>6. /\ \A i \in 1..n + 1 : i + 1 \in 1..(n + 1) + 1
        /\ \A i \in 1..n : i \in 1..n + 1 /\ i + 1 \in 1..n + 1
        /\ 1 \in 1..n + 1 /\ n + 1 \in 1..n + 1
    OBVIOUS
  <1>7. /\ there \in [1..n + 1 -> Places] /\ there[1] = place[1 + 1] /\ there[n + 1] = r
        /\ \A i \in 1..n : there[i] = place[i + 1] /\ there[i + 1] = place[(i + 1) + 1]
    BY <1>2, <1>5, <1>6, Zenon
  <1>8. Fits(queue[1], p) /\ there[1] = NextPlace(p)
    BY <1>2, <1>6, <1>7, Zenon
  <1>9. ASSUME NEW i \in 1..n
        PROVE  Fits(rest[i], there[i]) /\ there[i + 1] = NextPlace(there[i])
    <2>1. i + 1 \in 1..n + 1
      BY <1>6
    <2>2. Fits(queue[i + 1], place[i + 1]) /\ place[(i + 1) + 1] = NextPlace(place[i + 1])
      BY <1>2, <2>1, Zenon
    <2>. QED BY <1>4, <1>7, <2>2, Zenon
  <1>10. Chain(rest, there[1], r)
    BY <1>4, <1>7, <1>9, Zenon DEF Chain
  <1>11. there[1] \in Places
    BY <1>6, <1>7, Zenon
  <1>. QED BY <1>3, <1>4, <1>8, <1>10, <1>11, Zenon

LEMMA ChainCarried ==
    ASSUME files' = files, NEW queue, NEW p, NEW r, Chain(queue, p, r)
    PROVE  Chain(queue, p, r)'
  <1>1. ASSUME NEW b, NEW x
        PROVE  (Fits(b, x))' = Fits(b, x) /\ (NextPlace(x))' = NextPlace(x)
    BY DEF Fits, NextPlace, Carries, SizeField, AfterName, AfterData, Start, NamePlace, DataPlace,
           NameField
  <1>. QED BY <1>1 DEF Chain

LEMMA FitsCarried ==
    ASSUME files' = files, NEW b, NEW x
    PROVE  (Fits(b, x))' = Fits(b, x) /\ (NextPlace(x))' = NextPlace(x)
  BY DEF Fits, NextPlace, Carries, SizeField, AfterName, AfterData, Start, NamePlace, DataPlace,
         NameField

-----------------------------------------------------------------------------
(* What an action leaves alone. *)
LEMMA ServerStays ==
    ASSUME files' = files, server' = server, call'["server"] = call["server"],
           NEW f, NEW next, ServerSide(f, next)
    PROVE  ServerSide(f, next)'
  <1>1. ServerHas(f)'
    BY DEF ServerSide, ServerHas
  <1>2. PICK p \in Places : ServerIn(f, p) /\ ServerCalls(p, next)
    BY DEF ServerSide
  <1>3. ServerIn(f, p)'
    BY <1>2 DEF ServerIn
  <1>4. ServerCalls(p, next)'
    BY <1>2, FitsCarried DEF ServerCalls, Wanted
  <1>. QED BY <1>1, <1>3, <1>4 DEF ServerSide

LEMMA ClientStays ==
    ASSUME files' = files, client' = client, call'["client"] = call["client"],
           NEW next, ClientSide(next)
    PROVE  ClientSide(next)'
  <1>1. ClientHas(client.file)'
    BY DEF ClientSide, ClientHas
  <1>2. ClientIn(client.file, next)'
    BY DEF ClientSide, ClientIn, Carries, SizeField, AfterName
  <1>. QED BY <1>1, <1>2 DEF ClientSide

(* A step of one program or its daemon that leaves the queues alone. *)
LEMMA FlowStays ==
    ASSUME files' = files, wire' = wire, arrived' = arrived, NEW f, Flow(f),
           \A q \in Places : ServerSide(f, q) => ServerSide(f, q)',
           \A r \in Places : ClientSide(r) => ClientSide(r)'
    PROVE  Flow(f)'
  <1>1. PICK q \in Places, m \in Places, r \in Places :
           /\ ServerSide(f, q) /\ ClientSide(r)
           /\ Chain(arrived, q, m) /\ Chain(wire, m, r)
    BY Zenon DEF Flow
  <1>2. Chain(arrived, q, m)' /\ Chain(wire, m, r)'
    <2>1. Chain(arrived', q, m) /\ Chain(wire', m, r)
      BY <1>1
    <2>. QED BY <2>1, ChainCarried
  <1>3. (wire \in Seq(Body) /\ arrived \in Seq(Body))'
    BY Zenon DEF Flow
  <1>4. ServerSide(f, q)' /\ ClientSide(r)'
    BY <1>1
  <1>. QED BY <1>2, <1>3, <1>4, Zenon DEF Flow

-----------------------------------------------------------------------------
(* What is in a package. *)
LEMMA ItemFacts ==
    /\ Junk \in Item
    /\ \A n \in Int : SizeField(n) \in Item /\ (n \in 0..Word - 1 => SizeField(n) = <<"size", n>>)
    /\ \A f \in Nat : NameField(f) \in Item
    /\ \A f, i \in Nat : <<"byte", f, i>> \in Item
  <1>1. \A n \in Int : n % Word \in Nat /\ (n \in 0..Word - 1 => n % Word = n)
    BY RelayAssumption DEF RelayAssumption
  <1>. QED BY <1>1 DEF Item, SizeField, NameField

LEMMA Joined ==
    ASSUME NEW a \in Seq(Item), NEW b \in Seq(Item)
    PROVE  /\ a \o b \in Seq(Item) /\ Len(a \o b) = Len(a) + Len(b)
           /\ \A i \in 1..Len(a) : (a \o b)[i] = a[i]
           /\ \A i \in 1..Len(b) : (a \o b)[Len(a) + i] = b[i]
  OBVIOUS

LEMMA Ending ==
    ASSUME NEW s \in Seq(Item), NEW m \in Nat, m <= Len(s)
    PROVE  SubSeq(s, m + 1, Len(s)) \in Seq(Item) /\ Len(SubSeq(s, m + 1, Len(s))) = Len(s) - m
  OBVIOUS

LEMMA Filled ==
    ASSUME NEW data \in Seq(Item), Len(data) <= BodyLen
    PROVE  Fill(data) \in Body /\ \A i \in 1..Len(data) : Fill(data)[i] = data[i]
  <1>1. PICK n \in Nat : n = BodyLen
    BY RelayAssumption DEF RelayAssumption
  <1>2. PICK m \in Nat : m = Len(data)
    OBVIOUS
  <1>3. m <= n /\ n - m \in Nat /\ m + (n - m) = n
    BY <1>1, <1>2
  <1>4. PICK junk \in Seq(Item) : junk = [i \in 1..n - m |-> Junk] /\ Len(junk) = n - m
    <2>1. PICK k \in Nat : k = n - m
      BY <1>3
    <2>2. [i \in 1..k |-> Junk] \in Seq(Item) /\ Len([i \in 1..k |-> Junk]) = k
      BY ItemFacts
    <2>. QED BY <2>1, <2>2
  <1>5. Fill(data) = data \o junk
    BY <1>1, <1>2, <1>4 DEF Fill
  <1>6. /\ data \o junk \in Seq(Item) /\ Len(data \o junk) = Len(data) + Len(junk)
        /\ \A i \in 1..Len(data) : (data \o junk)[i] = data[i]
    BY Joined, Zenon
  <1>7. Len(data \o junk) = n
    BY <1>2, <1>3, <1>4, <1>6
  <1>. QED BY <1>1, <1>5, <1>6, <1>7, Zenon DEF Body

LEMMA OneItem ==
    ASSUME NEW x \in Item
    PROVE  /\ <<x>> \in Seq(Item) /\ Fill(<<x>>) \in Body /\ Fill(<<x>>)[1] = x
  <1>1. <<x>> \in Seq(Item) /\ Len(<<x>>) = 1 /\ 1 \in 1..1 /\ <<x>>[1] = x
    OBVIOUS
  <1>2. 1 <= BodyLen
    BY RelayAssumption DEF RelayAssumption
  <1>3. /\ Fill(<<x>>) \in Body
        /\ \A i \in 1..1 : Fill(<<x>>)[i] = <<x>>[i]
    BY <1>1, <1>2, Filled
  <1>. QED BY <1>1, <1>3

LEMMA FillBody ==
    ASSUME NEW f, NEW n, NEW b, Carries(b, f, n)
    PROVE  Fill(b) \in Body /\ Carries(Fill(b), f, n)
  <1>1. b \in Seq(Item) /\ Len(b) = BodyLen /\ BodyLen \in Nat
    BY RelayAssumption DEF Carries, Body, RelayAssumption
  <1>2. Fill(b) \in Body /\ \A i \in 1..BodyLen : Fill(b)[i] = b[i]
    BY <1>1, Filled
  <1>. QED BY <1>2, Zenon DEF Carries

(* The part of the file that a package carries. *)
LEMMA ChunkFacts ==
    ASSUME NEW f, f = client.file, f \in DOMAIN files, files[f] \in Nat,
           client.left \in 1..files[f], f \in Nat
    PROVE  LET k == IF client.left < BodyLen THEN client.left ELSE BodyLen
           IN  /\ Chunk \in Seq(Item) /\ Len(Chunk) = k
               /\ \A i \in 1..k : Chunk[i] = <<"byte", f, files[f] - client.left + i>>
  <1>1. PICK n \in Nat : n = BodyLen /\ n > 0
    BY RelayAssumption DEF RelayAssumption
  <1>2. PICK size \in Nat : size = files[f]
    OBVIOUS
  <1>3. PICK left \in 1..size : left = client.left
    BY <1>2
  <1>4. PICK k \in Nat : k = IF left < n THEN left ELSE n
    OBVIOUS
  <1>5. PICK from \in Nat : from = size - left
    BY <1>2, <1>3
  <1>6. PICK file \in Seq(Item) : /\ file = Content(f) /\ Len(file) = size
                                  /\ \A i \in 1..size : file[i] = <<"byte", f, i>>
    <2>1. [i \in 1..size |-> <<"byte", f, i>>] \in Seq(Item)
      BY ItemFacts
    <2>. QED BY <1>2, <2>1 DEF Content
  <1>7. PICK to \in Nat : to = from + k /\ to <= size
    BY <1>3, <1>4, <1>5
  <1>8. Chunk = SubSeq(file, from + 1, to)
    <2>1. to = IF left < n THEN size ELSE from + n
      BY <1>1, <1>3, <1>4, <1>5, <1>7
    <2>. QED BY <1>1, <1>2, <1>3, <1>5, <1>6, <2>1, Zenon DEF Chunk
  <1>9. /\ SubSeq(file, from + 1, to) \in Seq(Item) /\ Len(SubSeq(file, from + 1, to)) = k
        /\ \A i \in 1..k : SubSeq(file, from + 1, to)[i] = file[from + i]
    BY <1>6, <1>7
  <1>10. \A i \in 1..k : from + i \in 1..size
    BY <1>7
  <1>11. \A i \in 1..k : Chunk[i] = <<"byte", f, from + i>>
    BY <1>6, <1>8, <1>9, <1>10, Zenon
  <1>12. k = IF client.left < BodyLen THEN client.left ELSE BodyLen
    BY <1>1, <1>3, <1>4
  <1>13. from = files[f] - client.left
    BY <1>2, <1>3, <1>5
  <1>14. Chunk \in Seq(Item) /\ Len(Chunk) = k
    BY <1>8, <1>9, Zenon
  <1>. QED BY <1>11, <1>12, <1>13, <1>14, Zenon

LEMMA Overwritten ==
    ASSUME NEW buf \in Body, NEW data \in Seq(Item), Len(data) <= BodyLen
    PROVE  /\ Overwrite(buf, data) \in Body
           /\ \A i \in 1..Len(data) : Overwrite(buf, data)[i] = data[i]
  <1>1. PICK n \in Nat : n = BodyLen
    BY RelayAssumption DEF RelayAssumption
  <1>2. PICK m \in Nat : m = Len(data) /\ m <= n
    BY <1>1
  <1>3. buf \in Seq(Item) /\ Len(buf) = n
    BY <1>1 DEF Body
  <1>4. PICK rest \in Seq(Item) : rest = SubSeq(buf, m + 1, n) /\ Len(rest) = n - m
    <2>1. SubSeq(buf, m + 1, n) \in Seq(Item) /\ Len(SubSeq(buf, m + 1, n)) = n - m
      BY <1>2, <1>3, Ending, Zenon
    <2>. QED BY <2>1, Zenon
  <1>5. Overwrite(buf, data) = data \o rest
    BY <1>2, <1>3, <1>4 DEF Overwrite, After
  <1>6. /\ data \o rest \in Seq(Item) /\ Len(data \o rest) = Len(data) + Len(rest)
        /\ \A i \in 1..Len(data) : (data \o rest)[i] = data[i]
    BY Joined, Zenon
  <1>7. Len(data \o rest) = n
    BY <1>2, <1>4, <1>6
  <1>. QED BY <1>1, <1>5, <1>6, <1>7, Zenon DEF Body

LEMMA NextChunk ==
    ASSUME NEW f, f = client.file, f \in DOMAIN files, files[f] \in Nat, f \in Nat,
           client.left \in 1..files[f], client.buf \in Body
    PROVE  LET buf == Overwrite(client.buf, Chunk)
           IN  /\ buf \in Body /\ Carries(buf, f, client.left)
               /\ client.left - Len(Chunk) = IF client.left <= BodyLen THEN 0
                                             ELSE client.left - BodyLen
  <1>1. PICK n \in Nat : n = BodyLen /\ n > 0
    BY RelayAssumption DEF RelayAssumption
  <1>2. PICK left \in Nat : left = client.left /\ left > 0
    OBVIOUS
  <1>3. PICK k \in Nat : k = IF left < n THEN left ELSE n
    OBVIOUS
  <1>4. /\ Chunk \in Seq(Item) /\ Len(Chunk) = k /\ k <= n
        /\ \A i \in 1..k : Chunk[i] = <<"byte", f, files[f] - client.left + i>>
    BY <1>1, <1>2, <1>3, ChunkFacts
  <1>5. PICK buf \in Body : /\ buf = Overwrite(client.buf, Chunk)
                            /\ \A i \in 1..k : buf[i] = Chunk[i]
    BY <1>1, <1>4, Overwritten
  <1>6. \A i \in 1..n : i <= left => i \in 1..k
    BY <1>3
  <1>7. Carries(buf, f, client.left)
    BY <1>1, <1>2, <1>4, <1>5, <1>6, Zenon DEF Carries
  <1>8. left - k = IF left <= n THEN 0 ELSE left - n
    BY <1>3
  <1>. QED BY <1>1, <1>2, <1>4, <1>5, <1>7, <1>8

-----------------------------------------------------------------------------
(* A call, its answer and its end. *)
LEMMA Asks ==
    ASSUME CallsFormed, NEW h \in Host, NEW name, NEW arg, Ask(h, name, arg)
    PROVE  /\ CallsFormed'
           /\ \A g \in Host : g # h => call'[g] = call[g]
           /\ call[h].status = "idle"
           /\ call'[h].status = "asked" /\ call'[h].name = name /\ call'[h].arg = arg
  <1>1. DOMAIN call' = Host /\ \A g \in Host : g # h => call'[g] = call[g]
    BY DEF CallsFormed, Ask
  <1>2. call'[h] = [name |-> name, status |-> "asked", arg |-> arg, value |-> <<>>]
    BY DEF CallsFormed, Ask
  <1>3. CallsFormed'
    BY <1>1, <1>2 DEF CallsFormed
  <1>4. call[h].status = "idle"
    BY DEF Ask, Idle
  <1>. QED BY <1>1, <1>2, <1>3, <1>4

LEMMA Answers ==
    ASSUME CallsFormed, NEW h \in Host, NEW value, Answered(h, value)
    PROVE  /\ CallsFormed'
           /\ \A g \in Host : g # h => call'[g] = call[g]
           /\ call'[h].status = "answered" /\ call'[h].value = value
  <1>1. DOMAIN call' = Host /\ \A g \in Host : g # h => call'[g] = call[g]
    BY DEF CallsFormed, Answered
  <1>2. call'[h] = [name |-> call[h].name, status |-> "answered", arg |-> call[h].arg,
                    value |-> value]
    <2>1. call[h] = [name |-> call[h].name, status |-> call[h].status,
                     arg |-> call[h].arg, value |-> call[h].value]
      BY DEF CallsFormed
    <2>2. call'[h] = [[call[h] EXCEPT !.status = "answered"] EXCEPT !.value = value]
      BY DEF CallsFormed, Answered
    <2>. QED BY <2>1, <2>2
  <1>3. CallsFormed'
    BY <1>1, <1>2 DEF CallsFormed
  <1>. QED BY <1>1, <1>2, <1>3

LEMMA Returns ==
    ASSUME CallsFormed, NEW h \in Host, Back(h)
    PROVE  /\ CallsFormed'
           /\ \A g \in Host : g # h => call'[g] = call[g]
           /\ call[h].status = "answered" /\ call'[h].status = "idle"
  <1>1. DOMAIN call' = Host /\ \A g \in Host : g # h => call'[g] = call[g]
    BY DEF CallsFormed, Back
  <1>2. call'[h] = Idle /\ call[h].status = "answered"
    BY DEF CallsFormed, Back
  <1>3. CallsFormed'
    BY <1>1, <1>2 DEF CallsFormed, Idle
  <1>. QED BY <1>1, <1>2, <1>3 DEF Idle

-----------------------------------------------------------------------------
(* The daemons. *)
LEMMA ServerAnswered ==
    ASSUME CallsFormed, files' = files, server' = server, NEW value, Answered("server", value),
           call["server"].status = "asked", call["server"].name # "RECV",
           NEW f, NEW next, ServerSide(f, next)
    PROVE  ServerSide(f, next)'
  <1>1. call'["server"].status = "answered"
    BY Answers DEF Host
  <1>2. ServerHas(f)'
    BY DEF ServerSide, ServerHas
  <1>3. PICK p \in Places : ServerIn(f, p) /\ ServerCalls(p, next)
    BY DEF ServerSide
  <1>4. ServerIn(f, p)'
    BY <1>3 DEF ServerIn
  <1>5. server.at \in {"SOCKET", "BIND"} /\ next = p
    BY <1>3 DEF ServerCalls
  <1>6. ServerCalls(p, next)'
    BY <1>1, <1>5 DEF ServerCalls
  <1>. QED BY <1>2, <1>4, <1>6 DEF ServerSide

LEMMA ClientAnswered ==
    ASSUME CallsFormed, files' = files, client' = client, NEW value, Answered("client", value),
           call["client"].status = "asked", call["client"].name # "SEND",
           NEW next, ClientSide(next)
    PROVE  ClientSide(next)'
  <1>1. call'["client"].status = "answered"
    BY Answers DEF Host
  <1>2. ClientHas(client.file)'
    BY DEF ClientSide, ClientHas
  <1>3. /\ client.at \in {"SOCKET", "CONNECT"} /\ client.left = files[client.file]
        /\ next = Start(client.file)
    BY DEF ClientSide, ClientIn
  <1>4. ClientIn(client.file, next)'
    BY <1>1, <1>3 DEF ClientIn, Start
  <1>. QED BY <1>2, <1>4 DEF ClientSide

(* A SEND puts the package of the client's place on the wire. *)
LEMMA ClientSent ==
    ASSUME CallsFormed, files \in Seq(Nat \cup {Missing}), files' = files, client' = client,
           NEW value, Answered("client", value),
           call["client"].status = "asked", call["client"].name = "SEND",
           NEW r \in Places, ClientSide(r)
    PROVE  LET b == Fill(call["client"].arg)
           IN  /\ b \in Body /\ Fits(b, r) /\ NextPlace(r) \in Places
               /\ ClientSide(NextPlace(r))'
  <1>. DEFINE c == call["client"]
  <1>1. call'["client"].status = "answered"
    BY Answers DEF Host
  <1>2. ClientHas(client.file)'
    BY DEF ClientSide, ClientHas
  <1>3. PICK f \in Nat : f = client.file
    BY DEF ClientSide, ClientHas
  <1>4. client.at # "done" => f \in DOMAIN files
    BY <1>3 DEF ClientSide, ClientHas
  <1>5. ClientIn(f, r)
    BY <1>3 DEF ClientSide
  <1>6. Start(f) \in Places /\ NamePlace(f) \in Places /\ Start(f + 1) \in Places
        /\ \A n \in Nat : DataPlace(f, n) \in Places
    BY PlacesFacts
  <1>7. CASE client.at = "size"
    <2>1. /\ r = Start(f) /\ c.arg = <<SizeField(files[f])>> /\ client.left = files[f]
      BY <1>5, <1>7 DEF ClientIn
    <2>2. SizeField(files[f]) \in Item
      <3>1. files[f] \in Int
        BY <1>4, <1>7 DEF Missing
      <3>. QED BY <3>1, ItemFacts
    <2>3. Fill(c.arg) \in Body /\ Fill(c.arg)[1] = SizeField(files[f])
      BY <2>1, <2>2, OneItem
    <2>4. Fits(Fill(c.arg), r)
      BY <2>1, <2>3 DEF Fits, Start
    <2>5. NextPlace(r) = NamePlace(f)
      BY <2>1, NextPlaces
    <2>6. ClientIn(f, NamePlace(f))'
      BY <1>1, <1>7, <2>1 DEF ClientIn, NamePlace
    <2>7. (NextPlace(r))' = NextPlace(r)
      BY FitsCarried
    <2>. QED BY <1>2, <1>3, <1>6, <2>3, <2>4, <2>5, <2>6, <2>7 DEF ClientSide
  <1>8. CASE client.at = "name"
    <2>1. /\ r = NamePlace(f) /\ c.arg = <<NameField(f)>> /\ client.left = files[f]
          /\ client.buf \in Body
      BY <1>5, <1>8 DEF ClientIn
    <2>2. NameField(f) \in Item
      BY ItemFacts
    <2>3. Fill(c.arg) \in Body /\ Fill(c.arg)[1] = NameField(f)
      BY <2>1, <2>2, OneItem
    <2>4. Fits(Fill(c.arg), r)
      BY <2>1, <2>3 DEF Fits, NamePlace
    <2>5. NextPlace(r) = AfterName(f)
      BY <2>1, NextPlaces
    <2>6. AfterName(f) \in Places
      BY <1>4, <1>6, <1>8 DEF AfterName
    <2>7. ClientIn(f, AfterName(f))'
      BY <1>1, <1>8, <2>1 DEF ClientIn, AfterName, Start, DataPlace, Body
    <2>8. (NextPlace(r))' = NextPlace(r)
      BY FitsCarried
    <2>9. (AfterName(f))' = AfterName(f)
      BY DEF AfterName, Start, DataPlace
    <2>. QED BY <1>2, <1>3, <1>6, <2>3, <2>4, <2>5, <2>6, <2>7, <2>8, <2>9 DEF ClientSide
  <1>9. CASE client.at = "data"
    <2>1. /\ files[f] # Missing /\ client.buf \in Body /\ client.left \in 0..files[f]
          /\ Carries(c.arg, f, r.left) /\ r = DataPlace(f, r.left)
          /\ client.left = IF r.left <= BodyLen THEN 0 ELSE r.left - BodyLen
      BY <1>5, <1>9 DEF ClientIn
    <2>2. PICK n \in Nat : n = r.left
      BY DEF Places
    <2>3. PICK m \in Nat : m = BodyLen
      BY RelayAssumption DEF RelayAssumption
    <2>4. Fill(c.arg) \in Body /\ Fits(Fill(c.arg), r)
      BY <2>1, FillBody DEF Fits, DataPlace
    <2>5. NextPlace(r) = AfterData(f, n)
      BY <2>1, <2>2, NextPlaces
    <2>6. AfterData(f, n) \in Places
      BY <1>6, <2>2, <2>3 DEF AfterData
    <2>7. AfterData(f, n) = IF client.left = 0 THEN Start(f + 1) ELSE DataPlace(f, client.left)
      BY <2>1, <2>2, <2>3 DEF AfterData
    <2>8. ClientIn(f, AfterData(f, n))'
      BY <1>1, <1>9, <2>1, <2>7 DEF ClientIn, Start, DataPlace, AfterData
    <2>9. (NextPlace(r))' = NextPlace(r)
      BY FitsCarried
    <2>10. (AfterData(f, n))' = AfterData(f, n)
      BY DEF AfterData
    <2>. QED BY <1>2, <1>3, <1>6, <2>4, <2>5, <2>6, <2>8, <2>9, <2>10 DEF ClientSide
  <1>10. client.at \in {"size", "name", "data"}
    BY <1>5 DEF ClientIn
  <1>. QED BY <1>7, <1>8, <1>9, <1>10

(* What fits a place is known from the place. *)
LEMMA FitsPlace ==
    ASSUME NEW b, NEW f
    PROVE  /\ Fits(b, Start(f)) <=> b[1] = SizeField(files[f])
           /\ Fits(b, NamePlace(f)) <=> b[1] = NameField(f)
           /\ \A n : Fits(b, DataPlace(f, n)) <=> Carries(b, f, n)
  BY DEF Fits, Start, NamePlace, DataPlace

(* A RECV takes the package of the server's place. *)
LEMMA ServerReceived ==
    ASSUME CallsFormed, files' = files, server' = server,
           call["server"].status = "asked", call["server"].name = "RECV",
           NEW b \in Body, Answered("server", SubSeq(b, 1, call["server"].arg[1])),
           NEW f, NEW q \in Places, ServerSide(f, q), Fits(b, q)
    PROVE  ServerSide(f, NextPlace(q))'
  <1>. DEFINE len == call["server"].arg[1]
  <1>1. /\ call'["server"].status = "answered"
        /\ call'["server"].value = SubSeq(b, 1, len)
    BY Answers DEF Host
  <1>2. ServerHas(f)'
    BY DEF ServerSide, ServerHas
  <1>3. PICK p \in Places : ServerIn(f, p) /\ ServerCalls(p, q)
    BY DEF ServerSide
  <1>4. p = q /\ server.at \notin {"SOCKET", "BIND"} /\ len = Wanted
    BY <1>3 DEF ServerCalls
  <1>5. ServerIn(f, q)
    BY <1>3, <1>4
  <1>6. ServerIn(f, q)'
    BY <1>5 DEF ServerIn
  <1>7. PICK n \in Nat : n = BodyLen /\ n > 0
    BY RelayAssumption DEF RelayAssumption
  <1>8. b \in Seq(Item) /\ Len(b) = n
    BY <1>7 DEF Body
  <1>9. Fits(SubSeq(b, 1, len), q)
    <2>1. CASE server.at = "data"
      <3>1. len = n
        BY <1>4, <1>7, <2>1 DEF Wanted
      <3>2. SubSeq(b, 1, n) = b
        BY <1>8
      <3>. QED BY <3>1, <3>2
    <2>2. CASE server.at # "data"
      <3>1. len = 1
        BY <1>4, <2>2 DEF Wanted
      <3>2. SubSeq(b, 1, 1)[1] = b[1]
        BY <1>7, <1>8
      <3>3. q = Start(f) \/ q = NamePlace(f)
        BY <1>5, <2>2 DEF ServerIn
      <3>4. Fits(SubSeq(b, 1, 1), q) <=> Fits(b, q)
        <4>1. CASE q = Start(f)
          BY <3>2, <4>1, FitsPlace
        <4>2. CASE q = NamePlace(f)
          BY <3>2, <4>2, FitsPlace
        <4>. QED BY <3>3, <4>1, <4>2
      <3>. QED BY <3>1, <3>4
    <2>. QED BY <2>1, <2>2
  <1>10. Fits(call["server"].value, q)'
    <2>1. Fits(call'["server"].value, q)
      BY <1>1, <1>9
    <2>. QED BY <2>1 DEF Fits, Carries, SizeField, Start, NamePlace, DataPlace, NameField
  <1>11. ServerCalls(q, NextPlace(q))'
    BY <1>1, <1>4, <1>10 DEF ServerCalls
  <1>. QED BY <1>2, <1>6, <1>11 DEF ServerSide

LEMMA DaemonFlow ==
    ASSUME CallsFormed, files \in Seq(Nat \cup {Missing}), NEW h \in Host, Daemon(h),
           NEW f, Flow(f)
    PROVE  Flow(f)' /\ CallsFormed'
  <1>1. files' = files /\ client' = client /\ server' = server
    BY DEF Daemon
  <1>2. PICK q \in Places, m \in Places, r \in Places :
           /\ ServerSide(f, q) /\ ClientSide(r)
           /\ Chain(arrived, q, m) /\ Chain(wire, m, r)
    BY Zenon DEF Flow
  <1>3. wire \in Seq(Body) /\ arrived \in Seq(Body)
    BY Zenon DEF Flow
  <1>4. ASSUME ServeSOCKET(h) \/ ServeBIND(h) \/ ServeCONNECT(h)
        PROVE  Flow(f)' /\ CallsFormed'
    <2>1. /\ call[h].status = "asked" /\ call[h].name \notin {"RECV", "SEND"}
          /\ Answered(h, <<>>) /\ wire' = wire /\ arrived' = arrived
      BY <1>4 DEF ServeSOCKET, ServeBIND, ServeCONNECT, Serving
    <2>2. CallsFormed' /\ \A g \in Host : g # h => call'[g] = call[g]
      BY <2>1, Answers
    <2>3. CASE h = "server"
      <3>1. call'["client"] = call["client"]
        BY <2>2, <2>3 DEF Host
      <3>2. \A x \in Places : ClientSide(x) => ClientSide(x)'
        BY <1>1, <3>1, ClientStays
      <3>3. \A x \in Places : ServerSide(f, x) => ServerSide(f, x)'
        BY <1>1, <2>1, <2>3, ServerAnswered
      <3>. QED BY <1>1, <2>1, <2>2, <3>2, <3>3, FlowStays
    <2>4. CASE h = "client"
      <3>1. call'["server"] = call["server"]
        BY <2>2, <2>4 DEF Host
      <3>2. \A x \in Places : ServerSide(f, x) => ServerSide(f, x)'
        BY <1>1, <3>1, ServerStays
      <3>3. \A x \in Places : ClientSide(x) => ClientSide(x)'
        BY <1>1, <2>1, <2>4, ClientAnswered
      <3>. QED BY <1>1, <2>1, <2>2, <3>2, <3>3, FlowStays
    <2>. QED BY <2>3, <2>4 DEF Host
  <1>5. ASSUME ServeSEND(h)
        PROVE  Flow(f)' /\ CallsFormed'
    <2>1. /\ call[h].status = "asked" /\ call[h].name = "SEND"
          /\ Answered(h, <<>>) /\ wire' = Append(wire, Fill(call[h].arg)) /\ arrived' = arrived
      BY <1>5 DEF ServeSEND, Serving
    <2>2. CallsFormed' /\ \A g \in Host : g # h => call'[g] = call[g]
      BY <2>1, Answers
    <2>3. h = "client"
      <3>1. SUFFICES ASSUME h = "server" PROVE FALSE
        BY DEF Host
      <3>. QED BY <1>2, <2>1, <3>1 DEF ServerSide, ServerCalls
    <2>4. /\ Fill(call[h].arg) \in Body /\ Fits(Fill(call[h].arg), r) /\ NextPlace(r) \in Places
          /\ ClientSide(NextPlace(r))'
      BY <1>1, <1>2, <2>1, <2>3, ClientSent
    <2>5. PICK x \in Places : x = NextPlace(r)
      BY <2>4
    <2>6. wire' \in Seq(Body) /\ Chain(wire', m, x)
      BY <1>2, <1>3, <2>1, <2>4, <2>5, ChainAppend
    <2>7. Chain(wire, m, x)'
      BY <1>1, <2>6, ChainCarried
    <2>8. Chain(arrived, q, m)'
      <3>1. Chain(arrived', q, m)
        BY <1>2, <2>1
      <3>. QED BY <1>1, <3>1, ChainCarried
    <2>9. ServerSide(f, q)'
      <3>1. call'["server"] = call["server"]
        BY <2>2, <2>3 DEF Host
      <3>. QED BY <1>1, <1>2, <3>1, ServerStays
    <2>10. ClientSide(x)'
      BY <1>1, <2>4, <2>5, FitsCarried
    <2>11. (wire \in Seq(Body) /\ arrived \in Seq(Body))'
      BY <1>3, <2>1, <2>6
    <2>. QED BY <2>2, <2>7, <2>8, <2>9, <2>10, <2>11, Zenon DEF Flow
  <1>6. ASSUME ServeRECV(h)
        PROVE  Flow(f)' /\ CallsFormed'
    <2>1. /\ call[h].status = "asked" /\ call[h].name = "RECV" /\ arrived # <<>>
          /\ arrived' = Tail(arrived) /\ wire' = wire
          /\ Answered(h, SubSeq(Head(arrived), 1, call[h].arg[1]))
      BY <1>6 DEF ServeRECV, Serving, Remaining
    <2>2. CallsFormed' /\ \A g \in Host : g # h => call'[g] = call[g]
      BY <2>1, Answers
    <2>3. h = "server"
      <3>1. SUFFICES ASSUME h = "client" PROVE FALSE
        BY DEF Host
      <3>2. ClientIn(client.file, r)
        BY <1>2 DEF ClientSide
      <3>. QED BY <2>1, <3>1, <3>2 DEF ClientIn
    <2>4. /\ Head(arrived) \in Body /\ Tail(arrived) \in Seq(Body)
          /\ Fits(Head(arrived), q) /\ NextPlace(q) \in Places
          /\ Chain(Tail(arrived), NextPlace(q), m)
      BY <1>2, <1>3, <2>1, ChainHead
    <2>5. PICK x \in Places : x = NextPlace(q)
      BY <2>4
    <2>6. ServerSide(f, x)'
      <3>1. ServerSide(f, NextPlace(q))'
        BY <1>1, <1>2, <2>1, <2>3, <2>4, ServerReceived
      <3>. QED BY <1>1, <2>5, <3>1, FitsCarried
    <2>7. ClientSide(r)'
      <3>1. call'["client"] = call["client"]
        BY <2>2, <2>3 DEF Host
      <3>. QED BY <1>1, <1>2, <3>1, ClientStays
    <2>8. (wire \in Seq(Body) /\ arrived \in Seq(Body))'
      BY <1>3, <2>1, <2>4
    <2>9. Chain(arrived, x, m)'
      <3>1. Chain(arrived', x, m)
        BY <2>1, <2>4, <2>5
      <3>. QED BY <1>1, <3>1, ChainCarried
    <2>10. Chain(wire, m, r)'
      <3>1. Chain(wire', m, r)
        BY <1>2, <2>1
      <3>. QED BY <1>1, <3>1, ChainCarried
    <2>. QED BY <2>2, <2>6, <2>7, <2>8, <2>9, <2>10, Zenon DEF Flow
  <1>. QED BY <1>4, <1>5, <1>6 DEF Daemon

-----------------------------------------------------------------------------
(* troll, when it neither loses nor moves a package. *)
LEMMA DeliverFlow ==
    ASSUME Deliver, faults \in Nat, faults' = 0, NEW f, Flow(f)
    PROVE  Flow(f)'
  <1>1. /\ wire # <<>> /\ wire' = Tail(wire) /\ arrived' = Append(arrived, Head(wire))
        /\ files' = files /\ client' = client /\ server' = server /\ call' = call
    BY DEF Deliver
  <1>2. PICK q \in Places, m \in Places, r \in Places :
           /\ ServerSide(f, q) /\ ClientSide(r)
           /\ Chain(arrived, q, m) /\ Chain(wire, m, r)
    BY Zenon DEF Flow
  <1>3. wire \in Seq(Body) /\ arrived \in Seq(Body)
    BY Zenon DEF Flow
  <1>4. /\ Head(wire) \in Body /\ Tail(wire) \in Seq(Body)
        /\ Fits(Head(wire), m) /\ NextPlace(m) \in Places
        /\ Chain(Tail(wire), NextPlace(m), r)
    BY <1>1, <1>2, <1>3, ChainHead
  <1>5. arrived' \in Seq(Body) /\ Chain(arrived', q, NextPlace(m))
    BY <1>1, <1>2, <1>3, <1>4, ChainAppend
  <1>6. PICK x \in Places : x = NextPlace(m)
    BY <1>4
  <1>7. (Chain(arrived, q, x) /\ Chain(wire, x, r))'
    <2>1. Chain(arrived', q, x) /\ Chain(wire', x, r)
      BY <1>1, <1>4, <1>5, <1>6
    <2>2. files' = files
      BY <1>1
    <2>3. Chain(arrived, q, x)'
      BY <2>1, <2>2, ChainCarried
    <2>4. Chain(wire, x, r)'
      BY <2>1, <2>2, ChainCarried
    <2>. QED BY <2>3, <2>4
  <1>8. ServerSide(f, q)'
    BY <1>1, <1>2, ServerStays
  <1>9. ClientSide(r)'
    BY <1>1, <1>2, ClientStays
  <1>10. (wire \in Seq(Body) /\ arrived \in Seq(Body))'
    BY <1>1, <1>4, <1>5
  <1>. QED BY <1>7, <1>8, <1>9, <1>10, Zenon DEF Flow

-----------------------------------------------------------------------------
(* ftpc. *)
LEMMA ClientCallSide ==
    ASSUME CallsFormed, files \in Seq(Nat \cup {Missing}), ClientCall, NEW next \in Places, ClientSide(next)
    PROVE  ClientSide(next)' /\ CallsFormed' /\ call'["server"] = call["server"]
  <1>. DEFINE c == call["client"]
  <1>1. /\ files' = files
        /\ client = [file |-> client.file, at |-> client.at, left |-> client.left, buf |-> client.buf]
        /\ client.file \in Nat \ {0} /\ (client.at # "done" => client.file \in DOMAIN files)
    BY DEF ClientCall, ClientSide, ClientHas
  <1>2. PICK f \in Nat : f = client.file
    BY <1>1
  <1>3. ClientIn(f, next)
    BY <1>2 DEF ClientSide
  <1>4. ASSUME NEW name, NEW arg, Ask("client", name, arg)
        PROVE  /\ CallsFormed' /\ call'["server"] = call["server"] /\ c.status = "idle"
               /\ (c.status = "asked" /\ c.name = name /\ c.arg = arg)'
    BY <1>4, Asks DEF Host
  <1>5. ASSUME NEW name, Ask("client", name, <<>>), client' = client, name \in {"SOCKET", "CONNECT"},
               client.at = name
        PROVE  ClientSide(next)' /\ CallsFormed' /\ call'["server"] = call["server"]
    <2>1. /\ CallsFormed' /\ call'["server"] = call["server"]
          /\ (c.status = "asked" /\ c.name = name)'
      BY <1>4, <1>5
    <2>2. client.left = files[f] /\ next = Start(f)
      BY <1>3, <1>5 DEF ClientIn
    <2>3. ClientIn(f, next)'
      BY <1>1, <1>5, <2>1, <2>2 DEF ClientIn, Start
    <2>4. ClientHas(f)'
      BY <1>1, <1>2, <1>5 DEF ClientHas
    <2>. QED BY <1>2, <1>5, <2>1, <2>3, <2>4 DEF ClientSide
  <1>6. ASSUME client.at = "size", CallSEND("client", <<SizeField(files[client.file])>>),
               client' = client
        PROVE  ClientSide(next)' /\ CallsFormed' /\ call'["server"] = call["server"]
    <2>1. /\ CallsFormed' /\ call'["server"] = call["server"] /\ c.status = "idle"
          /\ (c.status = "asked" /\ c.name = "SEND" /\ c.arg = <<SizeField(files[f])>>)'
      BY <1>1, <1>2, <1>4, <1>6 DEF CallSEND, SizeField
    <2>2. client.left = files[f] /\ next = Start(f)
      BY <1>3, <1>6, <2>1 DEF ClientIn
    <2>3. ClientIn(f, next)'
      BY <1>1, <1>6, <2>1, <2>2 DEF ClientIn, Start
    <2>4. ClientHas(f)'
      BY <1>1, <1>2, <1>6 DEF ClientHas
    <2>. QED BY <1>2, <1>6, <2>1, <2>3, <2>4 DEF ClientSide
  <1>7. ASSUME client.at = "name", CallSEND("client", <<NameField(client.file)>>),
               client' = [client EXCEPT !.buf = Fill(<<NameField(client.file)>>)]
        PROVE  ClientSide(next)' /\ CallsFormed' /\ call'["server"] = call["server"]
    <2>1. /\ CallsFormed' /\ call'["server"] = call["server"] /\ c.status = "idle"
          /\ (c.status = "asked" /\ c.name = "SEND" /\ c.arg = <<NameField(f)>>)'
      BY <1>1, <1>2, <1>4, <1>7 DEF CallSEND, NameField
    <2>2. client.left = files[f] /\ next = NamePlace(f)
      BY <1>3, <1>7, <2>1 DEF ClientIn
    <2>3. Fill(<<NameField(f)>>) \in Body
      BY ItemFacts, OneItem
    <2>4. client' = [file |-> f, at |-> "name", left |-> client.left,
                     buf |-> Fill(<<NameField(f)>>)]
      BY <1>1, <1>2, <1>7
    <2>5. client'.file = f /\ client'.at = "name" /\ client'.left = client.left
          /\ client'.buf = Fill(<<NameField(f)>>)
      BY <2>4
    <2>6. ClientIn(f, next)'
      BY <1>1, <2>1, <2>2, <2>3, <2>5 DEF ClientIn, NamePlace, Body
    <2>7. ClientHas(f)'
      BY <1>1, <1>2, <1>7, <2>4, <2>5 DEF ClientHas
    <2>. QED BY <2>1, <2>5, <2>6, <2>7 DEF ClientSide
  <1>8. ASSUME client.at = "data", files[client.file] # Missing,
               CallSEND("client", Overwrite(client.buf, Chunk)),
               client' = [client EXCEPT !.buf = Overwrite(client.buf, Chunk),
                                        !.left = @ - Len(Chunk)]
        PROVE  ClientSide(next)' /\ CallsFormed' /\ call'["server"] = call["server"]
    <2>1. PICK buf : buf = Overwrite(client.buf, Chunk)
      OBVIOUS
    <2>2. /\ CallsFormed' /\ call'["server"] = call["server"] /\ c.status = "idle"
          /\ (c.status = "asked" /\ c.name = "SEND")' /\ call'["client"].arg = buf
      BY <1>4, <1>8, <2>1 DEF CallSEND
    <2>3. /\ client.buf \in Body /\ client.left \in 0..files[f] /\ client.left > 0
          /\ next = DataPlace(f, client.left)
      BY <1>2, <1>3, <1>8, <2>2 DEF ClientIn
    <2>4. files[f] \in Nat /\ f \in DOMAIN files
      BY <1>1, <1>2, <1>8
    <2>5. PICK left \in Nat : left = client.left /\ left \in 1..files[f]
      BY <2>3, <2>4
    <2>6. /\ buf \in Body /\ Carries(buf, f, left)
          /\ left - Len(Chunk) = IF left <= BodyLen THEN 0 ELSE left - BodyLen
      BY <1>2, <2>1, <2>3, <2>4, <2>5, NextChunk
    <2>7. PICK after : after = left - Len(Chunk)
      OBVIOUS
    <2>8. after \in 0..files[f] /\ after = IF left <= BodyLen THEN 0 ELSE left - BodyLen
      <3>1. PICK n \in Nat : n = BodyLen
        BY RelayAssumption DEF RelayAssumption
      <3>. QED BY <2>4, <2>5, <2>6, <2>7, <3>1
    <2>9. client' = [file |-> f, at |-> "data", left |-> after, buf |-> buf]
      BY <1>1, <1>2, <1>8, <2>1, <2>5, <2>7
    <2>10. client'.file = f /\ client'.at = "data" /\ client'.left = after /\ client'.buf = buf
      BY <2>9
    <2>11. next.left = left /\ next = DataPlace(f, next.left)
      BY <2>3, <2>5 DEF DataPlace
    <2>12. Carries(buf, f, next.left)'
      BY <1>1, <2>6, <2>11 DEF Carries, Body
    <2>13. (buf \in Body)'
      BY <2>6 DEF Body
    <2>14. ClientIn(f, next)'
      <3>1. /\ (c.status = "asked" /\ c.name = "SEND" /\ Carries(c.arg, f, next.left))'
            /\ (next = DataPlace(f, next.left))'
            /\ (client.left = IF next.left <= BodyLen THEN 0 ELSE next.left - BodyLen)'
        BY <2>2, <2>8, <2>10, <2>11, <2>12 DEF DataPlace
      <3>2. (client.at = "data" /\ files[f] # Missing /\ client.buf \in Body
             /\ client.left \in 0..files[f])'
        BY <1>1, <1>2, <1>8, <2>8, <2>10, <2>13
      <3>. QED BY <3>1, <3>2 DEF ClientIn
    <2>15. ClientHas(f)'
      BY <1>1, <1>2, <2>4, <2>9, <2>10 DEF ClientHas
    <2>. QED BY <2>2, <2>10, <2>14, <2>15 DEF ClientSide
  <1>. QED
    BY <1>5, <1>6, <1>7, <1>8 DEF ClientCall, CallSOCKET, CallCONNECT

(* The next run of ftpc begins where the file ends. *)
LEMMA RunSide ==
    ASSUME files \in Seq(Nat \cup {Missing}), files' = files, NEW f \in Nat,
           client' = Run(f + 1), call'["client"].status = "idle"
    PROVE  ClientSide(Start(f + 1))'
  <1>1. PICK g \in Nat \ {0} : g = f + 1
    OBVIOUS
  <1>2. PICK at, left, buf : client' = [file |-> g, at |-> at, left |-> left, buf |-> buf]
          /\ at = (IF g <= Len(files) THEN "SOCKET" ELSE "done")
          /\ left = (IF g <= Len(files) THEN files[g] ELSE 0)
    BY <1>1 DEF Run
  <1>3. client'.file = g /\ client'.at = at /\ client'.left = left /\ client'.buf = buf
    BY <1>2
  <1>4. at = "SOCKET" => g \in DOMAIN files /\ left = files[g]
    BY <1>2
  <1>5. at \in {"SOCKET", "done"}
    BY <1>2
  <1>6. ClientHas(g)'
    BY <1>2, <1>3, <1>4, <1>5 DEF ClientHas
  <1>7. ClientIn(g, Start(g))'
    BY <1>3, <1>4, <1>5 DEF ClientIn, Start
  <1>. QED BY <1>1, <1>3, <1>6, <1>7 DEF ClientSide, Start

LEMMA CrashSide ==
    ASSUME files \in Seq(Nat \cup {Missing}), Crash, NEW next, ClientSide(next)
    PROVE  ClientSide(next)'
  <1>1. /\ client.at = "data" /\ files[client.file] = Missing /\ client' = Run(client.file + 1)
        /\ files' = files /\ call' = call
    BY DEF Crash
  <1>2. client.file \in Nat
    BY DEF ClientSide, ClientHas
  <1>3. next = Start(client.file + 1) /\ call["client"].status = "idle"
    BY <1>1 DEF ClientSide, ClientIn
  <1>. QED BY <1>1, <1>2, <1>3, RunSide

LEMMA ClientReturnSide ==
    ASSUME CallsFormed, files \in Seq(Nat \cup {Missing}), ClientReturn,
           NEW next \in Places, ClientSide(next)
    PROVE  ClientSide(next)' /\ CallsFormed' /\ call'["server"] = call["server"]
  <1>. DEFINE c == call["client"]
  <1>1. /\ CallsFormed' /\ call'["server"] = call["server"]
        /\ c.status = "answered" /\ call'["client"].status = "idle" /\ files' = files
    BY Returns DEF ClientReturn, Host
  <1>2. PICK f \in Nat \ {0} :
          /\ f = client.file
          /\ client = [file |-> f, at |-> client.at, left |-> client.left, buf |-> client.buf]
          /\ client.at # "done" => f \in DOMAIN files
    BY DEF ClientSide, ClientHas
  <1>3. ClientIn(f, next)
    BY <1>2 DEF ClientSide
  <1>4. client.at \in {"SOCKET", "CONNECT", "size", "name", "data"}
    BY <1>1, <1>3 DEF ClientIn
  <1>5. f \in DOMAIN files /\ files[f] \in Nat \cup {Missing}
    BY <1>2, <1>4
  <1>6. ASSUME NEW at \in {"CONNECT", "size", "name", "data"}, client' = [client EXCEPT !.at = at]
        PROVE  /\ client'.file = f /\ client'.at = at /\ client'.left = client.left
               /\ client'.buf = client.buf /\ ClientHas(f)'
    <2>1. client' = [file |-> f, at |-> at, left |-> client.left, buf |-> client.buf]
      BY <1>2, <1>6
    <2>2. /\ client'.file = f /\ client'.at = at /\ client'.left = client.left
          /\ client'.buf = client.buf
      BY <2>1
    <2>. QED BY <1>1, <1>2, <1>5, <2>1, <2>2 DEF ClientHas
  <1>7. CASE client.at = "SOCKET"
    <2>1. client' = [client EXCEPT !.at = "CONNECT"]
      BY <1>7 DEF ClientReturn
    <2>2. client.left = files[f] /\ next = Start(f)
      BY <1>3, <1>7 DEF ClientIn
    <2>3. ClientIn(f, next)'
      BY <1>1, <1>6, <2>1, <2>2 DEF ClientIn, Start
    <2>. QED BY <1>1, <1>6, <2>1, <2>3 DEF ClientSide
  <1>8. CASE client.at = "CONNECT"
    <2>1. client' = [client EXCEPT !.at = "size"]
      BY <1>8 DEF ClientReturn
    <2>2. client.left = files[f] /\ next = Start(f)
      BY <1>3, <1>8 DEF ClientIn
    <2>3. ClientIn(f, next)'
      BY <1>1, <1>6, <2>1, <2>2 DEF ClientIn, Start
    <2>. QED BY <1>1, <1>6, <2>1, <2>3 DEF ClientSide
  <1>9. CASE client.at = "size"
    <2>1. client' = [client EXCEPT !.at = "name"]
      BY <1>9 DEF ClientReturn
    <2>2. client.left = files[f] /\ next = NamePlace(f)
      BY <1>1, <1>3, <1>9 DEF ClientIn
    <2>3. ClientIn(f, next)'
      BY <1>1, <1>6, <2>1, <2>2 DEF ClientIn, NamePlace
    <2>. QED BY <1>1, <1>6, <2>1, <2>3 DEF ClientSide
  <1>10. CASE client.at = "name"
    <2>1. client.left = files[f] /\ next = AfterName(f) /\ client.buf \in Body
      BY <1>1, <1>3, <1>10 DEF ClientIn
    <2>2. CASE client.left = 0
      <3>1. client' = Run(f + 1)
        BY <1>2, <1>10, <2>2 DEF ClientReturn
      <3>2. next = Start(f + 1)
        BY <2>1, <2>2 DEF AfterName
      <3>. QED BY <1>1, <3>1, <3>2, RunSide
    <2>3. CASE client.left # 0
      <3>1. client' = [client EXCEPT !.at = "data"]
        BY <1>10, <2>3 DEF ClientReturn
      <3>2. /\ client'.file = f /\ client'.at = "data" /\ client'.left = files[f]
            /\ client'.buf \in Body /\ ClientHas(f)'
        BY <1>6, <2>1, <3>1
      <3>3. CASE files[f] = Missing
        <4>1. next = Start(f + 1)
          BY <2>1, <3>3 DEF AfterName
        <4>. QED BY <1>1, <3>2, <3>3, <4>1 DEF ClientSide, ClientIn, Start
      <3>4. CASE files[f] # Missing
        <4>1. next = DataPlace(f, files[f]) /\ files[f] \in 0..files[f] /\ files[f] > 0
          BY <1>5, <2>1, <2>3, <3>4 DEF AfterName
        <4>2. ClientIn(f, next)'
          BY <1>1, <3>2, <3>4, <4>1 DEF ClientIn, DataPlace, Body
        <4>. QED BY <1>1, <3>2, <4>2 DEF ClientSide
      <3>. QED BY <3>3, <3>4
    <2>. QED BY <2>2, <2>3
  <1>11. CASE client.at = "data"
    <2>1. /\ files[f] # Missing /\ client.buf \in Body /\ client.left \in 0..files[f]
          /\ next = IF client.left = 0 THEN Start(f + 1) ELSE DataPlace(f, client.left)
      BY <1>1, <1>3, <1>11 DEF ClientIn
    <2>2. CASE client.left = 0
      <3>1. client' = Run(f + 1)
        BY <1>2, <1>11, <2>2 DEF ClientReturn
      <3>. QED BY <1>1, <2>1, <2>2, <3>1, RunSide
    <2>3. CASE client.left # 0
      <3>1. client' = [client EXCEPT !.at = "data"]
        BY <1>11, <2>3 DEF ClientReturn
      <3>2. /\ client'.file = f /\ client'.at = "data" /\ client'.left = client.left
            /\ client'.buf \in Body /\ ClientHas(f)'
        BY <1>6, <2>1, <3>1
      <3>3. client.left > 0
        BY <1>5, <2>1, <2>3
      <3>4. ClientIn(f, next)'
        BY <1>1, <2>1, <2>3, <3>2, <3>3 DEF ClientIn, DataPlace, Body
      <3>. QED BY <1>1, <3>2, <3>4 DEF ClientSide
    <2>. QED BY <2>2, <2>3
  <1>. QED BY <1>4, <1>7, <1>8, <1>9, <1>10, <1>11

-----------------------------------------------------------------------------
(* ftps. *)
LEMMA ServerCallSide ==
    ASSUME CallsFormed, ServerCall, NEW f, NEW next, ServerSide(f, next)
    PROVE  ServerSide(f, next)' /\ CallsFormed' /\ call'["client"] = call["client"]
  <1>1. PICK p \in Places : ServerIn(f, p) /\ ServerCalls(p, next)
    BY DEF ServerSide
  <1>2. /\ files' = files /\ server' = server
        /\ server.at \in {"SOCKET", "BIND", "size", "name", "data"}
        /\ IF server.at \in {"SOCKET", "BIND"} THEN Ask("server", server.at, <<>>)
           ELSE Ask("server", "RECV", <<Wanted>>)
    BY DEF ServerCall, CallSOCKET, CallBIND, CallRECV, Wanted
  <1>3. /\ CallsFormed' /\ call'["client"] = call["client"]
        /\ call["server"].status = "idle" /\ call'["server"].status = "asked"
        /\ IF server.at \in {"SOCKET", "BIND"} THEN call'["server"].name = server.at
           ELSE call'["server"].name = "RECV" /\ call'["server"].arg = <<Wanted>>
    BY <1>2, Asks DEF Host
  <1>4. ServerHas(f)'
    BY <1>2 DEF ServerSide, ServerHas
  <1>5. ServerIn(f, p)'
    BY <1>1, <1>2 DEF ServerIn
  <1>6. next = p
    BY <1>1, <1>3 DEF ServerCalls
  <1>7. ServerCalls(p, next)'
    BY <1>2, <1>3, <1>6 DEF ServerCalls, Wanted
  <1>. QED BY <1>3, <1>4, <1>5, <1>7 DEF ServerSide

(* Ftps at a place of file f, with no call. *)
LEMMA ServerAt ==
    ASSUME NEW f, NEW p \in Places, ServerHas(f), ServerIn(f, p), call["server"].status = "idle"
    PROVE  ServerSide(f, p)
  BY DEF ServerSide, ServerCalls

LEMMA AcceptingSide ==
    ASSUME server' = Accepting, call'["server"].status = "idle", NEW f \in Nat
    PROVE  ServerSide(f, Start(f))'
  <1>1. /\ server' = [at |-> "size", left |-> 0, name |-> Junk, content |-> <<>>]
        /\ server'.at = "size" /\ server'.left = 0 /\ server'.name = Junk
        /\ server'.content = <<>>
    BY DEF Accepting
  <1>2. <<>> \in Seq(Item) /\ Len(<<>>) = 0 /\ 1..0 = {}
    OBVIOUS
  <1>3. ServerHas(f)'
    BY <1>1, <1>2 DEF ServerHas, Item, Junk
  <1>4. ServerIn(f, Start(f))'
    BY <1>1 DEF ServerIn, Start
  <1>5. Start(f) \in Places
    BY PlacesFacts
  <1>. QED BY <1>3, <1>4, <1>5 DEF ServerSide, ServerCalls, Start, Places

(* What ftps has is the file when all of it is there. *)
LEMMA Complete ==
    ASSUME NEW f \in Nat, files[f] \in Nat, NEW content \in Seq(Item), Len(content) = files[f],
           \A i \in 1..Len(content) : content[i] = <<"byte", f, i>>
    PROVE  content = Content(f)
  <1>1. PICK n \in Nat : n = files[f]
    OBVIOUS
  <1>2. DOMAIN content = 1..n /\ content = [i \in DOMAIN content |-> content[i]]
    BY <1>1
  <1>3. content = [i \in 1..n |-> <<"byte", f, i>>]
    BY <1>1, <1>2
  <1>. QED BY <1>1, <1>3 DEF Content

(* ftps takes the bytes of a package that belong to the file. *)
LEMMA Grown ==
    ASSUME NEW f, NEW left, NEW value, Carries(value, f, left), left = server.left,
           ServerHas(f), server.at = "data"
    PROVE  LET n == Kept(value)
               content == server.content \o SubSeq(value, 1, n)
           IN  /\ left - n \in 0..files[f]
               /\ left - n = IF left <= BodyLen THEN 0 ELSE left - BodyLen
               /\ content \in Seq(Item) /\ Len(content) = files[f] - (left - n)
               /\ \A i \in 1..Len(content) : content[i] = <<"byte", f, i>>
  <1>1. PICK len \in Nat : len = BodyLen
    BY RelayAssumption DEF RelayAssumption
  <1>2. /\ value \in Seq(Item) /\ Len(value) = len /\ files[f] \in Nat /\ left \in 1..files[f]
        /\ \A i \in 1..len : i <= left => value[i] = <<"byte", f, files[f] - left + i>>
    BY <1>1 DEF Carries, Body
  <1>3. PICK size \in Nat : size = files[f]
    BY <1>2
  <1>4. PICK l \in 1..size : l = left
    BY <1>2, <1>3
  <1>5. PICK n \in Nat : n = Kept(value) /\ n = (IF len > l THEN l ELSE len) /\ n <= len /\ n <= l
    <2>1. Kept(value) = IF len > l THEN l ELSE len
      BY <1>2, <1>4 DEF Kept
    <2>. QED BY <1>4, <2>1
  <1>6. PICK m \in Nat : m = size - l
    BY <1>4
  <1>7. PICK old \in Seq(Item) : /\ old = server.content /\ Len(old) = m
                                 /\ \A i \in 1..m : old[i] = <<"byte", f, i>>
    BY <1>3, <1>4, <1>6 DEF ServerHas
  <1>8. PICK part \in Seq(Item) : /\ part = SubSeq(value, 1, n) /\ Len(part) = n
                                  /\ \A i \in 1..n : part[i] = value[i]
    <2>1. /\ SubSeq(value, 1, n) \in Seq(Item) /\ Len(SubSeq(value, 1, n)) = n
          /\ \A i \in 1..n : SubSeq(value, 1, n)[i] = value[i]
      BY <1>2, <1>5
    <2>. QED BY <2>1
  <1>9. PICK content : content = old \o part
    OBVIOUS
  <1>10. /\ content \in Seq(Item) /\ Len(content) = m + n
         /\ \A i \in 1..m : content[i] = old[i]
         /\ \A i \in 1..n : content[m + i] = part[i]
    <2>1. /\ old \o part \in Seq(Item) /\ Len(old \o part) = Len(old) + Len(part)
          /\ \A i \in 1..Len(old) : (old \o part)[i] = old[i]
          /\ \A i \in 1..Len(part) : (old \o part)[Len(old) + i] = part[i]
      BY Joined, Zenon
    <2>. QED BY <1>7, <1>8, <1>9, <2>1
  <1>11. ASSUME NEW i \in 1..m + n
         PROVE  content[i] = <<"byte", f, i>>
    <2>1. CASE i <= m
      BY <1>7, <1>10, <2>1
    <2>2. CASE i > m
      <3>1. PICK j \in 1..n : i = m + j
        <4>1. i - m \in 1..n /\ i = m + (i - m)
          BY <2>2
        <4>. QED BY <4>1
      <3>2. j \in 1..len /\ j <= l
        BY <1>5, <3>1
      <3>3. value[j] = <<"byte", f, m + j>>
        BY <1>2, <1>3, <1>4, <1>6, <3>2
      <3>. QED BY <1>8, <1>10, <3>1, <3>3
    <2>. QED BY <2>1, <2>2
  <1>12. /\ l - n \in 0..size /\ m + n = size - (l - n)
         /\ l - n = IF l <= len THEN 0 ELSE l - len
    <2>1. /\ l \in Nat /\ l >= 1 /\ l <= size /\ m = size - l
          /\ n = IF len > l THEN l ELSE len
      BY <1>4, <1>5, <1>6
    <2>. QED BY <2>1
  <1>. QED BY <1>1, <1>3, <1>4, <1>5, <1>7, <1>8, <1>9, <1>10, <1>11, <1>12

LEMMA ServerReturnSide ==
    ASSUME CallsFormed, ServerReturn, NEW f \in Nat, files[f] \in 0..Word - 1,
           NEW next \in Places, ServerSide(f, next)
    PROVE  /\ CallsFormed' /\ call'["client"] = call["client"]
           /\ \/ stored' = stored /\ ServerSide(f, next)'
              \/ /\ stored' = Append(stored, [name |-> NameField(f), content |-> Content(f)])
                 /\ ServerSide(f + 1, next)'
  <1>. DEFINE value == call["server"].value
              good == \/ stored' = stored /\ ServerSide(f, next)'
                      \/ /\ stored' = Append(stored, [name |-> NameField(f), content |-> Content(f)])
                         /\ ServerSide(f + 1, next)'
  <1>1. /\ CallsFormed' /\ call'["client"] = call["client"]
        /\ call["server"].status = "answered" /\ call'["server"].status = "idle"
        /\ files' = files
    BY Returns DEF ServerReturn, Host
  <1>2. PICK p \in Places : ServerIn(f, p) /\ ServerCalls(p, next)
    BY DEF ServerSide
  <1>3. IF server.at \in {"SOCKET", "BIND"} THEN next = p
        ELSE Fits(value, p) /\ next = NextPlace(p)
    BY <1>1, <1>2 DEF ServerCalls
  <1>4. /\ server = [at |-> server.at, left |-> server.left, name |-> server.name,
                     content |-> server.content]
        /\ ServerHas(f)
    BY DEF ServerSide, ServerHas
  <1>5. files[f] \in Nat /\ files[f] # Missing /\ SizeField(files[f]) = <<"size", files[f]>>
    BY ItemFacts, RelayAssumption DEF RelayAssumption, Missing
  <1>6. Start(f) \in Places /\ NamePlace(f) \in Places /\ \A n \in Nat : DataPlace(f, n) \in Places
    BY PlacesFacts
  <1>7. CASE server.at = "SOCKET"
    <2>1. stored' = stored /\ server' = [server EXCEPT !.at = "BIND"]
      BY <1>7 DEF ServerReturn
    <2>2. /\ server' = [at |-> "BIND", left |-> server.left, name |-> server.name,
                        content |-> server.content]
          /\ server'.at = "BIND" /\ server'.content = server.content
          /\ server'.left = server.left /\ server'.name = server.name
      BY <1>4, <2>1
    <2>3. next = Start(f)
      BY <1>2, <1>3, <1>7 DEF ServerIn
    <2>4. ServerHas(f)'
      BY <1>4, <1>7, <2>2 DEF ServerHas, Item
    <2>5. ServerIn(f, next)'
      BY <2>2, <2>3 DEF ServerIn, Start
    <2>6. ServerSide(f, next)'
      BY <1>1, <2>4, <2>5 DEF ServerSide, ServerCalls, Places
    <2>. QED BY <1>1, <2>1, <2>6
  <1>8. CASE server.at = "BIND"
    <2>1. stored' = stored /\ server' = Accepting
      BY <1>8 DEF ServerReturn
    <2>2. next = Start(f)
      BY <1>2, <1>3, <1>8 DEF ServerIn
    <2>3. ServerSide(f, Start(f))'
      BY <1>1, <2>1, AcceptingSide
    <2>4. ServerSide(f, next)'
      BY <2>2, <2>3 DEF Start
    <2>. QED BY <1>1, <2>1, <2>4
  <1>9. CASE server.at = "size"
    <2>1. p = Start(f)
      BY <1>2, <1>9 DEF ServerIn
    <2>2. value[1] = SizeField(files[f]) /\ next = NamePlace(f)
      BY <1>3, <1>9, <2>1, FitsPlace, NextPlaces
    <2>3. SizesOf(value[1]) = {files[f]}
      BY <1>5, <2>2 DEF SizesOf
    <2>4. stored' = stored /\ server' = [server EXCEPT !.at = "name", !.left = files[f]]
      BY <1>9, <2>3 DEF ServerReturn
    <2>5. /\ server' = [at |-> "name", left |-> files[f], name |-> server.name,
                        content |-> server.content]
          /\ server'.at = "name" /\ server'.left = files[f] /\ server'.content = server.content
          /\ server'.name = server.name
      BY <1>4, <2>4
    <2>6. ServerHas(f)'
      BY <1>4, <1>9, <2>5 DEF ServerHas, Item
    <2>7. ServerIn(f, next)'
      BY <1>1, <2>2, <2>5 DEF ServerIn, NamePlace
    <2>8. ServerSide(f, next)'
      BY <1>1, <2>6, <2>7 DEF ServerSide, ServerCalls, Places
    <2>. QED BY <1>1, <2>4, <2>8
  <1>10. CASE server.at = "name"
    <2>1. p = NamePlace(f) /\ server.left = files[f]
      BY <1>2, <1>10 DEF ServerIn
    <2>2. value[1] = NameField(f) /\ next = AfterName(f)
      BY <1>3, <1>10, <2>1, FitsPlace, NextPlaces
    <2>3. Continue([server EXCEPT !.name = value[1]])
      BY <1>10 DEF ServerReturn
    <2>4. PICK s : s = [at |-> "name", left |-> files[f], name |-> NameField(f),
                        content |-> server.content]
      OBVIOUS
    <2>5. /\ s.left = files[f] /\ s.name = NameField(f) /\ s.content = server.content
          /\ [server EXCEPT !.name = value[1]] = s
      BY <1>4, <1>10, <2>1, <2>2, <2>4
    <2>6. Continue(s)
      BY <2>3, <2>5
    <2>7. server.content \in Seq(Item) /\ Len(server.content) = 0
          /\ \A i \in 1..Len(server.content) : server.content[i] = <<"byte", f, i>>
      BY <1>4, <1>10 DEF ServerHas
    <2>8. CASE files[f] = 0
      <3>1. server' = Accepting /\ stored' = Append(stored, Written(s))
        BY <2>5, <2>6, <2>8 DEF Continue
      <3>2. server.content = Content(f)
        BY <1>5, <2>7, <2>8, Complete
      <3>3. Written(s) = [name |-> NameField(f), content |-> Content(f)]
        BY <2>5, <3>2 DEF Written
      <3>4. next = Start(f + 1)
        BY <2>2, <2>8 DEF AfterName
      <3>5. ServerSide(f + 1, Start(f + 1))'
        BY <1>1, <3>1, AcceptingSide
      <3>6. ServerSide(f + 1, next)'
        BY <3>4, <3>5 DEF Start
      <3>. QED BY <1>1, <3>1, <3>3, <3>6
    <2>9. CASE files[f] # 0
      <3>1. server' = [s EXCEPT !.at = "data"] /\ stored' = stored
        BY <2>5, <2>6, <2>9 DEF Continue
      <3>2. /\ server' = [at |-> "data", left |-> files[f], name |-> NameField(f),
                          content |-> server.content]
            /\ server'.at = "data" /\ server'.left = files[f] /\ server'.name = NameField(f)
            /\ server'.content = server.content
        BY <2>4, <3>1
      <3>3. next = DataPlace(f, files[f])
        BY <1>5, <2>2, <2>9 DEF AfterName
      <3>4. ServerHas(f)'
        BY <1>1, <1>5, <2>7, <3>2 DEF ServerHas, Item
      <3>5. ServerIn(f, next)'
        BY <1>1, <1>5, <2>9, <3>2, <3>3 DEF ServerIn, DataPlace, NameField
      <3>6. ServerSide(f, next)'
        BY <1>1, <3>4, <3>5 DEF ServerSide, ServerCalls, Places
      <3>. QED BY <1>1, <3>1, <3>6
    <2>. QED BY <2>8, <2>9
  <1>11. CASE server.at = "data"
    <2>1. /\ p = DataPlace(f, server.left) /\ server.left \in 1..files[f]
          /\ server.name = NameField(f)
      BY <1>2, <1>11 DEF ServerIn
    <2>2. Carries(value, f, server.left) /\ next = AfterData(f, server.left)
      BY <1>3, <1>11, <2>1, FitsPlace, NextPlaces
    <2>3. PICK left, content :
            /\ left = server.left - Kept(value)
            /\ content = server.content \o SubSeq(value, 1, Kept(value))
            /\ left \in 0..files[f]
            /\ left = IF server.left <= BodyLen THEN 0 ELSE server.left - BodyLen
            /\ content \in Seq(Item) /\ Len(content) = files[f] - left
            /\ \A i \in 1..Len(content) : content[i] = <<"byte", f, i>>
      <3>1. LET n == Kept(value)
                content == server.content \o SubSeq(value, 1, n)
            IN  /\ server.left - n \in 0..files[f]
                /\ server.left - n = IF server.left <= BodyLen THEN 0 ELSE server.left - BodyLen
                /\ content \in Seq(Item) /\ Len(content) = files[f] - (server.left - n)
                /\ \A i \in 1..Len(content) : content[i] = <<"byte", f, i>>
        BY <1>4, <1>11, <2>2, Grown
      <3>. QED BY <3>1, Zenon
    <2>4. Continue([server EXCEPT !.content = content, !.left = left])
      BY <1>4, <1>11, <2>3 DEF ServerReturn
    <2>5. PICK s : s = [at |-> "data", left |-> left, name |-> NameField(f), content |-> content]
      OBVIOUS
    <2>6. /\ s.left = left /\ s.name = NameField(f) /\ s.content = content
          /\ [server EXCEPT !.content = content, !.left = left] = s
      <3>1. s.left = left /\ s.name = NameField(f) /\ s.content = content
        BY <2>5
      <3>2. [server EXCEPT !.content = content, !.left = left]
              = [at |-> server.at, left |-> left, name |-> server.name, content |-> content]
        <4>1. PICK r : r = [server EXCEPT !.content = content, !.left = left]
          OBVIOUS
        <4>2. r = [at |-> server.at, left |-> left, name |-> server.name, content |-> content]
          BY <1>4, <4>1
        <4>. QED BY <4>1, <4>2, Zenon
      <3>. QED BY <1>11, <2>1, <2>5, <3>1, <3>2
    <2>7. Continue(s)
      BY <2>4, <2>6
    <2>8. next = IF left = 0 THEN Start(f + 1) ELSE DataPlace(f, left)
      <3>1. PICK n \in Nat : n = BodyLen
        BY RelayAssumption DEF RelayAssumption
      <3>2. PICK l \in Nat : l = server.left /\ l > 0
        BY <2>1
      <3>3. left = IF l <= n THEN 0 ELSE l - n
        BY <2>3, <3>1, <3>2
      <3>4. next = IF l <= n THEN Start(f + 1) ELSE DataPlace(f, l - n)
        BY <2>2, <3>1, <3>2 DEF AfterData
      <3>. QED BY <3>3, <3>4
    <2>9. CASE left = 0
      <3>1. server' = Accepting /\ stored' = Append(stored, Written(s))
        BY <2>6, <2>7, <2>9 DEF Continue
      <3>2. content = Content(f)
        <4>1. Len(content) = files[f]
          BY <1>5, <2>3, <2>9
        <4>. QED BY <1>5, <2>3, <4>1, Complete
      <3>3. Written(s) = [name |-> NameField(f), content |-> Content(f)]
        BY <2>6, <3>2 DEF Written
      <3>4. ServerSide(f + 1, Start(f + 1))'
        BY <1>1, <3>1, AcceptingSide
      <3>5. ServerSide(f + 1, next)'
        BY <2>8, <2>9, <3>4 DEF Start
      <3>. QED BY <1>1, <3>1, <3>3, <3>5
    <2>10. CASE left # 0
      <3>1. server' = [s EXCEPT !.at = "data"] /\ stored' = stored
        BY <2>6, <2>7, <2>10 DEF Continue
      <3>2. /\ server' = [at |-> "data", left |-> left, name |-> NameField(f), content |-> content]
            /\ server'.at = "data" /\ server'.left = left /\ server'.name = NameField(f)
            /\ server'.content = content
        BY <2>5, <3>1
      <3>3. next = DataPlace(f, left)
        BY <2>8, <2>10
      <3>4. ServerHas(f)'
        <4>1. files' = files
          BY <1>1
        <4>2. /\ content \in Seq(Item) /\ Len(content) = files[f] - left
              /\ \A i \in 1..Len(content) : content[i] = <<"byte", f, i>>
          BY <2>3, Zenon
        <4>3. /\ server'.content \in Seq(Item)
              /\ Len(server'.content) = files'[f] - server'.left
              /\ \A i \in 1..Len(server'.content) : server'.content[i] = <<"byte", f, i>>
          BY <3>2, <4>1, <4>2
        <4>4. server' = [at |-> server'.at, left |-> server'.left, name |-> server'.name,
                         content |-> server'.content]
          BY <3>2
        <4>. QED BY <3>2, <4>3, <4>4, Zenon DEF ServerHas
      <3>5. left \in 1..files[f]
        BY <1>5, <2>3, <2>10
      <3>6. ServerIn(f, next)'
        BY <1>1, <3>2, <3>3, <3>5 DEF ServerIn, DataPlace, NameField
      <3>7. ServerSide(f, next)'
        BY <1>1, <3>4, <3>6 DEF ServerSide, ServerCalls, Places
      <3>. QED BY <1>1, <3>1, <3>7
    <2>. QED BY <2>9, <2>10
  <1>12. server.at \in {"SOCKET", "BIND", "size", "name", "data"}
    BY <1>2 DEF ServerIn
  <1>. QED BY <1>1, <1>7, <1>8, <1>9, <1>10, <1>11, <1>12

-----------------------------------------------------------------------------
(* The steps. *)
LEMMA RelayBegins == RelayInit => RelayInv
  <1>. SUFFICES ASSUME RelayInit PROVE RelayInv
    OBVIOUS
  <1>1. files \in Seq(Nat \cup {Missing}) /\ faults = 0 /\ stored = <<>> /\ wire = <<>> /\ arrived = <<>>
    BY RelayAssumption DEF RelayAssumption, RelayInit, Missing
  <1>2. CallsFormed /\ \A h \in Host : call[h] = Idle
    BY DEF RelayInit, CallsFormed, Idle
  <1>3. 0 \in Nat /\ 0 + 1 = 1 /\ 1 \in Nat /\ 1 \in Nat \ {0}
    OBVIOUS
  <1>4. PICK at, left, buf :
          /\ client = [file |-> 1, at |-> at, left |-> left, buf |-> buf]
          /\ at = (IF 1 <= Len(files) THEN "SOCKET" ELSE "done")
          /\ left = (IF 1 <= Len(files) THEN files[1] ELSE 0)
    BY DEF RelayInit, Run
  <1>5. ClientSide(Start(1))
    <2>1. client.file = 1 /\ client.at = at /\ client.left = left /\ client.buf = buf
      BY <1>4
    <2>2. at \in {"SOCKET", "done"} /\ (at = "SOCKET" => 1 \in DOMAIN files /\ left = files[1])
      BY <1>1, <1>4
    <2>3. call["client"].status = "idle"
      BY <1>2 DEF Host, Idle
    <2>4. ClientHas(1)
      BY <1>3, <1>4, <2>1, <2>2 DEF ClientHas
    <2>5. ClientIn(1, Start(1))
      BY <2>1, <2>2, <2>3 DEF ClientIn
    <2>. QED BY <2>1, <2>4, <2>5 DEF ClientSide
  <1>6. ServerSide(1, Start(1))
    <2>1. /\ server = [at |-> "SOCKET", left |-> 0, name |-> Junk, content |-> <<>>]
          /\ server.at = "SOCKET" /\ server.left = 0 /\ server.name = Junk /\ server.content = <<>>
      BY DEF RelayInit, Accepting
    <2>2. <<>> \in Seq(Item) /\ Len(<<>>) = 0 /\ 1..0 = {}
      OBVIOUS
    <2>3. ServerHas(1)
      BY <2>1, <2>2 DEF ServerHas
    <2>4. ServerIn(1, Start(1))
      BY <2>1 DEF ServerIn
    <2>5. call["server"].status = "idle"
      BY <1>2 DEF Host, Idle
    <2>. QED BY <1>3, <2>3, <2>4, <2>5, PlacesFacts, ServerAt
  <1>7. Chain(<<>>, Start(1), Start(1)) /\ Start(1) \in Places
    BY <1>3, PlacesFacts, ChainEmpty
  <1>8. Flow(1)
    <2>1. <<>> \in Seq(Body)
      OBVIOUS
    <2>. QED BY <1>1, <1>5, <1>6, <1>7, <2>1 DEF Flow
  <1>9. Len(stored) = 0 /\ DOMAIN stored = {} /\ stored \in Seq({})
    BY <1>1
  <1>10. InStep
    BY <1>3, <1>8, <1>9 DEF InStep
  <1>11. StoredExact
    BY <1>9 DEF StoredExact
  <1>. QED BY <1>1, <1>2, <1>3, <1>9, <1>10, <1>11 DEF RelayInv

(* A step that leaves the stored files and the flow of the next one. *)
LEMMA KeptInStep ==
    ASSUME InStep, StoredExact, files' = files, stored' = stored, NEW T, stored \in Seq(T),
           \A f \in Nat : f \in DOMAIN files /\ Flow(f) => Flow(f)'
    PROVE  (InStep /\ StoredExact)'
  <1>1. PICK f \in Nat : f = Len(stored) + 1 /\ f = (Len(stored) + 1)'
    OBVIOUS
  <1>2. InStep'
    <2>1. Readable(f)' <=> Readable(f)
      BY DEF Readable
    <2>. QED BY <1>1, <2>1 DEF InStep
  <1>3. StoredExact'
    BY DEF StoredExact, Readable, NameField, Content
  <1>. QED BY <1>2, <1>3

(* What holds with or without faults. *)
LEMMA FormedStep ==
    ASSUME CallsFormed, faults \in Nat, NEW T, stored \in Seq(T), [RelayNext]_relayVars
    PROVE  /\ CallsFormed' /\ files' = files /\ faults' \in Nat
           /\ (\E U : stored \in Seq(U))' /\ (faults' = 0 => faults = 0)
  <1>1. ASSUME NEW h \in Host, NEW name, NEW arg, Ask(h, name, arg)
        PROVE  CallsFormed'
    BY <1>1, Asks
  <1>2. ASSUME NEW h \in Host, NEW value, Answered(h, value)
        PROVE  CallsFormed'
    BY <1>2, Answers
  <1>3. ASSUME NEW h \in Host, Back(h)
        PROVE  CallsFormed'
    BY <1>3, Returns
  <1>4. ASSUME call' = call
        PROVE  CallsFormed'
    BY <1>4 DEF CallsFormed
  <1>5. ASSUME stored' = stored
        PROVE  (\E U : stored \in Seq(U))'
    BY <1>5
  <1>6. ASSUME NEW x, stored' = Append(stored, x)
        PROVE  (\E U : stored \in Seq(U))'
    <2>1. stored \in Seq(T \cup {x}) /\ x \in T \cup {x}
      OBVIOUS
    <2>2. Append(stored, x) \in Seq(T \cup {x})
      BY <2>1
    <2>. QED BY <1>6, <2>2
  <1>7. "client" \in Host /\ "server" \in Host
    BY DEF Host
  <1>8. CASE ClientCall
    <2>1. \E name, arg : Ask("client", name, arg)
      BY <1>8 DEF ClientCall, CallSOCKET, CallCONNECT, CallSEND
    <2>2. files' = files /\ faults' = faults /\ stored' = stored
      BY <1>8 DEF ClientCall
    <2>. QED BY <1>1, <1>5, <1>7, <2>1, <2>2
  <1>9. CASE Crash
    BY <1>4, <1>5, <1>9 DEF Crash
  <1>10. CASE ClientReturn
    BY <1>3, <1>5, <1>7, <1>10 DEF ClientReturn
  <1>11. CASE ServerCall
    <2>1. \E name, arg : Ask("server", name, arg)
      BY <1>11 DEF ServerCall, CallSOCKET, CallBIND, CallRECV
    <2>2. files' = files /\ faults' = faults /\ stored' = stored
      BY <1>11 DEF ServerCall
    <2>. QED BY <1>1, <1>5, <1>7, <2>1, <2>2
  <1>12. CASE ServerReturn
    <2>1. Back("server") /\ files' = files /\ faults' = faults
      BY <1>12 DEF ServerReturn
    <2>2. stored' = stored \/ \E x : stored' = Append(stored, x)
      BY <1>12 DEF ServerReturn, Continue
    <2>. QED BY <1>3, <1>5, <1>6, <1>7, <2>1, <2>2
  <1>13. ASSUME NEW h \in Host, Daemon(h)
         PROVE  /\ CallsFormed' /\ files' = files /\ faults' = faults /\ stored' = stored
    <2>1. \E value : Answered(h, value)
      BY <1>13 DEF Daemon, ServeSOCKET, ServeBIND, ServeCONNECT, ServeSEND, ServeRECV
    <2>2. files' = files /\ faults' = faults /\ stored' = stored
      BY <1>13 DEF Daemon, ServeSOCKET, ServeBIND, ServeCONNECT, ServeSEND, ServeRECV
    <2>. QED BY <1>2, <2>1, <2>2
  <1>14. CASE Deliver
    BY <1>4, <1>5, <1>14 DEF Deliver
  <1>15. CASE Disturb
    BY <1>4, <1>5, <1>15 DEF Disturb
  <1>16. CASE UNCHANGED relayVars
    BY <1>4, <1>5, <1>16 DEF relayVars
  <1>. QED
    BY <1>5, <1>8, <1>9, <1>10, <1>11, <1>12, <1>13, <1>14, <1>15, <1>16
    DEF RelayNext, Progress, Programs

(* The places of ftps, ftpc and the packages between them stay in step. *)
LEMMA RelayStep == RelayInv /\ [RelayNext]_relayVars => RelayInv'
  <1>. SUFFICES ASSUME RelayInv, [RelayNext]_relayVars PROVE RelayInv'
    OBVIOUS
  <1>1. files \in Seq(Nat \cup {Missing}) /\ faults \in Nat /\ CallsFormed
        /\ (faults = 0 => InStep /\ StoredExact)
    BY DEF RelayInv
  <1>2. PICK T : stored \in Seq(T)
    BY DEF RelayInv
  <1>3. /\ CallsFormed' /\ files' = files /\ faults' \in Nat
        /\ (\E U : stored \in Seq(U))' /\ (faults' = 0 => faults = 0)
    BY <1>1, <1>2, FormedStep
  <1>4. (files \in Seq(Nat \cup {Missing}))'
    BY <1>1, <1>3 DEF Missing
  <1>5. ASSUME faults' = 0
        PROVE  (InStep /\ StoredExact)'
    <2>1. faults = 0 /\ InStep /\ StoredExact
      BY <1>1, <1>3, <1>5
    <2>2. ASSUME stored' = stored,
                 \A f \in Nat : f \in DOMAIN files /\ Flow(f) => Flow(f)'
          PROVE  (InStep /\ StoredExact)'
      BY <1>2, <1>3, <2>1, <2>2, KeptInStep
    <2>3. ASSUME stored' = stored, wire' = wire, arrived' = arrived, server' = server,
                 call'["server"] = call["server"],
                 \A r \in Places : ClientSide(r) => ClientSide(r)'
          PROVE  (InStep /\ StoredExact)'
      <3>1. ASSUME NEW f \in Nat, Flow(f)
            PROVE  Flow(f)'
        <4>1. \A q \in Places : ServerSide(f, q) => ServerSide(f, q)'
          BY <1>3, <2>3, ServerStays
        <4>. QED BY <1>3, <2>3, <3>1, <4>1, FlowStays
      <3>. QED BY <2>2, <2>3, <3>1
    <2>4. CASE ClientCall
      <3>1. /\ stored' = stored /\ wire' = wire /\ arrived' = arrived /\ server' = server
        BY <2>4 DEF ClientCall
      <3>2. call'["server"] = call["server"]
        <4>1. \E name, arg : Ask("client", name, arg)
          BY <2>4 DEF ClientCall, CallSOCKET, CallCONNECT, CallSEND
        <4>. QED BY <1>1, <4>1, Asks DEF Host
      <3>3. \A r \in Places : ClientSide(r) => ClientSide(r)'
        BY <1>1, <2>4, ClientCallSide
      <3>. QED BY <2>3, <3>1, <3>2, <3>3
    <2>5. CASE Crash
      <3>1. /\ stored' = stored /\ wire' = wire /\ arrived' = arrived /\ server' = server
            /\ call'["server"] = call["server"]
        BY <2>5 DEF Crash
      <3>2. \A r \in Places : ClientSide(r) => ClientSide(r)'
        BY <1>1, <2>5, CrashSide
      <3>. QED BY <2>3, <3>1, <3>2
    <2>6. CASE ClientReturn
      <3>1. /\ stored' = stored /\ wire' = wire /\ arrived' = arrived /\ server' = server
        BY <2>6 DEF ClientReturn
      <3>2. call'["server"] = call["server"]
        BY <1>1, <2>6, Returns DEF ClientReturn, Host
      <3>3. \A r \in Places : ClientSide(r) => ClientSide(r)'
        BY <1>1, <2>6, ClientReturnSide
      <3>. QED BY <2>3, <3>1, <3>2, <3>3
    <2>7. CASE ServerCall
      <3>1. /\ stored' = stored /\ wire' = wire /\ arrived' = arrived /\ client' = client
        BY <2>7 DEF ServerCall
      <3>2. call'["client"] = call["client"]
        <4>1. \E name, arg : Ask("server", name, arg)
          BY <2>7 DEF ServerCall, CallSOCKET, CallBIND, CallRECV
        <4>. QED BY <1>1, <4>1, Asks DEF Host
      <3>3. \A r \in Places : ClientSide(r) => ClientSide(r)'
        BY <1>3, <3>1, <3>2, ClientStays
      <3>4. ASSUME NEW f \in Nat, Flow(f)
            PROVE  Flow(f)'
        <4>1. \A q \in Places : ServerSide(f, q) => ServerSide(f, q)'
          BY <1>1, <2>7, ServerCallSide
        <4>. QED BY <1>3, <3>1, <3>3, <3>4, <4>1, FlowStays
      <3>. QED BY <2>2, <3>1, <3>4
    <2>8. CASE ServerReturn
      <3>1. PICK f \in Nat \ {0} : f = Len(stored) + 1
        BY <1>2
      <3>2. /\ wire' = wire /\ arrived' = arrived /\ client' = client
        BY <2>8 DEF ServerReturn
      <3>3. call'["client"] = call["client"]
        BY <1>1, <2>8, Returns DEF ServerReturn, Host
      <3>4. CASE f \in DOMAIN files /\ Readable(f)
        <4>1. Flow(f)
          BY <2>1, <3>1, <3>4 DEF InStep
        <4>2. files[f] \in 0..Word - 1
          BY <3>4 DEF Readable
        <4>3. PICK q \in Places, m \in Places, r \in Places :
                 /\ ServerSide(f, q) /\ ClientSide(r)
                 /\ Chain(arrived, q, m) /\ Chain(wire, m, r)
          BY <4>1, Zenon DEF Flow
        <4>4. \/ stored' = stored /\ ServerSide(f, q)'
              \/ /\ stored' = Append(stored, [name |-> NameField(f), content |-> Content(f)])
                 /\ ServerSide(f + 1, q)'
          BY <1>1, <2>8, <4>2, <4>3, ServerReturnSide
        <4>5. /\ (wire \in Seq(Body) /\ arrived \in Seq(Body))'
              /\ ClientSide(r)'
          <5>1. (wire \in Seq(Body) /\ arrived \in Seq(Body))'
            BY <3>2, <4>1 DEF Flow, Body, Item, Junk
          <5>2. ClientSide(r)'
            BY <1>3, <3>2, <3>3, <4>3, ClientStays
          <5>. QED BY <5>1, <5>2
        <4>6. Chain(arrived, q, m)' /\ Chain(wire, m, r)'
          <5>1. Chain(arrived', q, m) /\ Chain(wire', m, r)
            BY <3>2, <4>3
          <5>. QED BY <1>3, <5>1, ChainCarried
        <4>7. \A g : ServerSide(g, q)' => Flow(g)'
          BY <4>3, <4>5, <4>6 DEF Flow, Body, Item, Places
        <4>8. CASE stored' = stored /\ ServerSide(f, q)'
          <5>1. Flow(f)'
            BY <4>7, <4>8
          <5>2. InStep'
            BY <3>1, <4>8, <5>1 DEF InStep
          <5>3. StoredExact'
            BY <1>3, <2>1, <4>8 DEF StoredExact, Readable, NameField, Content
          <5>. QED BY <5>2, <5>3
        <4>9. CASE /\ stored' = Append(stored, [name |-> NameField(f), content |-> Content(f)])
                   /\ ServerSide(f + 1, q)'
          <5>1. PICK x : x = [name |-> NameField(f), content |-> Content(f)]
            OBVIOUS
          <5>2. /\ DOMAIN stored' = 1..f /\ Len(stored') = f /\ stored'[f] = x
                /\ \A i \in DOMAIN stored : stored'[i] = stored[i]
                /\ \A i \in 1..f : i \in DOMAIN stored \/ i = f
            BY <1>2, <3>1, <4>9, <5>1
          <5>3. Flow(f + 1)'
            BY <4>7, <4>9
          <5>4. InStep'
            BY <5>2, <5>3 DEF InStep
          <5>5. StoredExact'
            <6>1. SUFFICES ASSUME NEW i \in 1..f, i \in DOMAIN files, Readable(i)
                           PROVE  stored'[i] = [name |-> NameField(i), content |-> Content(i)]
              BY <1>3, <5>2 DEF StoredExact, Readable, NameField, Content
            <6>. QED BY <2>1, <5>1, <5>2, <6>1 DEF StoredExact
          <5>. QED BY <5>4, <5>5
        <4>. QED BY <4>4, <4>8, <4>9
      <3>5. CASE ~(f \in DOMAIN files /\ Readable(f))
        <4>1. PICK x : stored' = stored \/ stored' = Append(stored, x)
          BY <2>8 DEF ServerReturn, Continue
        <4>2. Readable(f + 1) => Readable(f)
          BY DEF Readable
        <4>3. f + 1 \in DOMAIN files => f \in DOMAIN files
          BY <1>1
        <4>4. CASE stored' = stored
          <5>1. InStep'
            BY <1>3, <3>1, <3>5, <4>4 DEF InStep, Readable
          <5>2. StoredExact'
            BY <1>3, <2>1, <4>4 DEF StoredExact, Readable, NameField, Content
          <5>. QED BY <5>1, <5>2
        <4>5. CASE stored' = Append(stored, x)
          <5>1. /\ DOMAIN stored' = 1..f /\ Len(stored') = f
                /\ \A i \in DOMAIN stored : stored'[i] = stored[i]
                /\ \A i \in 1..f : i \in DOMAIN stored \/ i = f
            BY <1>2, <3>1, <4>5
          <5>2. InStep'
            BY <1>3, <3>5, <4>2, <4>3, <5>1 DEF InStep, Readable
          <5>3. StoredExact'
            <6>1. SUFFICES ASSUME NEW i \in 1..f, i \in DOMAIN files, Readable(i)
                           PROVE  stored'[i] = [name |-> NameField(i), content |-> Content(i)]
              BY <1>3, <5>1 DEF StoredExact, Readable, NameField, Content
            <6>. QED BY <2>1, <3>5, <5>1, <6>1 DEF StoredExact
          <5>. QED BY <5>2, <5>3
        <4>. QED BY <4>1, <4>4, <4>5
      <3>. QED BY <3>4, <3>5
    <2>9. ASSUME NEW h \in Host, Daemon(h)
          PROVE  (InStep /\ StoredExact)'
      <3>1. stored' = stored
        BY <2>9 DEF Daemon
      <3>2. \A f \in Nat : Flow(f) => Flow(f)'
        BY <1>1, <2>9, DaemonFlow
      <3>. QED BY <2>2, <3>1, <3>2
    <2>10. CASE Deliver
      <3>1. stored' = stored
        BY <2>10 DEF Deliver
      <3>2. \A f \in Nat : Flow(f) => Flow(f)'
        BY <1>1, <1>5, <2>10, DeliverFlow
      <3>. QED BY <2>2, <3>1, <3>2
    <2>11. CASE Disturb
      BY <1>1, <1>5, <2>1, <2>11 DEF Disturb
    <2>12. CASE UNCHANGED relayVars
      <3>1. /\ stored' = stored /\ wire' = wire /\ arrived' = arrived /\ server' = server
            /\ client' = client /\ call' = call
        BY <2>12 DEF relayVars
      <3>2. \A r \in Places : ClientSide(r) => ClientSide(r)'
        BY <1>3, <3>1, ClientStays
      <3>. QED BY <2>3, <3>1, <3>2
    <2>. QED
      BY <2>4, <2>5, <2>6, <2>7, <2>8, <2>9, <2>10, <2>11, <2>12 DEF RelayNext, Progress, Programs
  <1>. QED BY <1>3, <1>4, <1>5 DEF RelayInv

(***************************************************************************)
(* As long as no package was lost or moved, every file that ftps stored is *)
(* the file of that number that ftpc read, with its name: for any number   *)
(* of files of any size, any length of a package, and any number of        *)
(* packages between the two.                                               *)
(***************************************************************************)
THEOREM RelayExact == RelayInit /\ [][RelayNext]_relayVars => []FileExact
  <1>1. RelayInv => FileExact
    BY DEF RelayInv, StoredExact, FileExact
  <1>. QED BY <1>1, RelayBegins, RelayStep, PTL

=============================================================================

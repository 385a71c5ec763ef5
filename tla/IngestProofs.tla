---------------------------- MODULE IngestProofs ----------------------------
(***************************************************************************)
(* Proofs about Ingest, for any environments, clients, bodies, queries and *)
(* number of attempts.                                                     *)
(***************************************************************************)
EXTENDS Ingest, EventsProofs, SequenceTheorems

\* What the filters and the listing look at in a row.
RowTyped(row) ==
    /\ row.ts \in Int /\ row.event \in Text
    /\ row.service \in Text \union {None} /\ row.env \in Text \union {None}

\* A row's stamp is a name its environment gave to the token of its request.
Owned(row) ==
    LET stamp == row.payload["_auth_consumer"].text
        vs == ToSet(Environs[row.conf].vars)
    IN IF row.bearer # None /\ \E v \in vs : Grants(v, row.bearer, stamp) THEN TRUE
       ELSE stamp = <<"_unauth">> /\ DOMAIN Config[row.conf].tokens = {}

\* A row of a client is of one of the attempts it made.
Numbered(row) == \E c \in Client, i \in Nat : \E a \in 1 .. attempts[c] : row.id = <<c, i, a>>

TypeInv ==
    /\ conf \in DOMAIN Environs \union {0}
    /\ RowsOK(disk) /\ RowsOK(mem)
    /\ req \in [Client -> [body : Batches, bearer : Bearers]]
    /\ attempts \in [Client -> Nat]
    /\ DOMAIN pc = Client /\ DOMAIN reply = Client
    /\ \A row \in Stored : RowTyped(row) /\ (FromClient(row) => Owned(row) /\ Numbered(row))

SeedsFirst(rs) ==
    \A i, j \in DOMAIN rs :
        i < j /\ ~FromClient(rs[j]) => ~FromClient(rs[i]) /\ rs[i].id # rs[j].id

\* No store holds a row of the client's current attempt.
NothingOf(c) == \A row \in Stored, i \in Nat : row.id # <<c, i, attempts[c]>>

\* What was counted is the rows of a set of events, and they are safe.
CountIsTrue(c) ==
    \E S \in SUBSET Built(req[c].body) :
        /\ reply[c].accepted = Cardinality(S)
        /\ reply[c].rejected = Rejected(req[c].body)
        /\ \A row \in Stored, i \in Nat : row.id = <<c, i, attempts[c]>> => i \in S
        /\ Persistent(reply[c].conf) =>
              \A i \in S : \E row \in Range(disk) \union archive : row.id = <<c, i, attempts[c]>>

\* A row leaves the file only for S3.
Safe == Range(disk) \subseteq Range(disk') \union archive'

\* What makes AnswerIsTrue inductive.
AnswerInv(c) ==
    /\ pc[c] = "sent" => NothingOf(c) /\ attempts[c] >= 1
    /\ reply[c] # None =>
          IF reply[c].status # 202 THEN NothingOf(c) ELSE CountIsTrue(c)

IngestInv ==
    /\ TypeInv
    /\ SeedsFirst(disk) /\ SeedsFirst(mem)
    /\ \A c \in Client : AnswerInv(c)
-----------------------------------------------------------------------------
(***************************************************************************)
(* Rows.                                                                   *)
(***************************************************************************)
\* Rowids are numbers, and no row has one after the last.
LEMMA LastRowIsLast ==
    ASSUME NEW rs, RowsOK(rs)
    PROVE  LastRow(rs) \in Int /\ \A n \in DOMAIN rs : n <= LastRow(rs)
<1>1. CASE DOMAIN rs = {}
  BY <1>1 DEF LastRow
<1>2. CASE DOMAIN rs # {}
  <2>. DEFINE D == DOMAIN rs
  <2>1. IsFiniteSet(D) /\ D \subseteq Int /\ D # {}
    BY <1>2 DEF RowsOK
  <2>. HIDE DEF D
  <2>2. \E m \in D : \A n \in D : m >= n
    BY <2>1, FiniteMax
  <2>3. Max(D) \in D /\ \A n \in D : Max(D) >= n
    BY <2>2 DEF Max
  <2>4. LastRow(rs) = Max(D)
    BY <1>2 DEF LastRow, D
  <2>. QED
    BY <2>1, <2>3, <2>4 DEF D
<1>. QED
  BY <1>1, <1>2

\* New rows come after the old ones, and these stay.
LEMMA InsertedRows ==
    ASSUME NEW rs, RowsOK(rs), NEW new, IsFiniteSet(DOMAIN new), DOMAIN new \subseteq Nat \ {0},
           \A i \in DOMAIN new : new[i].ts \in Int
    PROVE  /\ RowsOK(Inserted(rs, new))
           /\ Range(Inserted(rs, new)) = Range(rs) \union Range(new)
           /\ DOMAIN rs \subseteq DOMAIN Inserted(rs, new)
           /\ \A n \in DOMAIN rs : Inserted(rs, new)[n] = rs[n]
           /\ \A n \in DOMAIN Inserted(rs, new) \ DOMAIN rs :
                 /\ \A m \in DOMAIN rs : m < n
                 /\ \E i \in DOMAIN new : n = LastRow(rs) + i /\ Inserted(rs, new)[n] = new[i]
<1>. DEFINE last == LastRow(rs)
            more == NewRows(rs, new)
            all == Inserted(rs, new)
<1>1. last \in Int /\ \A n \in DOMAIN rs : n <= last
  BY LastRowIsLast
<1>2. more = {last + i : i \in DOMAIN new}
  BY DEF NewRows
<1>3. DOMAIN all = DOMAIN rs \union more
  BY DEF Inserted
<1>4. \A n \in DOMAIN rs : all[n] = rs[n]
  BY DEF Inserted
<1>5. DOMAIN rs \subseteq Int
  BY DEF RowsOK
<1>. HIDE DEF last
<1>6. \A n \in more : n \in Int /\ n \notin DOMAIN rs /\ \A m \in DOMAIN rs : m < n
  <2>. HIDE DEF more
  <2>1. \A n \in more : n \in Int /\ n > last
    BY <1>1, <1>2
  <2>. QED
    BY <1>1, <1>5, <2>1
<1>7. \A i \in DOMAIN new : last + i \in more /\ all[last + i] = new[i]
  <2>1. ASSUME NEW i \in DOMAIN new PROVE all[last + i] = new[i]
    <3>1. last + i \in more /\ (last + i) - last = i
      BY <1>1, <1>2
    <3>2. last + i \notin DOMAIN rs
      BY <1>6, <3>1
    <3>. QED
      BY <3>1, <3>2 DEF Inserted, last
  <2>. QED
    BY <1>2, <2>1
<1>8. IsFiniteSet(more)
  <2>. DEFINE f == [i \in DOMAIN new |-> last + i]
  <2>1. f \in Surjection(DOMAIN new, more)
    BY <1>2 DEF Surjection
  <2>. HIDE DEF f, more
  <2>. QED
    BY <2>1, FS_Surjection
<1>. HIDE DEF more, all
<1>9. \A n \in more : \E i \in DOMAIN new : n = last + i /\ all[n] = new[i]
  BY <1>2, <1>7
<1>10. RowsOK(all)
  <2>1. IsFiniteSet(DOMAIN all)
    BY <1>3, <1>8, FS_Union DEF RowsOK
  <2>. QED
    BY <1>3, <1>4, <1>5, <1>6, <1>9, <2>1 DEF RowsOK
<1>11. Range(all) = Range(rs) \union Range(new)
  BY <1>3, <1>4, <1>7, <1>9 DEF Range
<1>. QED
  BY <1>3, <1>4, <1>6, <1>9, <1>10, <1>11 DEF all, last

\* A part of the rows is rows.
LEMMA PartOfRows ==
    ASSUME NEW rs, RowsOK(rs), NEW old, old \subseteq DOMAIN rs, NEW part,
           part = [i \in DOMAIN rs \ old |-> rs[i]]
    PROVE  /\ RowsOK(part)
           /\ Range(rs) = Range(part) \union {rs[i] : i \in old}
           /\ SeedsFirst(rs) => SeedsFirst(part)
<1>1. RowsOK(part)
  BY FS_Subset DEF RowsOK
<1>2. Range(rs) = Range(part) \union {rs[i] : i \in old}
  BY DEF Range
<1>3. SeedsFirst(rs) => SeedsFirst(part)
  BY DEF SeedsFirst
<1>. QED
  BY <1>1, <1>2, <1>3

\* A client's rows after a store's rows leave the seeds first.
LEMMA ClientsComeLater ==
    ASSUME NEW rs, RowsOK(rs), SeedsFirst(rs), NEW new, IsFiniteSet(DOMAIN new),
           DOMAIN new \subseteq Nat \ {0}, \A i \in DOMAIN new : new[i].ts \in Int,
           \A i \in DOMAIN new : FromClient(new[i])
    PROVE  SeedsFirst(Inserted(rs, new))
<1>. DEFINE all == Inserted(rs, new)
<1>1. /\ \A n \in DOMAIN rs : all[n] = rs[n]
      /\ \A n \in DOMAIN all \ DOMAIN rs :
            (\A m \in DOMAIN rs : m < n) /\ \E i \in DOMAIN new : all[n] = new[i]
      /\ DOMAIN all \subseteq Int /\ DOMAIN rs \subseteq Int
  BY InsertedRows DEF RowsOK
<1>. HIDE DEF all
<1>2. ASSUME NEW i \in DOMAIN all, NEW j \in DOMAIN all, i < j, ~FromClient(all[j])
      PROVE  ~FromClient(all[i]) /\ all[i].id # all[j].id
  <2>1. j \in DOMAIN rs
    BY <1>1, <1>2
  <2>2. i \in DOMAIN rs
    <3>. SUFFICES ASSUME i \notin DOMAIN rs PROVE FALSE
      OBVIOUS
    <3>1. j < i /\ i \in Int /\ j \in Int
      BY <1>1, <2>1
    <3>. QED
      BY <1>2, <3>1
  <2>. QED
    BY <1>1, <1>2, <2>1, <2>2 DEF SeedsFirst
<1>. QED
  BY <1>2 DEF SeedsFirst, all

\* The seeds are events.
LEMMA SeedsAreEvents ==
    ASSUME NEW now \in Int, NEW seeds, seeds = seed_dummy_events(now)
    PROVE  /\ IsFiniteSet(DOMAIN seeds) /\ DOMAIN seeds \subseteq Nat \ {0}
           /\ \A n \in DOMAIN seeds :
                 RowTyped(seeds[n]) /\ ~FromClient(seeds[n]) /\ seeds[n].id = <<"seed", n>>
<1>1. DOMAIN SeedEvents = 1 .. 16
  BY DEF SeedEvents
<1>3. DOMAIN seeds = 1 .. 16
  BY <1>1 DEF seed_dummy_events
<1>4. ASSUME NEW n \in 1 .. 16
      PROVE  RowTyped(seeds[n]) /\ ~FromClient(seeds[n]) /\ seeds[n].id = <<"seed", n>>
  <2>. DEFINE e == SeedEvents[n]
  <2>1. seeds[n] = Over([id |-> <<"seed", n>>, ts |-> now - 1800000 + e.offset], e)
    BY <1>1 DEF seed_dummy_events
  <2>2. /\ {"event", "service", "env"} \subseteq DOMAIN e /\ e.offset \in Int /\ e.event \in Text
        /\ e.service \in Text /\ e.env \in Text
    BY <1>1, SeedsAssumption
  <2>. HIDE DEF e
  <2>3. seeds[n].id = <<"seed", n>> /\ seeds[n].ts = now - 1800000 + e.offset
    BY <2>1 DEF Over
  <2>4. seeds[n].event = e.event /\ seeds[n].service = e.service /\ seeds[n].env = e.env
    BY <2>1, <2>2 DEF Over
  <2>5. Len(<<"seed", n>>) = 2
    OBVIOUS
  <2>. QED
    BY <2>2, <2>3, <2>4, <2>5 DEF RowTyped, FromClient
<1>5. IsFiniteSet(1 .. 16)
  <2>1. 1 \in Int /\ 16 \in Int
    OBVIOUS
  <2>. QED
    BY <2>1, FS_Interval
<1>6. IsFiniteSet(DOMAIN seeds) /\ DOMAIN seeds \subseteq Nat \ {0}
  BY <1>3, <1>5
<1>. QED
  BY <1>3, <1>4, <1>6
-----------------------------------------------------------------------------
(***************************************************************************)
(* Tokens.                                                                 *)
(***************************************************************************)
LEMMA TwoWords == ASSUME NEW S, NEW a \in S, NEW b \in S PROVE <<a, b>> \in Seq(S)
OBVIOUS

\* A value is its tier, a colon and its token.
LEMMA ValueSplits ==
    ASSUME NEW value \in Text, NEW tier, Tier(value) = <<tier>>, AfterColon(value) # 0
    PROVE  value = <<tier, ":">> \o Token(value) /\ Token(value) \in Text
<1>. DEFINE at == AfterColon(value)
<1>1. Len(value) \in Nat /\ DOMAIN value = 1 .. Len(value)
  BY DEF Text
<1>2. at \in 1 .. Len(value) /\ value[at] = ":"
  BY <1>1, FirstPlace DEF AfterColon, Text
<1>3. \A i \in 1 .. at - 1 : value[i] \in STRING
  BY <1>1, <1>2 DEF Text
<1>4. /\ Len(SubSeq(value, 1, at - 1)) = IF 1 <= at - 1 THEN at - 1 ELSE 0
      /\ \A i \in 1 .. at - 1 : SubSeq(value, 1, at - 1)[i] = value[i]
  <2>1. at - 1 \in Int
    BY <1>2
  <2>. HIDE DEF at
  <2>. QED
    BY <1>2, <1>3, <2>1, SubSeqProperties
<1>5. Len(<<tier>>) = 1 /\ <<tier>>[1] = tier
  OBVIOUS
<1>6. at = 2 /\ value[1] = tier
  <2>1. SubSeq(value, 1, at - 1) = <<tier>>
    BY DEF Tier
  <2>. DEFINE part == SubSeq(value, 1, at - 1)
  <2>2. Len(part) = 1 /\ part[1] = tier
    BY <1>5, <2>1
  <2>. HIDE DEF at, part
  <2>3. at = 2
    BY <1>2, <1>4, <2>2 DEF part
  <2>. QED
    BY <1>4, <2>2, <2>3 DEF part
<1>. DEFINE token == Token(value)
            whole == <<tier, ":">> \o token
            S == STRING \union {tier, ":"}
<1>7. token = SubSeq(value, 3, Len(value))
  BY <1>6 DEF Token
<1>8. /\ token \in Text /\ Len(token) = Len(value) - 2
      /\ \A i \in 1 .. Len(value) - 2 : token[i] = value[i + 2]
  <2>1. \A i \in 3 .. Len(value) : value[i] \in STRING
    BY <1>1 DEF Text
  <2>. HIDE DEF token
  <2>. QED
    BY <1>1, <1>2, <1>6, <1>7, <2>1, SubSeqProperties DEF Text
<1>. HIDE DEF token
<1>9. <<tier, ":">> \in Seq(S)
  BY TwoWords
<1>10. STRING \subseteq S
  OBVIOUS
<1>. HIDE DEF S
<1>11. token \in Seq(S) /\ value \in Seq(S)
  BY <1>8, <1>10, SeqMonotonic DEF Text
<1>12. /\ whole \in Seq(S) /\ Len(whole) = Len(value)
       /\ \A i \in 1 .. Len(value) : whole[i] = value[i]
  <2>1. /\ whole \in Seq(S) /\ Len(whole) = 2 + Len(token)
        /\ whole[1] = tier /\ whole[2] = ":"
        /\ \A i \in 3 .. 2 + Len(token) : whole[i] = token[i - 2]
    BY <1>9, <1>11
  <2>. HIDE DEF whole
  <2>. QED
    BY <1>1, <1>2, <1>6, <1>8, <2>1
<1>13. whole = value
  <2>. HIDE DEF whole
  <2>. QED
    BY <1>11, <1>12, SeqEqual
<1>. QED
  BY <1>8, <1>13 DEF token

\* The consumer of a request has its token, or there are none to have.
LEMMA ConsumerIsGranted ==
    ASSUME NEW k \in DOMAIN Environs, NEW bearer, NEW consumer, consumer # None,
           consumer = require_bearer_record(bearer, Config[k].tokens)
    PROVE  \/ /\ bearer # None
              /\ \E v \in ToSet(Environs[k].vars) : Grants(v, bearer, consumer)
           \/ consumer = <<"_unauth">> /\ DOMAIN Config[k].tokens = {}
<1>. DEFINE vs == Environs[k].vars
            tokens == Config[k].tokens
            same == {i \in DOMAIN tokens : tokens[i].token = bearer}
            named == {n \in DOMAIN vs : Named(vs[n]) /\ Problem(vs[n]) = "none"}
<1>1. tokens = Records(vs)
  BY DEF Config, from_env, discover_named_tokens
<1>2. DOMAIN tokens = named /\ \A i \in named : tokens[i] = TokenRecord(vs[i])
  BY <1>1 DEF Records
<1>3. CASE DOMAIN tokens = {}
  BY <1>3 DEF require_bearer_record
<1>4. CASE DOMAIN tokens # {}
  <2>1. same # {} /\ consumer = tokens[Min(same)].name
    BY <1>4 DEF require_bearer_record
  <2>2. IsFiniteSet(same) /\ same \subseteq Int
    BY <1>2, FS_Subset, EnvironsAssumption
  <2>. DEFINE i == Min(same)
  <2>3. i \in same
    <3>. HIDE DEF same
    <3>. QED
      BY <2>1, <2>2, FiniteMin DEF Min
  <2>. HIDE DEF i
  <2>4. i \in named /\ TokenRecord(vs[i]).token = bearer /\ TokenRecord(vs[i]).name = consumer
    BY <1>2, <2>1, <2>3 DEF i
  <2>. DEFINE v == vs[i]
  <2>5. v \in ToSet(vs) /\ Named(v) /\ Problem(v) = "none"
    BY <2>4 DEF ToSet
  <2>6. v.name \in Text \ {<<>>} /\ v.value \in Text
    BY <2>5, EnvironsAssumption
  <2>7. Token(v.value) = bearer /\ ConsumerName(v.name) = consumer
    BY <2>4 DEF TokenRecord
  <2>. HIDE DEF v, vs
  <2>8. /\ Suffix(v.name) # <<>> /\ AfterColon(v.value) # 0
        /\ Tier(v.value) \in {<<"full">>, <<"public">>}
    BY <2>5 DEF Problem
  <2>9. /\ v.value \in {<<"full", ":">> \o bearer, <<"public", ":">> \o bearer}
        /\ bearer \in Text
    BY <2>6, <2>7, <2>8, ValueSplits
  <2>10. bearer # None
    BY <2>9, TextAssumption
  <2>11. Grants(v, bearer, consumer)
    BY <2>5, <2>7, <2>8, <2>9 DEF Grants
  <2>. QED
    BY <2>5, <2>10, <2>11 DEF vs
<1>. QED
  BY <1>3, <1>4

\* What a request leaves is an event, marked as its client's and stamped.
LEMMA RowIsOwned ==
    ASSUME NEW c \in Client, req[c].body \in Batches, conf \in DOMAIN Environs,
           Consumer(c) # None, NEW i \in Built(req[c].body), NEW now \in Int
    PROVE  LET row == Row(c, i, now)
           IN /\ RowTyped(row) /\ FromClient(row) /\ Owned(row)
              /\ row.id = <<c, i, attempts[c]>>
<1>. DEFINE row == Row(c, i, now)
            raw == req[c].body.events[i]
            resource == req[c].body.resource
            e == build_event(raw, resource, Consumer(c), now)
<1>1. /\ row.ts = e.ts /\ row.event = e.event /\ row.service = e.service /\ row.env = e.env
      /\ row.payload = e.payload
  BY DEF Row, Over, build_event
<1>2. row.id = <<c, i, attempts[c]>> /\ row.bearer = req[c].bearer /\ row.conf = conf
  BY DEF Row, Over, build_event
<1>3. /\ e.ts = Or(raw.ts, now) /\ e.event = raw.event
      /\ e.service = Or(raw.service, resource.service) /\ e.env = Or(raw.env, resource.env)
      /\ e.payload = stamp_auth_consumer(raw.payload, Consumer(c))
  BY DEF build_event
<1>4. i \in DOMAIN req[c].body.events /\ raw.event # None
  BY DEF Built, Rejected
<1>5. /\ raw.event \in Text /\ raw.service \in Text \union {None}
      /\ raw.env \in Text \union {None} /\ raw.ts \in Int \union {None}
      /\ resource.service \in Text \union {None} /\ resource.env \in Text \union {None}
  BY <1>4, TextAssumption
<1>. HIDE DEF row, raw, resource, e
<1>6. RowTyped(row)
  BY <1>1, <1>3, <1>5 DEF RowTyped, Or
<1>7. row.payload["_auth_consumer"].text = Consumer(c)
  <2>1. stamp_auth_consumer(raw.payload, Consumer(c))["_auth_consumer"].text = Consumer(c)
    BY DEF stamp_auth_consumer, Stamp, Over
  <2>. QED
    BY <1>1, <1>3, <2>1
<1>8. Owned(row)
  <2>1. Consumer(c) = require_bearer_record(req[c].bearer, Config[conf].tokens)
    BY DEF Consumer, cfg
  <2>. DEFINE consumer == Consumer(c)
              bearer == req[c].bearer
  <2>2. \/ /\ bearer # None
           /\ \E v \in ToSet(Environs[conf].vars) : Grants(v, bearer, consumer)
        \/ consumer = <<"_unauth">> /\ DOMAIN Config[conf].tokens = {}
    BY <2>1, ConsumerIsGranted
  <2>3. row.payload["_auth_consumer"].text = consumer /\ row.bearer = bearer /\ row.conf = conf
    BY <1>2, <1>7
  <2>. HIDE DEF consumer, bearer
  <2>. QED
    BY <2>2, <2>3 DEF Owned
<1>9. Len(<<c, i, attempts[c]>>) = 3
  OBVIOUS
<1>. QED
  BY <1>2, <1>6, <1>8, <1>9 DEF FromClient, row
-----------------------------------------------------------------------------
(***************************************************************************)
(* Steps.                                                                  *)
(***************************************************************************)
\* The rows the running process reads are its store's.
LEMMA RowsAreAStore ==
    ASSUME IngestInv
    PROVE  Rows \in {disk, mem} /\ RowsOK(Rows) /\ SeedsFirst(Rows) /\ Range(Rows) \subseteq Stored
BY DEF IngestInv, TypeInv, Rows, Stored

\* A step that neither answers nor posts for a client, adds no row of its
\* attempt and discards none that is safe, keeps what its answer says.
LEMMA AnswerKept ==
    ASSUME NEW c \in Client, AnswerInv(c),
           req' = req, reply'[c] = reply[c], attempts'[c] = attempts[c],
           pc'[c] = "sent" => pc[c] = "sent",
           \A row \in Stored' : \/ row \in Stored
                                \/ \A i \in Nat : row.id # <<c, i, attempts[c]>>,
           Range(disk) \union archive \subseteq Range(disk') \union archive'
    PROVE  AnswerInv(c)'
<1>1. NothingOf(c) => NothingOf(c)'
  BY DEF NothingOf
<1>2. reply[c] # None /\ CountIsTrue(c) => CountIsTrue(c)'
  <2>. SUFFICES ASSUME CountIsTrue(c) PROVE CountIsTrue(c)'
    OBVIOUS
  <2>1. PICK S \in SUBSET Built(req[c].body) :
           /\ reply[c].accepted = Cardinality(S)
           /\ reply[c].rejected = Rejected(req[c].body)
           /\ \A row \in Stored, i \in Nat : row.id = <<c, i, attempts[c]>> => i \in S
           /\ Persistent(reply[c].conf) =>
                 \A i \in S : \E row \in Range(disk) \union archive : row.id = <<c, i, attempts[c]>>
    BY DEF CountIsTrue
  <2>2. \A row \in Stored', i \in Nat : row.id = <<c, i, attempts'[c]>> => i \in S
    BY <2>1
  <2>3. Persistent(reply[c].conf) =>
           \A i \in S : \E row \in Range(disk') \union archive' : row.id = <<c, i, attempts'[c]>>
    BY <2>1
  <2>. QED
    BY <2>1, <2>2, <2>3 DEF CountIsTrue
<1>. QED
  BY <1>1, <1>2 DEF AnswerInv

\* Rows keep their client's number when it posts again.
LEMMA NumberedKept ==
    ASSUME NEW row, Numbered(row), attempts \in [Client -> Nat], attempts' \in [Client -> Nat],
           \A c \in Client : attempts[c] <= attempts'[c]
    PROVE  Numbered(row)'
<1>1. PICK c \in Client, i \in Nat : \E a \in 1 .. attempts[c] : row.id = <<c, i, a>>
  BY DEF Numbered
<1>2. PICK a \in 1 .. attempts[c] : row.id = <<c, i, a>>
  BY <1>1
<1>3. a \in 1 .. attempts'[c]
  BY <1>2
<1>. QED
  BY <1>2, <1>3 DEF Numbered

\* A boot, which may insert the seeds.
LEMMA BootStep ==
    ASSUME IngestInv, NEW k \in DOMAIN Environs, NEW now \in Times, Boot(k, now)
    PROVE  IngestInv' /\ Safe
<1>. DEFINE seeds == seed_dummy_events(now)
            rs == IF Persistent(k) THEN disk ELSE <<>>
            seeded == Inserted(rs, seeds)
            none == <<>>
<1>1. /\ IsFiniteSet(DOMAIN seeds) /\ DOMAIN seeds \subseteq Nat \ {0}
      /\ \A n \in DOMAIN seeds :
            RowTyped(seeds[n]) /\ ~FromClient(seeds[n]) /\ seeds[n].id = <<"seed", n>>
  BY SeedsAreEvents, ParamsAssumption
<1>2. RowsOK(none) /\ SeedsFirst(none) /\ Range(none) = {}
  <2>1. DOMAIN none = {}
    OBVIOUS
  <2>. HIDE DEF none
  <2>. QED
    BY <2>1, FS_EmptySet DEF RowsOK, SeedsFirst, Range
<1>3. RowsOK(rs)
  BY <1>2 DEF IngestInv, TypeInv
<1>4. \/ mem' = none /\ disk' = disk
      \/ /\ DOMAIN rs = {}
         /\ (Persistent(k) /\ disk' = seeded /\ mem' = none) \/ (mem' = seeded /\ disk' = disk)
  BY DEF Boot, NeedsSeed
<1>5. UNCHANGED <<archive, pc, req, attempts, reply>> /\ conf' = k
  BY DEF Boot
<1>. HIDE DEF seeds, none
<1>6. ASSUME DOMAIN rs = {}
      PROVE  RowsOK(seeded) /\ SeedsFirst(seeded) /\ Range(seeded) = Range(seeds)
  <2>1. \A i \in DOMAIN seeds : seeds[i].ts \in Int
    BY <1>1 DEF RowTyped
  <2>2. /\ RowsOK(seeded) /\ Range(seeded) = Range(rs) \union Range(seeds)
        /\ \A n \in DOMAIN seeded \ DOMAIN rs :
              \E i \in DOMAIN seeds : n = LastRow(rs) + i /\ seeded[n] = seeds[i]
    <3>. HIDE DEF rs
    <3>. QED
      BY <1>1, <1>3, <2>1, InsertedRows
  <2>3. Range(rs) = {}
    BY <1>6 DEF Range
  <2>4. LastRow(rs) = 0
    BY <1>6 DEF LastRow
  <2>. HIDE DEF rs, seeded
  <2>5. \A n \in DOMAIN seeded : ~FromClient(seeded[n]) /\ seeded[n].id = <<"seed", n>>
    <3>1. ASSUME NEW n \in DOMAIN seeded PROVE n \in DOMAIN seeds /\ seeded[n] = seeds[n]
      BY <1>1, <1>6, <2>2, <2>4
    <3>. QED
      BY <1>1, <3>1
  <2>6. SeedsFirst(seeded)
    <3>1. \A i, j : <<"seed", i>> = <<"seed", j>> => i = j
      OBVIOUS
    <3>2. DOMAIN seeded \subseteq Int
      BY <2>2 DEF RowsOK
    <3>. QED
      BY <2>5, <3>1, <3>2 DEF SeedsFirst
  <2>. QED
    BY <2>2, <2>3, <2>6
<1>7. RowsOK(disk') /\ RowsOK(mem') /\ SeedsFirst(disk') /\ SeedsFirst(mem')
  BY <1>2, <1>4, <1>6 DEF IngestInv, TypeInv
<1>8. Stored' \subseteq Stored \union Range(seeds) /\ Range(disk) \subseteq Range(disk')
  <2>1. DOMAIN rs = {} /\ Persistent(k) => Range(disk) = {}
    BY DEF Range
  <2>. QED
    BY <1>2, <1>4, <1>5, <1>6, <2>1 DEF Stored
<1>9. \A row \in Range(seeds) : RowTyped(row) /\ ~FromClient(row)
  BY <1>1 DEF Range
<1>10. \A row \in Stored' : RowTyped(row) /\ (FromClient(row) => Owned(row) /\ Numbered(row))
  BY <1>8, <1>9 DEF IngestInv, TypeInv
<1>11. TypeInv'
  <2>1. \A row : Numbered(row) => Numbered(row)'
    BY <1>5 DEF Numbered
  <2>. QED
    BY <1>5, <1>7, <1>10, <2>1 DEF IngestInv, TypeInv
<1>12. ASSUME NEW c \in Client PROVE AnswerInv(c)'
  <2>1. \A row : ~FromClient(row) => \A i \in Nat : row.id # <<c, i, attempts[c]>>
    BY DEF FromClient
  <2>2. \A row \in Stored' : \/ row \in Stored
                             \/ \A i \in Nat : row.id # <<c, i, attempts[c]>>
    BY <1>8, <1>9, <2>1
  <2>. QED
    BY <1>5, <1>8, <2>2, AnswerKept DEF IngestInv
<1>. QED
  BY <1>7, <1>8, <1>11, <1>12 DEF IngestInv, Safe

\* A crash, which empties the memory.
LEMMA CrashStep == ASSUME IngestInv, Crash PROVE IngestInv' /\ Safe
<1>. DEFINE none == <<>>
<1>1. RowsOK(none) /\ SeedsFirst(none) /\ Range(none) = {}
  <2>1. DOMAIN none = {}
    OBVIOUS
  <2>. HIDE DEF none
  <2>. QED
    BY <2>1, FS_EmptySet DEF RowsOK, SeedsFirst, Range
<1>2. mem' = none /\ UNCHANGED <<disk, archive, req, attempts, reply>> /\ conf' = 0
  BY DEF Crash
<1>3. /\ DOMAIN pc' = Client
      /\ \A c \in Client : pc'[c] = "sent" => pc[c] = "sent"
  BY DEF Crash
<1>. HIDE DEF none
<1>4. Stored' \subseteq Stored
  BY <1>1, <1>2 DEF Stored
<1>5. TypeInv'
  <2>1. \A row : Numbered(row) => Numbered(row)'
    BY <1>2 DEF Numbered
  <2>. QED
    BY <1>1, <1>2, <1>3, <1>4, <2>1 DEF IngestInv, TypeInv
<1>6. ASSUME NEW c \in Client PROVE AnswerInv(c)'
  BY <1>2, <1>3, <1>4, AnswerKept DEF IngestInv
<1>. QED
  BY <1>1, <1>2, <1>5, <1>6 DEF IngestInv, Safe

\* A rotation, which puts what it deletes into S3.
LEMMA RotateStep == ASSUME IngestInv, NEW cutoff, Rotate(cutoff) PROVE IngestInv' /\ Safe
<1>. DEFINE old == {i \in DOMAIN Rows : Rows[i].ts < cutoff}
            part == [i \in DOMAIN Rows \ old |-> Rows[i]]
<1>1. RowsOK(Rows) /\ SeedsFirst(Rows)
  BY RowsAreAStore
<1>2. RowsOK(part) /\ SeedsFirst(part) /\ Range(Rows) = Range(part) \union {Rows[i] : i \in old}
  <2>1. old \subseteq DOMAIN Rows
    OBVIOUS
  <2>. HIDE DEF old
  <2>. QED
    BY <1>1, <2>1, PartOfRows
<1>3. SetRows(part) /\ archive' = archive \union {Rows[i] : i \in old} /\ conf # 0
  BY DEF Rotate, Rotates, cfg
<1>4. UNCHANGED <<conf, pc, req, attempts, reply>>
  BY DEF Rotate
<1>. HIDE DEF old, part
<1>5. \/ Rows = disk /\ disk' = part /\ mem' = mem
      \/ Rows = mem /\ mem' = part /\ disk' = disk
  BY <1>3 DEF SetRows, Rows
<1>6. Stored' \subseteq Stored
  BY <1>2, <1>3, <1>5 DEF Stored
<1>7. Range(disk) \union archive \subseteq Range(disk') \union archive'
  BY <1>2, <1>3, <1>5
<1>8. TypeInv'
  <2>1. \A row : Numbered(row) => Numbered(row)'
    BY <1>4 DEF Numbered
  <2>. QED
    BY <1>2, <1>4, <1>5, <1>6, <2>1 DEF IngestInv, TypeInv
<1>9. ASSUME NEW c \in Client PROVE AnswerInv(c)'
  BY <1>4, <1>6, <1>7, AnswerKept DEF IngestInv
<1>. QED
  BY <1>2, <1>5, <1>7, <1>8, <1>9 DEF IngestInv, Safe

\* A post: no row has the number of the new attempt yet.
LEMMA PostStep == ASSUME IngestInv, NEW c \in Client, Post(c) PROVE IngestInv' /\ Safe
<1>1. UNCHANGED <<conf, disk, mem, archive, req>> /\ Stored' = Stored
  BY DEF Post, Stored
<1>2. /\ pc' = [pc EXCEPT ![c] = "sent"]
      /\ reply' = [reply EXCEPT ![c] = None]
      /\ attempts' = [attempts EXCEPT ![c] = @ + 1]
  BY DEF Post
<1>3. /\ attempts \in [Client -> Nat] /\ attempts' \in [Client -> Nat]
      /\ DOMAIN pc = Client /\ DOMAIN reply = Client
      /\ \A d \in Client : attempts[d] <= attempts'[d]
  BY <1>2 DEF IngestInv, TypeInv
<1>4. TypeInv'
  <2>1. \A row \in Stored : RowTyped(row) /\ (FromClient(row) => Owned(row) /\ Numbered(row)')
    BY <1>3, NumberedKept DEF IngestInv, TypeInv
  <2>. QED
    BY <1>1, <1>2, <1>3, <2>1 DEF IngestInv, TypeInv
<1>5. AnswerInv(c)'
  <2>1. ASSUME NEW row \in Stored, NEW i \in Nat PROVE row.id # <<c, i, attempts'[c]>>
    <3>. SUFFICES ASSUME row.id = <<c, i, attempts'[c]>> PROVE FALSE
      OBVIOUS
    <3>1. FromClient(row)
      BY DEF FromClient
    <3>2. PICK d \in Client, j \in Nat : \E a \in 1 .. attempts[d] : row.id = <<d, j, a>>
      BY <3>1 DEF IngestInv, TypeInv, Numbered
    <3>3. PICK a \in 1 .. attempts[d] : row.id = <<d, j, a>>
      BY <3>2
    <3>4. c = d /\ attempts'[c] = a
      BY <3>3
    <3>. QED
      BY <1>2, <1>3, <3>3, <3>4
  <2>2. NothingOf(c)'
    BY <1>1, <2>1 DEF NothingOf
  <2>. QED
    BY <1>2, <1>3, <2>2 DEF AnswerInv
<1>6. ASSUME NEW d \in Client, d # c PROVE AnswerInv(d)'
  BY <1>1, <1>2, <1>3, <1>6, AnswerKept DEF IngestInv
<1>. QED
  BY <1>1, <1>4, <1>5, <1>6 DEF IngestInv, Safe

\* A refusal leaves nothing.
LEMMA RefuseStep ==
    ASSUME IngestInv, NEW c \in Client, pc[c] = "sent", NEW n, n # 202, Answer(c, Status(n)),
           UNCHANGED <<disk, mem>>
    PROVE  IngestInv' /\ Safe
<1>1. UNCHANGED <<conf, disk, mem, archive, req, attempts>> /\ Stored' = Stored
  BY DEF Answer, Stored
<1>2. pc' = [pc EXCEPT ![c] = "replied"] /\ reply' = [reply EXCEPT ![c] = Status(n)]
  BY DEF Answer
<1>3. DOMAIN pc = Client /\ DOMAIN reply = Client
  BY DEF IngestInv, TypeInv
<1>4. TypeInv'
  <2>1. \A row : Numbered(row) => Numbered(row)'
    BY <1>1 DEF Numbered
  <2>. QED
    BY <1>1, <1>2, <1>3, <2>1 DEF IngestInv, TypeInv
<1>5. AnswerInv(c)'
  <2>1. NothingOf(c)
    BY DEF IngestInv, AnswerInv
  <2>2. NothingOf(c)'
    BY <1>1, <2>1 DEF NothingOf
  <2>3. reply'[c].status = n
    BY <1>2, <1>3 DEF Status
  <2>4. pc'[c] # "sent"
    BY <1>2, <1>3
  <2>. QED
    BY <2>2, <2>3, <2>4 DEF AnswerInv
<1>6. ASSUME NEW d \in Client, d # c PROVE AnswerInv(d)'
  BY <1>1, <1>2, <1>3, <1>6, AnswerKept DEF IngestInv
<1>. QED
  BY <1>1, <1>4, <1>5, <1>6 DEF IngestInv, Safe

\* An accepted batch: what the store takes is counted, stamped and kept.
LEMMA AcceptStep ==
    ASSUME IngestInv, NEW c \in Client, NEW now \in Times, NEW failed, Accept(c, now, failed)
    PROVE  IngestInv' /\ Safe
<1>. DEFINE body == req[c].body
            S == Stores(body, failed)
            new == [i \in S |-> Row(c, i, now)]
            all == Inserted(Rows, new)
<1>1. /\ conf \in DOMAIN Environs /\ conf # 0 /\ body \in Batches /\ now \in Int
      /\ Consumer(c) # None /\ pc[c] = "sent"
  BY ParamsAssumption, EnvironsAssumption DEF Accept, IngestInv, TypeInv
<1>2. S \subseteq Built(body)
  BY DEF Stores
<1>3. Built(body) \subseteq Nat \ {0} /\ IsFiniteSet(Built(body))
  <2>1. DOMAIN body.events = 1 .. Len(body.events) /\ Len(body.events) \in Nat
    BY <1>1, TextAssumption
  <2>2. IsFiniteSet(DOMAIN body.events)
    <3>. DEFINE n == Len(body.events)
                D == DOMAIN body.events
    <3>1. D = 1 .. n /\ 1 \in Int /\ n \in Int
      BY <2>1
    <3>. HIDE DEF n, D
    <3>2. IsFiniteSet(1 .. n)
      BY <3>1, FS_Interval
    <3>. QED
      BY <3>1, <3>2 DEF D
  <2>. QED
    BY <2>1, <2>2, FS_Subset DEF Built
<1>4. \A i \in S : /\ RowTyped(new[i]) /\ FromClient(new[i]) /\ Owned(new[i])
                   /\ new[i].id = <<c, i, attempts[c]>>
  BY <1>1, <1>2, RowIsOwned
<1>5. DOMAIN new = S
  OBVIOUS
<1>6. /\ SetRows(all)
      /\ pc' = [pc EXCEPT ![c] = "replied"]
      /\ reply' = [reply EXCEPT ![c] = [status |-> 202, accepted |-> Cardinality(S),
                                         rejected |-> Rejected(body), conf |-> conf]]
      /\ UNCHANGED <<conf, archive, req, attempts>>
  BY DEF Accept, Answer, Accepted
<1>. HIDE DEF body, S, new
<1>7. /\ IsFiniteSet(DOMAIN new) /\ DOMAIN new \subseteq Nat \ {0}
      /\ \A i \in DOMAIN new : new[i].ts \in Int /\ FromClient(new[i])
  BY <1>2, <1>3, <1>4, <1>5, FS_Subset DEF RowTyped
<1>8. /\ RowsOK(all) /\ SeedsFirst(all) /\ Range(all) = Range(Rows) \union Range(new)
  BY <1>7, RowsAreAStore, InsertedRows, ClientsComeLater
<1>. HIDE DEF all
<1>9. \/ Persistent(conf) /\ Rows = disk /\ disk' = all /\ mem' = mem
      \/ ~Persistent(conf) /\ Rows = mem /\ mem' = all /\ disk' = disk
  BY <1>1, <1>6 DEF SetRows, Rows
<1>10. /\ Stored' = Stored \union Range(new)
       /\ Range(disk) \union archive \subseteq Range(disk') \union archive'
       /\ Persistent(conf) => Range(new) \subseteq Range(disk')
  BY <1>6, <1>8, <1>9 DEF Stored
<1>11. \A row \in Range(new) : \E i \in S : row = new[i]
  BY <1>5 DEF Range
<1>12. attempts \in [Client -> Nat] /\ DOMAIN pc = Client /\ DOMAIN reply = Client
  BY DEF IngestInv, TypeInv
<1>13. NothingOf(c)
  BY <1>1 DEF IngestInv, AnswerInv
<1>14. TypeInv'
  <2>1. \A row : Numbered(row) => Numbered(row)'
    BY <1>6 DEF Numbered
  <2>2. attempts[c] >= 1
    BY <1>1 DEF IngestInv, AnswerInv
  <2>3. \A row \in Range(new) : RowTyped(row) /\ Owned(row) /\ Numbered(row)
    <3>1. ASSUME NEW i \in S PROVE Numbered(new[i])
      <4>1. attempts[c] \in 1 .. attempts[c] /\ i \in Nat
        BY <1>2, <1>3, <1>12, <2>2
      <4>. QED
        BY <1>4, <4>1 DEF Numbered
    <3>. QED
      BY <1>4, <1>11, <3>1
  <2>. QED
    BY <1>6, <1>8, <1>9, <1>10, <1>12, <2>1, <2>3 DEF IngestInv, TypeInv
<1>15. AnswerInv(c)'
  <2>1. /\ reply'[c].status = 202 /\ reply'[c].accepted = Cardinality(S)
        /\ reply'[c].rejected = Rejected(req'[c].body) /\ reply'[c].conf = conf
    BY <1>6, <1>12 DEF body
  <2>2. ASSUME NEW row \in Stored', NEW i \in Nat, row.id = <<c, i, attempts'[c]>> PROVE i \in S
    <3>1. row \notin Stored
      BY <1>6, <1>13, <2>2 DEF NothingOf
    <3>2. PICK j \in S : row = new[j]
      BY <1>10, <1>11, <3>1
    <3>3. <<c, i, attempts[c]>> = <<c, j, attempts[c]>>
      BY <1>4, <1>6, <2>2, <3>2
    <3>. QED
      BY <3>3
  <2>3. ASSUME Persistent(conf), NEW i \in S
        PROVE  \E row \in Range(disk') \union archive' : row.id = <<c, i, attempts'[c]>>
    <3>1. new[i] \in Range(new)
      BY <1>5 DEF Range
    <3>. QED
      BY <1>4, <1>6, <1>10, <2>3, <3>1
  <2>4. CountIsTrue(c)'
    BY <1>2, <1>6, <2>1, <2>2, <2>3 DEF CountIsTrue, body
  <2>5. pc'[c] # "sent"
    BY <1>6, <1>12
  <2>. QED
    BY <2>1, <2>4, <2>5 DEF AnswerInv
<1>16. ASSUME NEW d \in Client, d # c PROVE AnswerInv(d)'
  <2>1. ASSUME NEW i \in S, NEW j \in Nat PROVE new[i].id # <<d, j, attempts[d]>>
    BY <1>4, <1>16
  <2>2. \A row \in Stored' : \/ row \in Stored
                             \/ \A j \in Nat : row.id # <<d, j, attempts[d]>>
    BY <1>10, <1>11, <2>1
  <2>3. AnswerInv(d) /\ reply'[d] = reply[d] /\ pc'[d] = pc[d]
    BY <1>6, <1>12, <1>16 DEF IngestInv
  <2>. QED
    BY <1>6, <1>10, <2>2, <2>3, AnswerKept
<1>. QED
  BY <1>8, <1>9, <1>10, <1>14, <1>15, <1>16 DEF IngestInv, Safe

\* Every step keeps the invariant, and what the file has.
LEMMA IngestStep == ASSUME IngestInv, [Next]_vars PROVE IngestInv' /\ Safe
<1>1. ASSUME NEW k \in DOMAIN Environs, NEW now \in Times, Boot(k, now)
      PROVE  IngestInv' /\ Safe
  BY <1>1, BootStep
<1>2. CASE Crash
  BY <1>2, CrashStep
<1>3. ASSUME NEW c \in Client, Post(c) PROVE IngestInv' /\ Safe
  BY <1>3, PostStep
<1>4. ASSUME NEW c \in Client, Unauthorized(c) PROVE IngestInv' /\ Safe
  BY <1>4, RefuseStep DEF Unauthorized
<1>5. ASSUME NEW c \in Client, StoreFails(c) PROVE IngestInv' /\ Safe
  BY <1>5, RefuseStep DEF StoreFails
<1>6. ASSUME NEW c \in Client, NEW now \in Times, NEW failed, Accept(c, now, failed)
      PROVE  IngestInv' /\ Safe
  BY <1>6, AcceptStep
<1>7. ASSUME NEW cutoff \in Times, Rotate(cutoff) PROVE IngestInv' /\ Safe
  BY <1>7, RotateStep
<1>8. CASE UNCHANGED vars
  <2>1. UNCHANGED <<conf, disk, mem, archive, pc, req, attempts, reply>> /\ Stored' = Stored
    BY <1>8 DEF vars, Stored
  <2>2. TypeInv'
    <3>1. \A row : Numbered(row) => Numbered(row)'
      BY <2>1 DEF Numbered
    <3>. QED
      BY <2>1, <3>1 DEF IngestInv, TypeInv
  <2>3. \A c \in Client : AnswerInv(c)'
    BY <2>1, AnswerKept DEF IngestInv
  <2>. QED
    BY <2>1, <2>2, <2>3 DEF IngestInv, Safe
<1>. QED
  BY <1>1, <1>2, <1>3, <1>4, <1>5, <1>6, <1>7, <1>8 DEF Next

\* At first nothing is stored.
LEMMA IngestInit == ASSUME Init PROVE IngestInv
<1>. DEFINE none == <<>>
<1>1. RowsOK(none) /\ SeedsFirst(none) /\ Range(none) = {}
  <2>1. DOMAIN none = {}
    OBVIOUS
  <2>. HIDE DEF none
  <2>. QED
    BY <2>1, FS_EmptySet DEF RowsOK, SeedsFirst, Range
<1>2. disk = none /\ mem = none /\ archive = {}
  BY DEF Init
<1>. HIDE DEF none
<1>3. Stored = {}
  BY <1>1, <1>2 DEF Stored
<1>4. TypeInv
  BY <1>1, <1>2, <1>3 DEF Init, TypeInv
<1>5. ASSUME NEW c \in Client PROVE AnswerInv(c)
  BY DEF Init, AnswerInv
<1>. QED
  BY <1>1, <1>2, <1>4, <1>5 DEF IngestInv

\* Rows are events in the order of insertion, stamped and numbered; seeds come
\* first; and every answer is explained by the rows of its attempt.
THEOREM IngestInvariance == Spec => []IngestInv
<1>1. Init => IngestInv
  BY IngestInit
<1>2. IngestInv /\ [Next]_vars => IngestInv'
  BY IngestStep
<1>. QED
  BY <1>1, <1>2, PTL DEF Spec
-----------------------------------------------------------------------------
(***************************************************************************)
(* What follows.                                                           *)
(***************************************************************************)
\* Every row of a client is stamped with a name that the environment of its
\* time gave to the token of its request (ingest.rs:119).
THEOREM StampsAreTrue == Spec => []Attributed
<1>1. IngestInv => Attributed
  BY DEF IngestInv, TypeInv, Owned, Attributed
<1>. QED
  BY <1>1, IngestInvariance, PTL

\* When /ingest is open although variables for its tokens are set, each of
\* them has its warning (config.rs:145).
THEOREM OpenIsWarned == Spec => []NoSilentAuthOff
<1>1. ASSUME IngestInv PROVE NoSilentAuthOff
  <2>. SUFFICES ASSUME conf # 0, DOMAIN cfg.tokens = {}, NEW v \in ToSet(Environs[conf].vars),
                       v.name \in {<<"INGEST_TOKEN">>, <<"INGEST_TOKENS">>} \/ Named(v)
                PROVE  v \in cfg.warned
    BY DEF NoSilentAuthOff
  <2>. DEFINE vs == Environs[conf].vars
  <2>1. conf \in DOMAIN Environs
    BY <1>1 DEF IngestInv, TypeInv
  <2>2. /\ cfg.tokens = Records(vs)
        /\ cfg.warned = {w \in ToSet(vs) : Named(w) /\ Problem(w) # "none"}
                           \union check_deprecated_vars(vs)
    BY <2>1 DEF cfg, Config, from_env, discover_named_tokens
  <2>3. PICK i \in DOMAIN vs : v = vs[i]
    BY DEF ToSet
  <2>4. CASE Named(v)
    <3>1. Problem(v) # "none"
      BY <2>2, <2>3, <2>4 DEF Records
    <3>. QED
      BY <2>2, <2>4, <3>1
  <2>5. CASE v.name \in {<<"INGEST_TOKEN">>, <<"INGEST_TOKENS">>}
    BY <2>2, <2>5 DEF check_deprecated_vars
  <2>. QED
    BY <2>4, <2>5
<1>. QED
  BY <1>1, IngestInvariance, PTL

\* A 401 or a 500 left nothing behind, and a 202 counts what is kept.
THEOREM AnswersAreTrue == Spec => []AnswerIsTrue
<1>1. ASSUME IngestInv, NEW c \in Client, reply[c] # None
      PROVE  LET kept == {i \in DOMAIN req[c].body.events :
                             \E row \in Stored : row.id = <<c, i, attempts[c]>>}
             IN IF reply[c].status # 202 THEN kept = {}
                ELSE Persistent(reply[c].conf) =>
                     /\ Cardinality(kept) = reply[c].accepted
                     /\ kept \intersect reply[c].rejected = {}
                     /\ reply[c].accepted + Cardinality(reply[c].rejected) = Len(req[c].body.events)
                           => kept = DOMAIN req[c].body.events \ reply[c].rejected
  <2>. DEFINE body == req[c].body
              D == DOMAIN body.events
              R == Rejected(body)
              B == Built(body)
              kept == {i \in D : \E row \in Stored : row.id = <<c, i, attempts[c]>>}
  <2>1. D = 1 .. Len(body.events) /\ Len(body.events) \in Nat
    <3>1. body \in Batches
      BY <1>1 DEF IngestInv, TypeInv
    <3>. QED
      BY <3>1, TextAssumption
  <2>2. R \subseteq D /\ B = D \ R
    BY DEF Rejected, Built
  <2>3. CASE reply[c].status # 202
    BY <1>1, <2>1, <2>3 DEF IngestInv, AnswerInv, NothingOf
  <2>4. CASE reply[c].status = 202 /\ Persistent(reply[c].conf)
    <3>1. PICK S \in SUBSET B :
             /\ reply[c].accepted = Cardinality(S)
             /\ reply[c].rejected = R
             /\ \A row \in Stored, i \in Nat : row.id = <<c, i, attempts[c]>> => i \in S
             /\ \A i \in S : \E row \in Range(disk) \union archive : row.id = <<c, i, attempts[c]>>
      BY <1>1, <2>4 DEF IngestInv, AnswerInv, CountIsTrue
    <3>2. kept = S
      <4>1. S \subseteq D /\ D \subseteq Nat
        BY <2>1, <2>2, <3>1
      <4>2. \A i \in S : \E row \in Stored : row.id = <<c, i, attempts[c]>>
        BY <3>1 DEF Stored
      <4>. HIDE DEF D
      <4>. QED
        BY <3>1, <4>1, <4>2
    <3>. HIDE DEF D, R, B, kept, body
    <3>3. IsFiniteSet(D) /\ Cardinality(D) = Len(body.events)
      BY <2>1, FS_Interval
    <3>4. /\ IsFiniteSet(R) /\ IsFiniteSet(B) /\ IsFiniteSet(S)
          /\ Cardinality(R) \in Nat /\ Cardinality(B) \in Nat /\ Cardinality(S) \in Nat
      BY <2>2, <3>3, FS_Subset, FS_CardinalityType
    <3>5. Cardinality(D) = Cardinality(R) + Cardinality(B)
      <4>1. R \intersect B = {} /\ R \union B = D
        BY <2>2
      <4>2. Cardinality({}) = 0
        BY FS_EmptySet
      <4>3. Cardinality(R \union B) = Cardinality(R) + Cardinality(B) - Cardinality(R \intersect B)
        BY <3>4, FS_Union
      <4>4. Cardinality(R \union B) = Cardinality(D) /\ Cardinality(R \intersect B) = 0
        BY <4>1, <4>2
      <4>. QED
        BY <3>4, <4>3, <4>4
    <3>6. Cardinality(S) + Cardinality(R) = Len(body.events) => S = B
      <4>1. Cardinality(S) + Cardinality(R) = Len(body.events) => Cardinality(S) = Cardinality(B)
        BY <2>1, <3>3, <3>4, <3>5
      <4>. QED
        BY <3>4, <4>1, FS_Subset
    <3>7. /\ Cardinality(kept) = reply[c].accepted
          /\ kept \intersect reply[c].rejected = {}
          /\ reply[c].accepted + Cardinality(reply[c].rejected) = Len(body.events)
                => kept = D \ reply[c].rejected
      BY <2>2, <3>1, <3>2, <3>6
    <3>. QED
      BY <2>4, <3>7 DEF D, body, kept
  <2>. QED
    BY <2>3, <2>4
<1>2. IngestInv => AnswerIsTrue
  BY <1>1 DEF AnswerIsTrue
<1>. QED
  BY <1>2, IngestInvariance, PTL

\* No store holds a seed twice, nor seeds after other events (main.rs:86).
THEOREM SeedsStayFirst == Spec => []SeedsFirstAndOnce
<1>1. IngestInv => SeedsFirstAndOnce
  BY RowsAreAStore DEF SeedsFirstAndOnce, SeedsFirst
<1>. QED
  BY <1>1, IngestInvariance, PTL

\* A row leaves the file only for S3 (main.rs:113).
THEOREM FileKeepsOrArchives == Spec => NothingDiscarded
<1>1. IngestInv /\ [Next]_vars => [Range(disk) \subseteq Range(disk') \union archive']_vars
  BY IngestStep DEF Safe
<1>. QED
  BY <1>1, IngestInvariance, PTL DEF Spec, NothingDiscarded

\* The tiers find the same rows, but for words, wildcards, capitals in a prefix
\* and work ids without one text (s3.rs:683).
THEOREM TiersFindTheSame == Spec => []TiersAgree
<1>1. ASSUME IngestInv, NEW row \in Stored, NEW p \in Params, ~TiersDiffer(row, p)
      PROVE  SqliteMatch(row, p) <=> match_event(row, p)
  <2>1. row.event \in Text /\ (p.event_prefix # None => p.event_prefix \in Text)
    BY <1>1, ParamsAssumption DEF IngestInv, TypeInv, RowTyped
  <2>. QED
    BY <1>1, <2>1, FiltersAgree
<1>2. IngestInv => TiersAgree
  BY <1>1 DEF TiersAgree
<1>. QED
  BY <1>2, IngestInvariance, PTL

\* The page of the memory store is one SQLite may give (memory.rs:41).
THEOREM StoresAnswerAlike == Spec => []StoresAgree
<1>1. ASSUME IngestInv, NEW p \in Params, 1 <= p.limit, p.limit <= 2000,
             \A i \in DOMAIN Rows : ~TiersDiffer(Rows[i], p)
      PROVE  /\ IsSqlitePage(Rows, p, MemoryPage(Rows, p))
             /\ SqliteCount(Rows, p) = MemoryCount(Rows, p)
             /\ p.cursor = None =>
                   Cardinality(MemoryPage(Rows, p).rows) =
                       IF MemoryCount(Rows, p) < p.limit THEN MemoryCount(Rows, p) ELSE p.limit
  <2>1. RowsOK(Rows) /\ \A i \in DOMAIN Rows : RowTyped(Rows[i])
    <3>1. \A i \in DOMAIN Rows : Rows[i] \in Stored
      BY DEF Rows, Stored, Range
    <3>. QED
      BY <1>1, <3>1, RowsAreAStore DEF IngestInv, TypeInv
  <2>2. \A i \in DOMAIN Rows : SqliteMatch(Rows[i], p) <=> match_event(Rows[i], p)
    BY <1>1, <2>1, FiltersAgree, ParamsAssumption DEF RowTyped
  <2>3. /\ IsSqlitePage(Rows, p, MemoryPage(Rows, p))
        /\ FillsUpTo(MemoryPage(Rows, p).rows, p.limit, MemoryFound(Rows, p))
    BY <1>1, <2>1, <2>2, MemoryPageIsSqlites, ParamsAssumption
  <2>4. SqliteCount(Rows, p) = MemoryCount(Rows, p)
    <3>1. {i \in DOMAIN Rows : SqliteMatch(Rows[i], p)} = {i \in DOMAIN Rows : match_event(Rows[i], p)}
      BY <2>2
    <3>. QED
      BY <3>1 DEF SqliteCount, MemoryCount
  <2>5. p.cursor = None => MemoryCount(Rows, p) = Cardinality(MemoryFound(Rows, p))
    <3>1. p.cursor = None => MemoryFound(Rows, p) = {i \in DOMAIN Rows : match_event(Rows[i], p)}
      BY DEF MemoryFound, Below
    <3>. QED
      BY <3>1 DEF MemoryCount
  <2>. QED
    BY <2>3, <2>4, <2>5 DEF FillsUpTo
<1>2. IngestInv => StoresAgree
  BY <1>1 DEF StoresAgree
<1>. QED
  BY <1>2, IngestInvariance, PTL

\* A value the filter lists suggest finds a row.
THEOREM SuggestionsFind == Spec => []NoDeadSuggestions
<1>1. ASSUME IngestInv, NEW field \in {"service", "env", "event_prefix"},
             NEW value \in Distinct(Rows, field)
      PROVE  LET p == [NoFilter(1) EXCEPT ![field] = value]
             IN \E i \in DOMAIN Rows : SqliteMatch(Rows[i], p) /\ match_event(Rows[i], p)
  <2>1. PICK i \in DOMAIN Rows :
           value = IF field = "event_prefix" THEN PrefixOf(Rows[i].event) ELSE Rows[i][field]
    BY DEF Distinct
  <2>2. Rows[i].event \in Text
    <3>1. Rows[i] \in Stored
      BY DEF Rows, Stored, Range
    <3>. QED
      BY <1>1, <3>1 DEF IngestInv, TypeInv, RowTyped
  <2>. QED
    BY <2>1, <2>2, SuggestedFinds
<1>2. IngestInv => NoDeadSuggestions
  BY <1>1 DEF NoDeadSuggestions
<1>. QED
  BY <1>2, IngestInvariance, PTL

\* The parts of a key: its env, its service and its hour.
LEMMA KeyOfRow ==
    ASSUME NEW row, RowTyped(row), NEW key, key = build_key(row, HourLen),
           NEW prefix, prefix \in {<<>>, OrUnknown(row.env), OrUnknown(row.env) \o OrUnknown(row.service)}
    PROVE  IsPrefix(prefix, key) /\ parse_key_hour(key) = floor_to_hour(row.ts, HourLen)
<1>. DEFINE S == STRING \union Int \union {"unknown"}
            env == OrUnknown(row.env)
            service == OrUnknown(row.service)
            hour == floor_to_hour(row.ts, HourLen)
<1>1. env \in Seq(S) /\ service \in Seq(S)
  <2>1. Unknown \in Seq(S)
    BY DEF Unknown
  <2>2. STRING \subseteq S
    OBVIOUS
  <2>. HIDE DEF S
  <2>. QED
    BY <2>1, <2>2, SeqMonotonic DEF OrUnknown, RowTyped, Text
<1>2. hour \in S
  BY ParamsAssumption DEF floor_to_hour, RowTyped
<1>3. key = env \o service \o <<hour>>
  BY DEF build_key
<1>. HIDE DEF S, env, service, hour
<1>4. /\ key \in Seq(S) /\ Len(key) = Len(env) + Len(service) + 1 /\ key[Len(key)] = hour
      /\ \A i \in 1 .. Len(env) + Len(service) : key[i] = (env \o service)[i]
      /\ \A i \in 1 .. Len(env) : key[i] = env[i]
  BY <1>1, <1>2, <1>3
<1>5. \A s \in Seq(S) : (Len(s) <= Len(key) /\ \A i \in 1 .. Len(s) : s[i] = key[i]) => IsPrefix(s, key)
  BY <1>4 DEF IsPrefix
<1>6. IsPrefix(prefix, key)
  <2>1. prefix \in {<<>>, env, env \o service}
    BY DEF env, service
  <2>2. IsPrefix(env, key)
    BY <1>1, <1>4, <1>5
  <2>3. IsPrefix(env \o service, key)
    <3>. DEFINE both == env \o service
    <3>1. both \in Seq(S) /\ Len(both) = Len(env) + Len(service)
      BY <1>1
    <3>2. \A i \in 1 .. Len(both) : both[i] = key[i]
      BY <1>4, <3>1
    <3>3. Len(both) <= Len(key)
      BY <1>1, <1>4, <3>1
    <3>. HIDE DEF both
    <3>4. IsPrefix(both, key)
      BY <1>5, <3>1, <3>2, <3>3
    <3>. QED
      BY <3>4 DEF both
  <2>4. IsPrefix(<<>>, key)
    <3>. DEFINE none == <<>>
    <3>1. none \in Seq(S) /\ Len(none) = 0
      OBVIOUS
    <3>. HIDE DEF none
    <3>2. Len(none) <= Len(key) /\ \A i \in 1 .. Len(none) : none[i] = key[i]
      BY <1>1, <1>4, <3>1
    <3>3. IsPrefix(none, key)
      BY <1>5, <3>1, <3>2
    <3>. QED
      BY <3>3 DEF none
  <2>. QED
    BY <2>1, <2>2, <2>3, <2>4
<1>. QED
  BY <1>4, <1>6 DEF parse_key_hour, Last, hour

\* A row that a query asks for is in an object its listing keeps (s3.rs:642).
THEOREM ListingsCover == Spec => []ListingCovers
<1>1. ASSUME IngestInv, NEW row \in Stored, NEW p \in Params, match_event(row, p)
      PROVE  Listed(build_key(row, HourLen), p)
  <2>. DEFINE key == build_key(row, HourLen)
              prefix == build_s3_prefix(p.env, p.service)
  <2>1. RowTyped(row)
    BY <1>1 DEF IngestInv, TypeInv
  <2>2. (p.env # None => row.env = p.env) /\ (p.service # None => row.service = p.service)
    BY <1>1 DEF match_event, match_event_filters, Columns
  <2>3. prefix \in {<<>>, OrUnknown(row.env), OrUnknown(row.env) \o OrUnknown(row.service)}
    BY <2>2 DEF build_s3_prefix, OrUnknown
  <2>. HIDE DEF prefix
  <2>4. IsPrefix(prefix, key) /\ parse_key_hour(key) = floor_to_hour(row.ts, HourLen)
    BY <2>1, <2>3, KeyOfRow
  <2>5. \A a, b \in Int : a <= b => floor_to_hour(a, HourLen) <= floor_to_hour(b, HourLen)
    <3>1. \A a, b \in Int, h \in Nat \ {0} : a <= b => a \div h <= b \div h
      OBVIOUS
    <3>. QED
      BY <3>1, ParamsAssumption DEF floor_to_hour
  <2>6. (p.since # None => p.since <= row.ts) /\ (p.until # None => row.ts <= p.until)
    BY <1>1 DEF match_event, InTime
  <2>7. p.since \in Int \union {None} /\ p.until \in Int \union {None} /\ row.ts \in Int
    BY <2>1, ParamsAssumption DEF RowTyped
  <2>. QED
    BY <2>4, <2>5, <2>6, <2>7 DEF prefix, Listed
<1>2. IngestInv => ListingCovers
  BY <1>1 DEF ListingCovers
<1>. QED
  BY <1>2, IngestInvariance, PTL
=============================================================================

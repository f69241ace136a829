--------------------------- MODULE JuliaDefsProofs ---------------------------
(***************************************************************************)
(* Theorems about the clients, for any number of clients, JuliaDefs, names *)
(* and entries.                                                            *)
(*                                                                         *)
(* The clients with their channels implement the table of                  *)
(* JuliaObjectsArray: each of their steps is one of its commands or leaves *)
(* it alone, so that everything that is proved of the table is true of it  *)
(* in their hands.  For this a request must be well formed when the server *)
(* gets it, which rests on the replies that the JuliaDefs were filled from *)
(* being replies to their own calls.                                       *)
(*                                                                         *)
(* The second part is about clients that keep to one JuliaDef per @object  *)
(* and one call at a time: what is on its way in either direction is then  *)
(* true of the table, so that a JuliaDef is what it says it is.            *)
(***************************************************************************)
EXTENDS JuliaDefs, JuliaObjectsArrayProofs

-----------------------------------------------------------------------------
(* Channels *)

\* The messages in flight on requests, or on replies.
Flight(channels) ==
    UNION {{channels[c][k] : k \in DOMAIN channels[c]} : c \in Clients}

LEMMA FlightIs ==
  ASSUME NEW channels, NEW m
  PROVE  m \in Flight(channels) <=>
            \E c \in Clients : \E k \in DOMAIN channels[c] : m = channels[c][k]
BY DEF Flight

LEMMA HeadInFlight ==
  ASSUME NEW S, NEW channels \in [Clients -> Seq(S)], NEW c \in Clients, channels[c] # <<>>
  PROVE  /\ Head(channels[c]) \in Flight(channels)
         /\ Head(channels[c]) \in S
<1>1. 1 \in DOMAIN channels[c] /\ Head(channels[c]) = channels[c][1] /\ channels[c][1] \in S
  OBVIOUS
<1> QED
  BY <1>1, FlightIs

LEMMA FlightTyped ==
  ASSUME NEW S, NEW channels \in [Clients -> Seq(S)], NEW m \in Flight(channels)
  PROVE  m \in S
<1>1. PICK c \in Clients : \E k \in DOMAIN channels[c] : m = channels[c][k]
  BY FlightIs
<1>2. channels[c] \in Seq(S)
  OBVIOUS
<1> QED
  BY <1>1, <1>2

\* new is channels with s on the channel of c.
Changed(new, channels, c, s) ==
    new = [d \in Clients |-> IF d = c THEN s ELSE channels[d]]

\* A message is put on a channel.
LEMMA FlightAppend ==
  ASSUME NEW S, NEW channels \in [Clients -> Seq(S)], NEW c \in Clients, NEW x \in S,
         NEW new, Changed(new, channels, c, Append(channels[c], x))
  PROVE  /\ new \in [Clients -> Seq(S)]
         /\ \A m \in Flight(new) : m \in Flight(channels) \/ m = x
         /\ \A m \in Flight(channels) : m \in Flight(new)
         /\ x \in Flight(new)
<1>1. /\ new \in [Clients -> Seq(S)]
      /\ new[c] = Append(channels[c], x)
      /\ \A d \in Clients \ {c} : new[d] = channels[d]
  BY DEF Changed
<1>2. channels[c] \in Seq(S)
  OBVIOUS
<1>3. /\ \A k \in DOMAIN new[c] : new[c][k] = x \/ (k \in DOMAIN channels[c] /\ new[c][k] = channels[c][k])
      /\ \A k \in DOMAIN channels[c] : k \in DOMAIN new[c] /\ new[c][k] = channels[c][k]
      /\ Len(channels[c]) + 1 \in DOMAIN new[c] /\ new[c][Len(channels[c]) + 1] = x
  BY <1>1, <1>2
<1>4. ASSUME NEW m \in Flight(new) PROVE m \in Flight(channels) \/ m = x
  <2>1. PICK d \in Clients : \E k \in DOMAIN new[d] : m = new[d][k]
    BY FlightIs
  <2>2. CASE d = c
    <3>1. PICK k \in DOMAIN new[c] : m = new[c][k]
      BY <2>1, <2>2
    <3>2. m = x \/ \E j \in DOMAIN channels[c] : m = channels[c][j]
      BY <1>3, <3>1
    <3> QED
      BY <3>2, FlightIs
  <2>3. CASE d # c
    BY <1>1, <2>1, <2>3, FlightIs
  <2> QED
    BY <2>2, <2>3
<1>5. ASSUME NEW m \in Flight(channels) PROVE m \in Flight(new)
  <2>1. PICK d \in Clients : \E k \in DOMAIN channels[d] : m = channels[d][k]
    BY FlightIs
  <2>2. CASE d = c
    <3>1. PICK k \in DOMAIN channels[c] : m = channels[c][k]
      BY <2>1, <2>2
    <3>2. \E j \in DOMAIN new[c] : m = new[c][j]
      BY <1>3, <3>1
    <3> QED
      BY <3>2, FlightIs
  <2>3. CASE d # c
    BY <1>1, <2>1, <2>3, FlightIs
  <2> QED
    BY <2>2, <2>3
<1>6. x \in Flight(new)
  BY <1>3, FlightIs
<1> QED
  BY <1>1, <1>4, <1>5, <1>6

\* The first message is taken off a channel.
LEMMA FlightTail ==
  ASSUME NEW S, NEW channels \in [Clients -> Seq(S)], NEW c \in Clients, channels[c] # <<>>,
         NEW new, Changed(new, channels, c, Tail(channels[c]))
  PROVE  /\ new \in [Clients -> Seq(S)]
         /\ \A m \in Flight(new) : m \in Flight(channels)
         /\ \A m \in Flight(channels) : m \in Flight(new) \/ m = Head(channels[c])
<1>1. /\ new \in [Clients -> Seq(S)]
      /\ new[c] = Tail(channels[c])
      /\ \A d \in Clients \ {c} : new[d] = channels[d]
  BY DEF Changed
<1>2. channels[c] \in Seq(S)
  OBVIOUS
<1>3. /\ \A k \in DOMAIN new[c] : k + 1 \in DOMAIN channels[c] /\ new[c][k] = channels[c][k + 1]
      /\ \A k \in DOMAIN channels[c] : k = 1 \/ (k - 1 \in DOMAIN new[c] /\ new[c][k - 1] = channels[c][k])
      /\ Head(channels[c]) = channels[c][1]
  BY <1>1, <1>2
<1>4. ASSUME NEW m \in Flight(new) PROVE m \in Flight(channels)
  <2>1. PICK d \in Clients : \E k \in DOMAIN new[d] : m = new[d][k]
    BY FlightIs
  <2>2. CASE d = c
    <3>1. PICK k \in DOMAIN new[c] : m = new[c][k]
      BY <2>1, <2>2
    <3>2. \E j \in DOMAIN channels[c] : m = channels[c][j]
      BY <1>3, <3>1
    <3> QED
      BY <3>2, FlightIs
  <2>3. CASE d # c
    BY <1>1, <2>1, <2>3, FlightIs
  <2> QED
    BY <2>2, <2>3
<1>5. ASSUME NEW m \in Flight(channels) PROVE m \in Flight(new) \/ m = Head(channels[c])
  <2>1. PICK d \in Clients : \E k \in DOMAIN channels[d] : m = channels[d][k]
    BY FlightIs
  <2>2. CASE d = c
    <3>1. PICK k \in DOMAIN channels[c] : m = channels[c][k]
      BY <2>1, <2>2
    <3>2. m = Head(channels[c]) \/ \E j \in DOMAIN new[c] : m = new[c][j]
      BY <1>3, <3>1
    <3> QED
      BY <3>2, FlightIs
  <2>3. CASE d # c
    BY <1>1, <2>1, <2>3, FlightIs
  <2> QED
    BY <2>2, <2>3
<1> QED
  BY <1>1, <1>4, <1>5

-----------------------------------------------------------------------------
(* The inductive invariant *)

\* Commands that hang a routine on their reply, as the methods send them.
GoodCmd == {r \in Cmd : /\ r.cmd # "list" => r.def \in Defs
                        /\ r.cmd = "by_name" => r.name \in Names}

Reply == [no : 1 .. MaxCalls, msg : Replies \ {NoReply}]

FieldsOK ==
    /\ defs \in [Defs -> JuliaDef]
    /\ dict \in [Clients -> [Names \cup {NoName} -> Defs \cup {NoDef}]]
    /\ unique_id \in 0 .. MaxCalls

HistoryOK ==
    /\ holders \in [Names -> SUBSET Defs]
    /\ tidy \in BOOLEAN

ChannelsOK ==
    /\ requests \in [Clients -> Seq(GoodCmd \cup FreeCmd)]
    /\ replies \in [Clients -> Seq(Reply)]
    /\ refused \subseteq 1 .. MaxCalls

\* The unique ids tell the routines apart.
CallsOK ==
    /\ calls \subseteq GoodCmd
    /\ \A a \in calls : a.no <= unique_id
    /\ \A a, b \in calls : a.no = b.no => a = b

\* What is in flight belongs to the call whose unique id it has, if it still
\* hangs.
RequestsMatch ==
    \A r \in Flight(requests) :
        r.no <= unique_id /\ \A a \in calls : a.no = r.no => a = r
RepliesMatch ==
    \A r \in Flight(replies) :
        r.no <= unique_id /\ \A a \in calls : a.no = r.no => r.msg.cmd = a.cmd

Awaited(no) ==
    (\E r \in Flight(requests) : r.no = no) \/ (\E r \in Flight(replies) : r.no = no)
AllAwaited ==
    stray \/ \A a \in calls : a.cmd # "by_name" => Awaited(a.no) \/ a.no \in refused

CInv ==
    /\ Inv
    /\ FieldsOK
    /\ HistoryOK
    /\ ChannelsOK
    /\ CallsOK
    /\ RequestsMatch
    /\ RepliesMatch
    /\ AllAwaited

LEMMA BlankIs == BlankDef \in JuliaDef
BY DEF BlankDef, JuliaDef

LEMMA ClientsInitEstablishes == ClientsInit => CInv
<1> SUFFICES ASSUME ClientsInit PROVE CInv
  OBVIOUS
<1>1. Inv
  BY InitEstablishes DEF ClientsInit
<1>2. FieldsOK /\ HistoryOK
  <2>1. defs \in [Defs -> JuliaDef]
    BY BlankIs DEF ClientsInit
  <2>2. dict \in [Clients -> [Names \cup {NoName} -> Defs \cup {NoDef}]]
    BY DEF ClientsInit
  <2>3. unique_id \in 0 .. MaxCalls
    BY MaxCallsAssumption DEF ClientsInit
  <2> QED
    BY <2>1, <2>2, <2>3 DEF ClientsInit, FieldsOK, HistoryOK
<1>3. ChannelsOK
  BY DEF ClientsInit, ChannelsOK
<1>4. Flight(requests) = {} /\ Flight(replies) = {}
  BY FlightIs DEF ClientsInit
<1>5. calls = {}
  BY DEF ClientsInit
<1> QED
  BY <1>1, <1>2, <1>3, <1>4, <1>5
  DEF CInv, CallsOK, RequestsMatch, RepliesMatch, AllAwaited

-----------------------------------------------------------------------------
(* The methods *)

LEMMA NotedKeeps ==
  ASSUME HistoryOK, NEW ok, NEW held \in [Names -> SUBSET Defs], Noted(ok, held)
  PROVE  HistoryOK'
<1>1. tidy' = (tidy /\ ok) /\ tidy \in BOOLEAN
  BY DEF Noted, HistoryOK
<1>2. tidy' \in BOOLEAN
  BY <1>1, Zenon
<1>3. holders' \in [Names -> SUBSET Defs]
  <2>1. holders' = held \/ holders' = [n \in Names |-> {}]
    BY DEF Noted
  <2> QED
    BY <2>1
<1> QED
  BY <1>2, <1>3 DEF HistoryOK

\* A method that waits for a reply uses a new unique id.
LEMMA CallStep ==
  ASSUME CInv, NEW c \in Clients, NEW d \in Defs \cup {NoDef},
         NEW cmd \in {"load", "by_name", "list"}, NEW name \in Names \cup {NoName},
         cmd # "list" => d \in Defs, cmd = "by_name" => name \in Names,
         Call(c, d, cmd, name)
  PROVE  CInv' /\ UNCHANGED vars
<1> DEFINE call == [no |-> unique_id + 1, def |-> d, cmd |-> cmd, name |-> name]
<1>1. /\ unique_id < MaxCalls
      /\ unique_id' = unique_id + 1
      /\ calls' = calls \cup {call}
      /\ requests' = [requests EXCEPT ![c] = Append(@, call)]
      /\ UNCHANGED <<vars, defs, dict, replies, refused>>
  BY DEF Call, Send
<1>2. unique_id \in 0 .. MaxCalls /\ MaxCalls \in Nat
  BY MaxCallsAssumption DEF CInv, FieldsOK
<1>3. call \in GoodCmd /\ call.no = unique_id + 1
  BY <1>1, <1>2 DEF GoodCmd, Cmd
<1> HIDE DEF call
<1>4. requests \in [Clients -> Seq(GoodCmd \cup FreeCmd)] /\ replies \in [Clients -> Seq(Reply)]
  BY DEF CInv, ChannelsOK
<1>5. Changed(requests', requests, c, Append(requests[c], call))
  BY <1>1, <1>4 DEF Changed
<1>6. /\ requests' \in [Clients -> Seq(GoodCmd \cup FreeCmd)]
      /\ \A m \in Flight(requests') : m \in Flight(requests) \/ m = call
      /\ \A m \in Flight(requests) : m \in Flight(requests')
      /\ call \in Flight(requests')
  <2> DEFINE S == GoodCmd \cup FreeCmd
  <2>1. call \in S /\ requests \in [Clients -> Seq(S)]
    BY <1>3, <1>4
  <2> HIDE DEF S
  <2>2. /\ requests' \in [Clients -> Seq(S)]
        /\ \A m \in Flight(requests') : m \in Flight(requests) \/ m = call
        /\ \A m \in Flight(requests) : m \in Flight(requests')
        /\ call \in Flight(requests')
    BY <2>1, <1>5, FlightAppend
  <2> QED
    BY <2>2 DEF S
<1>7. Inv' /\ UNCHANGED vars
  BY <1>1, NextPreserves DEF CInv
<1>8. FieldsOK' /\ ChannelsOK'
  <2>1. unique_id' \in 0 .. MaxCalls
    BY <1>1, <1>2
  <2>2. FieldsOK'
    BY <1>1, <2>1 DEF CInv, FieldsOK
  <2>3. ChannelsOK'
    BY <1>1, <1>4, <1>6 DEF CInv, ChannelsOK
  <2> QED
    BY <2>2, <2>3
<1>9. HistoryOK'
  BY NotedKeeps DEF Call, CInv, HistoryOK
<1>10. \A a \in calls : a.no \in Nat /\ a.no <= unique_id
  BY DEF CInv, CallsOK, GoodCmd, Cmd
<1>11. CallsOK'
  BY <1>1, <1>2, <1>3, <1>10 DEF CInv, CallsOK
<1>12. \A r \in Flight(requests) : r.no \in Nat
  <2> SUFFICES ASSUME NEW r \in Flight(requests) PROVE r.no \in Nat
    OBVIOUS
  <2>1. r \in GoodCmd \cup FreeCmd
    BY <1>4, FlightTyped
  <2> QED
    BY <2>1 DEF GoodCmd, Cmd, FreeCmd
<1>13. RequestsMatch'
  <2> SUFFICES ASSUME NEW r \in Flight(requests')
               PROVE  r.no <= unique_id' /\ \A a \in calls' : a.no = r.no => a = r
    BY DEF RequestsMatch
  <2>1. CASE r = call
    BY <1>1, <1>2, <1>3, <1>10, <2>1
  <2>2. CASE r \in Flight(requests)
    <3>1. r.no \in Nat /\ r.no <= unique_id /\ \A a \in calls : a.no = r.no => a = r
      BY <1>12, <2>2 DEF CInv, RequestsMatch
    <3> QED
      BY <1>1, <1>2, <1>3, <3>1
  <2> QED
    BY <1>6, <2>1, <2>2
<1>14. \A r \in Flight(replies) : r.no \in Nat
  <2>1. \A r \in Flight(replies) : r \in Reply
    BY <1>4, FlightTyped
  <2> QED
    BY <2>1 DEF Reply
<1>15. RepliesMatch'
  BY <1>1, <1>2, <1>3, <1>14 DEF CInv, RepliesMatch
<1>16. AllAwaited'
  BY <1>1, <1>6 DEF vars, CInv, AllAwaited, Awaited
<1> QED
  BY <1>7, <1>8, <1>9, <1>11, <1>13, <1>15, <1>16 DEF CInv

LEMMA FreeStep ==
  ASSUME CInv, NEW d \in Defs, FreeJuliaDef(d)
  PROVE  CInv' /\ UNCHANGED vars
<1> DEFINE msg == [no |-> 0, def |-> d, cmd |-> "free", id |-> defs[d].server_id]
           c == Owner[d]
           S == GoodCmd \cup FreeCmd
<1>1. /\ defs[d].server_id # NoId
      /\ requests' = [requests EXCEPT ![c] = Append(@, msg)]
      /\ dict' = [dict EXCEPT ![c][defs[d].name] = NoDef]
      /\ defs' = [defs EXCEPT ![d] = BlankDef]
      /\ Noted(CallsOf(d) = {}, holders)
      /\ UNCHANGED <<vars, replies, refused, calls, unique_id>>
  BY DEF FreeJuliaDef, Send
<1>2. c \in Clients /\ defs[d] \in JuliaDef
  BY OwnerAssumption DEF CInv, FieldsOK
<1>3. defs[d].name \in Names \cup {NoName} /\ defs[d].server_id \in Entries
  BY <1>1, <1>2 DEF JuliaDef
<1>4. msg \in FreeCmd /\ msg.no = 0
  BY <1>3 DEF FreeCmd
<1> HIDE DEF msg, c
<1>5. msg \in S /\ requests \in [Clients -> Seq(S)] /\ replies \in [Clients -> Seq(Reply)]
  BY <1>4 DEF CInv, ChannelsOK
<1> HIDE DEF S
<1>6. Changed(requests', requests, c, Append(requests[c], msg))
  BY <1>1, <1>5 DEF Changed
<1>7. /\ requests' \in [Clients -> Seq(S)]
      /\ \A m \in Flight(requests') : m \in Flight(requests) \/ m = msg
      /\ \A m \in Flight(requests) : m \in Flight(requests')
  <2>1. c \in Clients /\ msg \in S /\ requests \in [Clients -> Seq(S)]
    BY <1>2, <1>5
  <2> QED
    BY <2>1, <1>6, FlightAppend
<1>8. Inv' /\ UNCHANGED vars
  BY <1>1, NextPreserves DEF CInv
<1>9. FieldsOK'
  <2>1. dict' \in [Clients -> [Names \cup {NoName} -> Defs \cup {NoDef}]]
    BY <1>1, <1>2, <1>3 DEF CInv, FieldsOK
  <2>2. defs' \in [Defs -> JuliaDef]
    BY <1>1, BlankIs DEF CInv, FieldsOK
  <2> QED
    BY <1>1, <2>1, <2>2 DEF CInv, FieldsOK
<1>10. HistoryOK'
  BY <1>1, NotedKeeps DEF CInv, HistoryOK
<1>11. ChannelsOK'
  BY <1>1, <1>5, <1>7 DEF CInv, ChannelsOK, S
<1>12. CallsOK' /\ RepliesMatch'
  BY <1>1 DEF CInv, CallsOK, RepliesMatch
<1>13. RequestsMatch'
  <2> SUFFICES ASSUME NEW r \in Flight(requests')
               PROVE  r.no <= unique_id' /\ \A a \in calls' : a.no = r.no => a = r
    BY DEF RequestsMatch
  <2>1. CASE r = msg
    <3>1. unique_id \in Nat /\ \A a \in calls : a.no \in Nat \ {0}
      BY MaxCallsAssumption DEF CInv, FieldsOK, CallsOK, GoodCmd, Cmd
    <3> QED
      BY <1>1, <1>4, <2>1, <3>1
  <2>2. CASE r \in Flight(requests)
    BY <1>1, <2>2 DEF CInv, RequestsMatch
  <2> QED
    BY <1>7, <2>1, <2>2
<1>14. AllAwaited'
  BY <1>1, <1>7 DEF vars, CInv, AllAwaited, Awaited
<1> QED
  BY <1>8, <1>9, <1>10, <1>11, <1>12, <1>13, <1>14 DEF CInv

-----------------------------------------------------------------------------
(* The server *)

\* A command that is handled is a command of the table; the reply to one that
\* has a unique id is a reply to it, and only a query by name has none.
LEMMA HandleIs ==
  ASSUME CInv, NEW r \in GoodCmd \cup FreeCmd, Handle(r)
  PROVE  /\ Next
         /\ ~stray
         /\ HistoryOK'
         /\ r.no # 0 /\ ~stray' /\ reply' # NoReply => reply'.cmd = r.cmd
         /\ r.no # 0 /\ ~stray' /\ r.cmd # "by_name" => reply' # NoReply
<1>0. HistoryOK
  BY DEF CInv
<1>1. CASE r.cmd = "load"
  <2>1. r \in GoodCmd /\ r.def \in Defs
    BY <1>1 DEF GoodCmd, Cmd, FreeCmd
  <2>2. ServeLoad(r.def)
    BY <1>1 DEF Handle
  <2>3. ASSUME NEW name \in Names, NEW io \in IOShapes, NEW outcome \in LoadOutcomes,
               ReplaceObject(name, io, outcome) \/ AddObject(name, io, outcome),
               HeldBy(r.def, name, outcome # "set_id_fails")
        PROVE  /\ Next /\ ~stray /\ HistoryOK'
               /\ reply'.cmd = "load" /\ reply' # NoReply
    <3>1. Next /\ ~stray
      BY <2>3 DEF Next, ReplaceObject, AddObject
    <3>2. [holders EXCEPT ![name] = @ \cup {r.def}] \in [Names -> SUBSET Defs]
      BY <1>0, <2>1 DEF HistoryOK
    <3>3. HistoryOK'
      BY <1>0, <2>3, <3>2, NotedKeeps DEF HeldBy
    <3>4. \E id : reply' = LoadFailed \/ reply' = LoadReply(id, name, io)
      BY <2>3 DEF ReplaceObject, AddObject, Compile
    <3>5. reply'.cmd = "load"
      BY <3>4 DEF LoadFailed, LoadReply
    <3> QED
      BY <3>1, <3>3, <3>5, NoReplySays
  <2>4. ASSUME LoadRefused, UNCHANGED history
        PROVE  /\ Next /\ ~stray /\ HistoryOK'
               /\ reply'.cmd = "load" /\ reply' # NoReply
    BY <1>0, <2>4, LoadFailedSays, NoReplySays DEF Next, LoadRefused, history, HistoryOK
  <2>5. ASSUME NEW name \in Names, AddObjectNowhere(name), UNCHANGED history
        PROVE  Next /\ ~stray /\ HistoryOK' /\ stray'
    BY <1>0, <2>5 DEF Next, AddObjectNowhere, history, HistoryOK
  <2> QED
    BY <1>1, <2>2, <2>3, <2>4, <2>5 DEF ServeLoad
<1>2. CASE r.cmd = "by_name"
  <2>1. r \in GoodCmd /\ r.def \in Defs /\ r.name \in Names
    BY <1>2 DEF GoodCmd, Cmd, FreeCmd
  <2>2. ServeByName(r.def, r.name)
    BY <1>2 DEF Handle
  <2>3. Next /\ ~stray
    BY <2>1, <2>2 DEF ServeByName, Next, GetObjectByName
  <2>4. reply' # NoReply => reply'.cmd = "by_name"
    <3>1. \E io, id : reply' = NoReply \/ reply' = ByNameReply(r.name, io, id)
      BY <2>2 DEF ServeByName, GetObjectByName
    <3> QED
      BY <3>1 DEF ByNameReply
  <2>5. HistoryOK'
    <3>1. [holders EXCEPT ![r.name] = @ \cup {r.def}] \in [Names -> SUBSET Defs]
      BY <1>0, <2>1 DEF HistoryOK
    <3>2. CASE HeldBy(r.def, r.name, TRUE)
      BY <1>0, <3>1, <3>2, NotedKeeps DEF HeldBy
    <3>3. CASE UNCHANGED history
      BY <1>0, <3>3 DEF history, HistoryOK
    <3> QED
      BY <2>2, <3>2, <3>3 DEF ServeByName
  <2> QED
    BY <1>2, <2>3, <2>4, <2>5
<1>3. CASE r.cmd = "list"
  <2>1. GetObjectsList /\ UNCHANGED history
    BY <1>3 DEF Handle
  <2>2. reply'.cmd = "list"
    BY <2>1 DEF GetObjectsList, ListReply
  <2> QED
    BY <1>0, <1>3, <2>1, <2>2, NoReplySays DEF Next, GetObjectsList, history, HistoryOK
<1>4. CASE r.cmd = "free"
  <2>1. r \in FreeCmd /\ r.no = 0 /\ r.id \in Entries
    BY <1>4 DEF GoodCmd, Cmd, FreeCmd
  <2>2. DeleteObject(r.id) /\ Noted(TRUE, [n \in Names |-> holders[n] \ {r.def}])
    BY <1>4 DEF Handle, ServeFree
  <2>3. [n \in Names |-> holders[n] \ {r.def}] \in [Names -> SUBSET Defs]
    BY <1>0 DEF HistoryOK
  <2>4. HistoryOK'
    BY <1>0, <2>2, <2>3, NotedKeeps
  <2> QED
    BY <2>1, <2>2, <2>4 DEF Next, DeleteObject
<1> QED
  BY <1>1, <1>2, <1>3, <1>4 DEF Handle

\* The command r of c is taken off its channel, and answered or not.
Taken(c, r, answered) ==
    /\ requests[c] # <<>> /\ r = Head(requests[c])
    /\ requests' = [requests EXCEPT ![c] = Tail(@)]
    /\ replies' = IF answered
                  THEN [replies EXCEPT ![c] = Append(@, [no |-> r.no, msg |-> reply'])]
                  ELSE replies
    /\ UNCHANGED client

LEMMA TakenStep ==
  ASSUME CInv, NEW c \in Clients, NEW r, NEW answered, Taken(c, r, answered),
         Inv', HistoryOK', ~stray, refused \subseteq refused', refused' \subseteq 1 .. MaxCalls,
         answered => Answers(r) /\ reply'.cmd = r.cmd,
         r.no # 0 /\ ~stray' /\ r.cmd # "by_name" => answered \/ r.no \in refused'
  PROVE  CInv'
<1> DEFINE S == GoodCmd \cup FreeCmd
           msg == [no |-> r.no, msg |-> reply']
<1>1. /\ requests[c] # <<>> /\ r = Head(requests[c])
      /\ requests' = [requests EXCEPT ![c] = Tail(@)]
      /\ replies' = IF answered THEN [replies EXCEPT ![c] = Append(@, msg)] ELSE replies
      /\ UNCHANGED client
  BY DEF Taken
<1> HIDE DEF S
<1>2. requests \in [Clients -> Seq(S)] /\ replies \in [Clients -> Seq(Reply)]
  BY DEF CInv, ChannelsOK, S
<1>3. r \in Flight(requests) /\ r \in S
  BY <1>1, <1>2, HeadInFlight
<1>4. Changed(requests', requests, c, Tail(requests[c]))
  BY <1>1, <1>2 DEF Changed
<1>5. /\ requests' \in [Clients -> Seq(S)]
      /\ \A m \in Flight(requests') : m \in Flight(requests)
      /\ \A m \in Flight(requests) : m \in Flight(requests') \/ m = r
  <2>1. requests[c] # <<>> /\ requests \in [Clients -> Seq(S)]
    BY <1>1, <1>2
  <2>2. /\ requests' \in [Clients -> Seq(S)]
        /\ \A m \in Flight(requests') : m \in Flight(requests)
        /\ \A m \in Flight(requests) : m \in Flight(requests') \/ m = Head(requests[c])
    BY <2>1, <1>4, FlightTail
  <2> QED
    BY <1>1, <2>2
<1>8. FieldsOK' /\ CallsOK'
  BY <1>1 DEF client, CInv, FieldsOK, CallsOK
<1>9. /\ r.no <= unique_id
      /\ \A a \in calls : a.no = r.no => a = r
  BY <1>3 DEF CInv, RequestsMatch
<1>10. UNCHANGED <<calls, unique_id>>
  BY <1>1 DEF client
<1>11. RequestsMatch'
  BY <1>5, <1>10 DEF CInv, RequestsMatch
<1>12. /\ replies' \in [Clients -> Seq(Reply)]
       /\ \A m \in Flight(replies) : m \in Flight(replies')
       /\ \A m \in Flight(replies') :
             \/ m \in Flight(replies)
             \/ m.no = r.no /\ m.msg = reply' /\ answered
       /\ answered => \E m \in Flight(replies') : m.no = r.no
  <2>1. CASE answered
    <3>1. r.no # 0 /\ reply' # NoReply
      BY <2>1 DEF Answers
    <3>2. r.no \in 1 .. MaxCalls
      BY <1>3, <3>1 DEF S, GoodCmd, Cmd, FreeCmd
    <3>3. reply' \in Replies
      BY DEF Inv, TypeOK
    <3>4. msg \in Reply /\ msg.no = r.no /\ msg.msg = reply'
      BY <3>1, <3>2, <3>3 DEF Reply
    <3>5. replies' = [replies EXCEPT ![c] = Append(@, msg)]
      BY <1>1, <2>1
    <3> HIDE DEF msg
    <3>6. Changed(replies', replies, c, Append(replies[c], msg))
      BY <1>2, <3>5 DEF Changed
    <3>7. /\ replies' \in [Clients -> Seq(Reply)]
          /\ \A m \in Flight(replies') : m \in Flight(replies) \/ m = msg
          /\ \A m \in Flight(replies) : m \in Flight(replies')
          /\ msg \in Flight(replies')
      BY <1>2, <3>4, <3>6, FlightAppend
    <3> QED
      BY <2>1, <3>4, <3>7
  <2>2. CASE ~answered
    BY <1>1, <1>2, <2>2
  <2> QED
    BY <2>1, <2>2
<1>13. ChannelsOK'
  BY <1>5, <1>12 DEF ChannelsOK, S
<1>14. RepliesMatch'
  <2> SUFFICES ASSUME NEW m \in Flight(replies')
               PROVE  m.no <= unique_id' /\ \A a \in calls' : a.no = m.no => m.msg.cmd = a.cmd
    BY DEF RepliesMatch
  <2>1. CASE m \in Flight(replies)
    BY <1>10, <2>1 DEF CInv, RepliesMatch
  <2>2. CASE m.no = r.no /\ m.msg = reply' /\ answered
    BY <1>9, <1>10, <2>2
  <2> QED
    BY <1>12, <2>1, <2>2
<1>15. AllAwaited'
  <2> SUFFICES ASSUME ~stray', NEW a \in calls', a.cmd # "by_name", a.no \notin refused'
               PROVE  Awaited(a.no)'
    BY DEF AllAwaited
  <2>1. a \in calls /\ Awaited(a.no)
    BY <1>10 DEF CInv, AllAwaited
  <2>2. ASSUME NEW m \in Flight(replies), m.no = a.no PROVE Awaited(a.no)'
    BY <1>12, <2>2 DEF Awaited
  <2>3. ASSUME NEW m \in Flight(requests), m.no = a.no PROVE Awaited(a.no)'
    <3>1. CASE m \in Flight(requests')
      BY <2>3, <3>1 DEF Awaited
    <3>2. CASE m = r
      <4>1. a = r /\ a.no # 0
        BY <1>9, <2>1, <2>3, <3>2 DEF CInv, CallsOK, GoodCmd, Cmd
      <4>2. answered
        BY <2>1, <4>1
      <4> QED
        BY <1>12, <4>1, <4>2 DEF Awaited
    <3> QED
      BY <1>5, <2>3, <3>1, <3>2
  <2> QED
    BY <2>1, <2>2, <2>3 DEF Awaited
<1> QED
  BY <1>8, <1>11, <1>13, <1>14, <1>15 DEF CInv

LEMMA ServeStep ==
  ASSUME CInv, NEW c \in Clients, Serve(c)
  PROVE  CInv' /\ Next
<1>0. PICK r : r = Head(requests[c])
  OBVIOUS
<1>1. /\ Handle(r) /\ Taken(c, r, Answers(r)) /\ requests[c] # <<>> /\ refused' = refused
  BY <1>0 DEF Serve, Taken
<1>2. requests \in [Clients -> Seq(GoodCmd \cup FreeCmd)] /\ refused \subseteq 1 .. MaxCalls
  BY DEF CInv, ChannelsOK
<1>3. r \in GoodCmd \cup FreeCmd
  <2> DEFINE S == GoodCmd \cup FreeCmd
  <2>1. requests \in [Clients -> Seq(S)]
    BY <1>2
  <2> HIDE DEF S
  <2>2. r \in S
    BY <1>0, <1>1, <2>1, HeadInFlight
  <2> QED
    BY <2>2 DEF S
<1>4. /\ Next /\ ~stray /\ HistoryOK'
      /\ r.no # 0 /\ ~stray' /\ reply' # NoReply => reply'.cmd = r.cmd
      /\ r.no # 0 /\ ~stray' /\ r.cmd # "by_name" => reply' # NoReply
  BY <1>1, <1>3, HandleIs
<1>5. Inv'
  BY <1>4, NextPreserves DEF CInv
<1>6. /\ Answers(r) => reply'.cmd = r.cmd
      /\ r.no # 0 /\ ~stray' /\ r.cmd # "by_name" => Answers(r)
  BY <1>4 DEF Answers
<1>7. refused \subseteq refused' /\ refused' \subseteq 1 .. MaxCalls
  BY <1>1, <1>2
<1> QED
  BY <1>1, <1>4, <1>5, <1>6, <1>7, TakenStep

\* A command that is turned away leaves the table alone; its unique id is kept.
LEMMA RefuseStep ==
  ASSUME CInv, NEW c \in Clients, Refuse(c)
  PROVE  CInv' /\ UNCHANGED vars
<1>0. PICK r : r = Head(requests[c])
  OBVIOUS
<1>1. /\ Taken(c, r, FALSE) /\ requests[c] # <<>> /\ ~stray /\ UNCHANGED vars
      /\ refused' = refused \cup ({r.no} \ {0})
      /\ Noted(TRUE, IF r.cmd = "free" THEN [n \in Names |-> holders[n] \ {r.def}] ELSE holders)
  BY <1>0 DEF Refuse, Taken
<1>2. requests \in [Clients -> Seq(GoodCmd \cup FreeCmd)] /\ refused \subseteq 1 .. MaxCalls
  BY DEF CInv, ChannelsOK
<1>3. r \in GoodCmd \cup FreeCmd
  <2> DEFINE S == GoodCmd \cup FreeCmd
  <2>1. requests \in [Clients -> Seq(S)]
    BY <1>2
  <2> HIDE DEF S
  <2>2. r \in S
    BY <1>0, <1>1, <2>1, HeadInFlight
  <2> QED
    BY <2>2 DEF S
<1>4. r.no \in {0} \cup 1 .. MaxCalls
  BY <1>3 DEF GoodCmd, Cmd, FreeCmd
<1>5. HistoryOK'
  <2> DEFINE held == IF r.cmd = "free" THEN [n \in Names |-> holders[n] \ {r.def}] ELSE holders
  <2>1. HistoryOK /\ held \in [Names -> SUBSET Defs]
    BY DEF CInv, HistoryOK
  <2> HIDE DEF held
  <2>2. Noted(TRUE, held)
    BY <1>1 DEF held
  <2> QED
    BY <2>1, <2>2, NotedKeeps
<1>6. Inv'
  BY <1>1, NextPreserves DEF CInv
<1>7. refused \subseteq refused' /\ refused' \subseteq 1 .. MaxCalls
  BY <1>1, <1>2, <1>4
<1>8. r.no # 0 => r.no \in refused'
  BY <1>1
<1>9. CInv'
  BY <1>1, <1>5, <1>6, <1>7, <1>8, TakenStep
<1> QED
  BY <1>1, <1>9

-----------------------------------------------------------------------------
(* The routines *)

\* What a reply may put into a JuliaDef.
LEMMA ReplyFields ==
  ASSUME NEW msg \in Replies, msg.cmd \in {"load", "by_name"}
  PROVE  /\ msg.id \in Entries \cup {NoId}
         /\ msg.io \in IOShapes \cup {NoIO}
         /\ msg.cmd = "load" => msg.name \in Names \cup {NoName}
BY DEF Replies, NoReply, LoadFailed, LoadReply, ListReply, ByNameReply, FreeReply

LEMMA AnswerStep ==
  ASSUME CInv, NEW c \in Clients, Answer(c)
  PROVE  CInv' /\ UNCHANGED vars
<1> DEFINE m == Head(replies[c])
<1>1. PICK call \in calls :
        /\ call.no = m.no
        /\ Resume(call, m.msg)
        /\ calls' = calls \ {call}
  BY DEF Answer
<1>2. /\ replies[c] # <<>>
      /\ replies' = [replies EXCEPT ![c] = Tail(@)]
      /\ UNCHANGED <<vars, requests, refused, unique_id, history>>
  BY DEF Answer
<1>3. replies \in [Clients -> Seq(Reply)]
  BY DEF CInv, ChannelsOK
<1>4. m \in Flight(replies) /\ m \in Reply
  BY <1>2, <1>3, HeadInFlight
<1>5. Changed(replies', replies, c, Tail(replies[c]))
  BY <1>2, <1>3 DEF Changed
<1>6. /\ replies' \in [Clients -> Seq(Reply)]
      /\ \A r \in Flight(replies') : r \in Flight(replies)
      /\ \A r \in Flight(replies) : r \in Flight(replies') \/ r = m
  <2>1. replies[c] # <<>>
    BY <1>2
  <2> QED
    BY <2>1, <1>3, <1>5, FlightTail
<1> HIDE DEF m
<1>7. Inv' /\ HistoryOK' /\ UNCHANGED vars
  BY <1>2, NextPreserves DEF history, CInv, HistoryOK
<1>8. ChannelsOK'
  BY <1>2, <1>6 DEF CInv, ChannelsOK
<1>9. CallsOK'
  BY <1>1, <1>2 DEF CInv, CallsOK
<1>10. RequestsMatch' /\ RepliesMatch'
  <2>1. \A a \in calls' : a \in calls
    BY <1>1
  <2>2. RequestsMatch'
    BY <1>2, <2>1 DEF CInv, RequestsMatch
  <2>3. RepliesMatch'
    BY <1>2, <1>6, <2>1 DEF CInv, RepliesMatch
  <2> QED
    BY <2>2, <2>3
<1>11. AllAwaited'
  <2> SUFFICES ASSUME ~stray', NEW a \in calls', a.cmd # "by_name", a.no \notin refused'
               PROVE  Awaited(a.no)'
    BY DEF AllAwaited
  <2>0. a.no \notin refused
    BY <1>2
  <2>1. a \in calls /\ a.no # m.no
    BY <1>1 DEF CInv, CallsOK
  <2>2. Awaited(a.no)
    BY <1>2, <2>0, <2>1 DEF vars, CInv, AllAwaited
  <2> QED
    BY <1>2, <1>6, <2>1, <2>2 DEF Awaited
<1>12. call \in GoodCmd /\ m.msg.cmd = call.cmd /\ m.msg \in Replies
  BY <1>1, <1>4 DEF CInv, CallsOK, RepliesMatch, Reply
<1>13. FieldsOK'
  <2>0. defs \in [Defs -> JuliaDef]
        /\ dict \in [Clients -> [Names \cup {NoName} -> Defs \cup {NoDef}]]
        /\ unique_id' \in 0 .. MaxCalls
    BY <1>2 DEF CInv, FieldsOK
  <2>1. CASE call.cmd = "load"
    <3> DEFINE msg == m.msg
               d == call.def
               new == [name |-> msg.name, symbol |-> FALSE, server_id |-> msg.id,
                       io |-> msg.io, path |-> defs[d].path \/ msg.id # NoId]
    <3>1. d \in Defs /\ Owner[d] \in Clients
      BY <1>12, <2>1, OwnerAssumption DEF GoodCmd
    <3>2. /\ msg.id \in Entries \cup {NoId} /\ msg.io \in IOShapes \cup {NoIO}
          /\ msg.name \in Names \cup {NoName}
      BY <1>12, <2>1, ReplyFields
    <3>3. Loaded(d, msg)
      BY <1>1, <2>1 DEF Resume
    <3>4. new \in JuliaDef /\ new.name \in Names \cup {NoName}
      BY <3>2 DEF JuliaDef
    <3>5. /\ defs' = [defs EXCEPT ![d] = new]
          /\ dict' = [dict EXCEPT ![Owner[d]][new.name] = d]
      BY <3>3 DEF Loaded
    <3> HIDE DEF new, d
    <3>6. defs' \in [Defs -> JuliaDef]
      BY <2>0, <3>1, <3>4, <3>5
    <3>7. dict' \in [Clients -> [Names \cup {NoName} -> Defs \cup {NoDef}]]
      BY <2>0, <3>1, <3>4, <3>5
    <3> QED
      BY <2>0, <3>6, <3>7 DEF FieldsOK
  <2>2. CASE call.cmd = "by_name"
    <3> DEFINE msg == m.msg
               d == call.def
               found == [name |-> call.name, symbol |-> TRUE, server_id |-> msg.id,
                         io |-> msg.io, path |-> TRUE]
               not_found == [defs[d] EXCEPT !.server_id = NoId, !.io = NoIO, !.path = FALSE]
    <3>1. d \in Defs /\ Owner[d] \in Clients /\ call.name \in Names
      BY <1>12, <2>2, OwnerAssumption DEF GoodCmd
    <3>2. msg.id \in Entries \cup {NoId} /\ msg.io \in IOShapes \cup {NoIO}
      BY <1>12, <2>2, ReplyFields
    <3>3. Retrieved(d, call.name, msg)
      BY <1>1, <2>2 DEF Resume
    <3>4. defs[d] \in JuliaDef /\ defs[d].name \in Names \cup {NoName}
      BY <2>0, <3>1 DEF JuliaDef
    <3>5. found \in JuliaDef
      BY <3>1, <3>2 DEF JuliaDef
    <3>6. not_found \in JuliaDef
      BY <3>4 DEF JuliaDef
    <3>7. /\ dict' = [dict EXCEPT ![Owner[d]][defs[d].name] = d]
          /\ \/ defs' = [defs EXCEPT ![d] = found]
             \/ defs' = [defs EXCEPT ![d] = not_found]
      BY <3>3 DEF Retrieved
    <3> HIDE DEF found, not_found, d
    <3>8. defs' \in [Defs -> JuliaDef]
      BY <2>0, <3>1, <3>5, <3>6, <3>7
    <3>9. dict' \in [Clients -> [Names \cup {NoName} -> Defs \cup {NoDef}]]
      BY <2>0, <3>1, <3>4, <3>7
    <3> QED
      BY <2>0, <3>8, <3>9 DEF FieldsOK
  <2>3. CASE call.cmd = "list"
    BY <1>1, <2>0, <2>3 DEF Resume, FieldsOK
  <2> QED
    BY <1>1, <2>1, <2>2, <2>3 DEF Resume
<1> QED
  BY <1>7, <1>8, <1>9, <1>10, <1>11, <1>13 DEF CInv

-----------------------------------------------------------------------------
\* Each step of the clients keeps the invariant, and is a step of the table.
LEMMA ClientsStep == CInv /\ [ClientsNext]_allVars => CInv' /\ [Next]_vars
<1> SUFFICES ASSUME CInv, [ClientsNext]_allVars PROVE CInv' /\ [Next]_vars
  OBVIOUS
<1>1. \A d \in Defs : Owner[d] \in Clients /\ defs[d] \in JuliaDef
  BY OwnerAssumption DEF CInv, FieldsOK
<1>2. ASSUME NEW d \in Defs, NewJuliaDef(d) PROVE CInv' /\ UNCHANGED vars
  <2>1. Call(Owner[d], d, "load", NoName)
    BY <1>2 DEF NewJuliaDef
  <2> QED
    BY <1>1, <2>1, CallStep
<1>3. ASSUME NEW d \in Defs, NEW name \in Names, Retrieve(d, name)
      PROVE  CInv' /\ UNCHANGED vars
  <2>1. Call(Owner[d], d, "by_name", name)
    BY <1>3 DEF Retrieve
  <2> QED
    BY <1>1, <2>1, CallStep
<1>4. ASSUME NEW d \in Defs, Update(d) PROVE CInv' /\ UNCHANGED vars
  <2>1. defs[d].name \in Names /\ Call(Owner[d], d, "by_name", defs[d].name)
    BY <1>1, <1>4 DEF Update, JuliaDef
  <2> QED
    BY <1>1, <2>1, CallStep
<1>5. ASSUME NEW d \in Defs, FreeJuliaDef(d) PROVE CInv' /\ UNCHANGED vars
  BY <1>5, FreeStep
<1>6. ASSUME NEW c \in Clients, GetCompiledJuliaDefs(c) PROVE CInv' /\ UNCHANGED vars
  <2>1. Call(c, NoDef, "list", NoName)
    BY <1>6 DEF GetCompiledJuliaDefs
  <2> QED
    BY <2>1, CallStep
<1>7. ASSUME NEW c \in Clients, Serve(c) PROVE CInv' /\ Next
  BY <1>7, ServeStep
<1>8. ASSUME NEW c \in Clients, Answer(c) PROVE CInv' /\ UNCHANGED vars
  BY <1>8, AnswerStep
<1>10. ASSUME NEW c \in Clients, Refuse(c) PROVE CInv' /\ UNCHANGED vars
  BY <1>10, RefuseStep
<1>9. CASE UNCHANGED allVars
  <2>1. UNCHANGED <<vars, client, wire, history>>
    BY <1>9 DEF allVars
  <2>2. Inv' /\ UNCHANGED vars
    BY <2>1, NextPreserves DEF CInv
  <2>3. /\ stray' = stray
        /\ UNCHANGED <<defs, dict, calls, unique_id, requests, replies, refused, holders, tidy>>
    BY <2>1 DEF vars, client, wire, history
  <2>4. FieldsOK' /\ HistoryOK'
    BY <2>3 DEF CInv, FieldsOK, HistoryOK
  <2>5. ChannelsOK' /\ CallsOK'
    BY <2>3 DEF CInv, ChannelsOK, CallsOK
  <2>6. RequestsMatch' /\ RepliesMatch'
    BY <2>3 DEF CInv, RequestsMatch, RepliesMatch
  <2>7. AllAwaited'
    BY <2>3 DEF CInv, AllAwaited, Awaited
  <2> QED
    BY <2>2, <2>4, <2>5, <2>6, <2>7 DEF CInv
<1> QED
  BY <1>2, <1>3, <1>4, <1>5, <1>6, <1>7, <1>8, <1>9, <1>10 DEF ClientsNext

THEOREM ClientsInvariance == ClientsSpec => []CInv
<1>1. ClientsInit => CInv
  BY ClientsInitEstablishes
<1>2. CInv /\ [ClientsNext]_allVars => CInv'
  BY ClientsStep
<1> QED
  BY <1>1, <1>2, PTL DEF ClientsSpec

\* The clients and their channels implement the table: what the theorems of
\* JuliaObjectsArrayProofs say of it is true while they use it.
THEOREM ClientsImplementTable == ClientsSpec => Spec
<1>1. ClientsInit => Init
  BY DEF ClientsInit
<1>2. CInv /\ [ClientsNext]_allVars => [Next]_vars
  BY ClientsStep
<1> QED
  BY <1>1, <1>2, ClientsInvariance, PTL DEF ClientsSpec, Spec

\* The fields of the JuliaDefs have their types, and no message in flight is
\* without contents.
THEOREM ClientsTypeCorrect == ClientsSpec => []ClientsTypeOK
<1>1. CInv => ClientsTypeOK
  <2> SUFFICES ASSUME CInv PROVE ClientsTypeOK
    OBVIOUS
  <2>1. GoodCmd \cup FreeCmd \subseteq Cmd \cup FreeCmd /\ calls \subseteq Cmd
    BY DEF CInv, CallsOK, GoodCmd
  <2>2. ASSUME NEW c \in Clients
        PROVE  requests[c] \in Seq(Cmd \cup FreeCmd) /\ replies[c] \in Seq(Reply)
    <3>1. requests[c] \in Seq(GoodCmd \cup FreeCmd) /\ replies[c] \in Seq(Reply)
      BY DEF CInv, ChannelsOK
    <3> QED
      BY <2>1, <3>1
  <2> QED
    BY <2>1, <2>2 DEF CInv, FieldsOK, HistoryOK, ChannelsOK, ClientsTypeOK, Reply
<1> QED
  BY <1>1, ClientsInvariance, PTL

\* "The unique id should be sent back even if failing to execute a Julia
\* file" (Julia.sc:82): the answer to every load and list that is waited for
\* is on its way, or its request is, but for those that the audio thread has
\* turned away, whose routines hang for good.
THEOREM LoadsAreAnswered == ClientsSpec => []LoadsAnswered
<1>1. CInv => LoadsAnswered
  <2> SUFFICES ASSUME CInv, ~stray, NEW call \in calls, call.cmd # "by_name",
                      call.no \notin refused
               PROVE  InFlight(call.no)
    BY DEF LoadsAnswered
  <2>1. Awaited(call.no)
    BY DEF CInv, AllAwaited
  <2>2. ASSUME NEW m \in Flight(requests), m.no = call.no PROVE InFlight(call.no)
    BY <2>2, FlightIs DEF InFlight
  <2>3. ASSUME NEW m \in Flight(replies), m.no = call.no PROVE InFlight(call.no)
    BY <2>3, FlightIs DEF InFlight
  <2> QED
    BY <2>1, <2>2, <2>3 DEF Awaited
<1> QED
  BY <1>1, ClientsInvariance, PTL

-----------------------------------------------------------------------------
(* JuliaDefs used one per @object and one call at a time *)

\* The @object of this name is in the entry and in use through d.
Stands(d, name, id, io) ==
    /\ \E fun \in Funs : objects[id] = CompiledObject(name, fun, io)
    /\ d \in holders[name]

Idle(d) == CallsOf(d) = {}

\* No request through d is in flight, or no free.
Quiet(d) == \A r \in Flight(requests) : r.def # d
NotFreeing(d) == \A r \in Flight(requests) : r.def = d => r.cmd # "free"

SoleHolder == \A n \in Names : \A d, e \in holders[n] : d = e

NameHeld == \A d \in Defs : defs[d].name # NoName => d \in holders[defs[d].name]

IdsTrue ==
    \A d \in Defs :
        defs[d].server_id # NoId /\ Idle(d) =>
            Stands(d, defs[d].name, defs[d].server_id, defs[d].io)

\* A JuliaDef that was not retrieved is in the dictionary under its name.
Entered ==
    \A d \in Defs :
        ~defs[d].symbol /\ defs[d].name # NoName => dict[Owner[d]][defs[d].name] = d

OneCall ==
    \A a, b \in calls : (a.def = b.def /\ a.def \in Defs => a = b) /\ (a.cmd = "list" => a.def \notin Defs)

\* A free on its way finds what it is to free.
FreesTrue ==
    \A r \in Flight(requests) :
        r.cmd = "free" =>
            /\ defs[r.def] = BlankDef
            /\ \E name \in Names, io \in IOShapes : Stands(r.def, name, r.id, io)

\* A request on its way that is no free is a call that still hangs.
Pending == \A r \in Flight(requests) : r.cmd # "free" /\ r.def \in Defs => r \in calls

\* Through one JuliaDef there is at most a free on its way and a call behind it.
OrderedIn(s) ==
    \A j, k \in DOMAIN s :
        j < k /\ s[j].def = s[k].def /\ s[j].def \in Defs => s[j].cmd = "free" /\ s[k].cmd # "free"
OwnedIn(c, s) == \A k \in DOMAIN s : s[k].def \in Defs => Owner[s[k].def] = c
Ordered == \A c \in Clients : OrderedIn(requests[c]) /\ OwnedIn(c, requests[c])

\* A reply on its way tells what is in the table, and nothing that is behind it
\* can change that.
RepliesTrue ==
    \A m \in Flight(replies), a \in calls :
        a.no = m.no /\ a.def \in Defs =>
            /\ Quiet(a.def)
            /\ m.msg.id # NoId => /\ Stands(a.def, m.msg.name, m.msg.id, m.msg.io)
                                  /\ a.cmd = "by_name" => m.msg.name = a.name

\* A JuliaDef is in the dictionary of its client; it has the name in use, or is
\* through for good, as nobody will make it Fresh again.
DictOwned ==
    \A c \in Clients, n \in Names \cup {NoName}, d \in Defs : dict[c][n] = d => Owner[d] = c
DictHeld ==
    \A c \in Clients, n \in Names, d \in Defs :
        dict[c][n] = d => \/ d \in holders[n] /\ NotFreeing(d)
                          \/ defs[d] = BlankDef /\ Idle(d)

Tidy ==
    /\ clean
    /\ SoleHolder /\ NameHeld /\ IdsTrue /\ Entered
    /\ OneCall /\ FreesTrue /\ Pending /\ Ordered /\ RepliesTrue
    /\ DictHeld

TidyInv == DictOwned /\ (tidy => Tidy)

LEMMA TidyInit == ClientsInit => TidyInv
<1> SUFFICES ASSUME ClientsInit PROVE TidyInv
  OBVIOUS
<1>1. Flight(requests) = {} /\ Flight(replies) = {} /\ calls = {} /\ clean
  BY FlightIs DEF ClientsInit, Init
<1>2. /\ \A n \in Names : holders[n] = {}
      /\ \A d \in Defs : defs[d].name = NoName /\ defs[d].server_id = NoId
      /\ \A c \in Clients : requests[c] = <<>>
      /\ \A c \in Clients, n \in Names \cup {NoName} : dict[c][n] = NoDef
  BY DEF ClientsInit, BlankDef
<1>3. SoleHolder /\ NameHeld /\ IdsTrue /\ Entered /\ DictOwned /\ DictHeld
  BY <1>2, OwnerAssumption DEF SoleHolder, NameHeld, IdsTrue, Entered, DictOwned, DictHeld
<1>4. OneCall /\ FreesTrue /\ Pending /\ RepliesTrue
  BY <1>1 DEF OneCall, FreesTrue, Pending, RepliesTrue
<1>5. Ordered
  BY <1>2 DEF Ordered, OrderedIn, OwnedIn
<1> QED
  BY <1>1, <1>3, <1>4, <1>5 DEF TidyInv, Tidy

\* A step is a tidy one only if it was tidy up to here and the step is.
LEMMA NotedTidy ==
  ASSUME NEW ok, NEW held, Noted(ok, held), tidy'
  PROVE  tidy /\ ok /\ holders' = held
<1>1. tidy /\ ok
  BY Zenon DEF Noted
<1>2. holders' = held
  BY DEF Noted
<1> QED
  BY <1>1, <1>2

\* A request put behind the others, or taken off the front.
LEMMA OrderedAppend ==
  ASSUME NEW S, NEW s \in Seq(S), NEW x \in S, OrderedIn(s),
         x.def \in Defs => \A k \in DOMAIN s :
            s[k].def = x.def => s[k].cmd = "free" /\ x.cmd # "free"
  PROVE  OrderedIn(Append(s, x))
<1> DEFINE t == Append(s, x)
<1>1. /\ DOMAIN t = 1 .. Len(s) + 1
      /\ \A k \in 1 .. Len(s) : k \in DOMAIN s /\ t[k] = s[k]
      /\ t[Len(s) + 1] = x
      /\ Len(s) \in Nat
  OBVIOUS
<1> HIDE DEF t
<1> SUFFICES ASSUME NEW j \in DOMAIN t, NEW k \in DOMAIN t,
                    j < k, t[j].def = t[k].def, t[j].def \in Defs
             PROVE  t[j].cmd = "free" /\ t[k].cmd # "free"
  BY DEF OrderedIn, t
<1>2. j \in 1 .. Len(s)
  BY <1>1
<1>3. CASE k = Len(s) + 1
  BY <1>1, <1>2, <1>3
<1>4. CASE k \in 1 .. Len(s)
  BY <1>1, <1>2, <1>4 DEF OrderedIn
<1> QED
  BY <1>1, <1>3, <1>4

LEMMA OrderedTail ==
  ASSUME NEW S, NEW s \in Seq(S), s # <<>>, OrderedIn(s)
  PROVE  /\ OrderedIn(Tail(s))
         /\ Head(s).def \in Defs =>
               \A k \in DOMAIN Tail(s) :
                  Tail(s)[k].def = Head(s).def => Head(s).cmd = "free" /\ Tail(s)[k].cmd # "free"
<1> DEFINE t == Tail(s)
<1>1. /\ \A k \in DOMAIN t : k \in Nat /\ k + 1 \in DOMAIN s /\ t[k] = s[k + 1]
      /\ 1 \in DOMAIN s /\ Head(s) = s[1]
      /\ \A k \in DOMAIN t : 1 < k + 1
  OBVIOUS
<1> HIDE DEF t
<1>2. \A j, k \in DOMAIN t : j < k => j + 1 < k + 1
  BY <1>1
<1>3. OrderedIn(t)
  BY <1>1, <1>2 DEF OrderedIn
<1>4. Head(s).def \in Defs =>
         \A k \in DOMAIN t : t[k].def = Head(s).def => Head(s).cmd = "free" /\ t[k].cmd # "free"
  BY <1>1 DEF OrderedIn
<1> QED
  BY <1>3, <1>4 DEF t

LEMMA OwnedAppend ==
  ASSUME NEW S, NEW s \in Seq(S), NEW x \in S, NEW c, OwnedIn(c, s), x.def \in Defs => Owner[x.def] = c
  PROVE  OwnedIn(c, Append(s, x))
<1>1. /\ DOMAIN Append(s, x) = 1 .. Len(s) + 1
      /\ \A k \in 1 .. Len(s) : k \in DOMAIN s /\ Append(s, x)[k] = s[k]
      /\ Append(s, x)[Len(s) + 1] = x
      /\ Len(s) \in Nat
  OBVIOUS
<1>2. \A k \in DOMAIN Append(s, x) : k \in 1 .. Len(s) \/ k = Len(s) + 1
  BY <1>1
<1> QED
  BY <1>1, <1>2 DEF OwnedIn

LEMMA OwnedTail ==
  ASSUME NEW S, NEW s \in Seq(S), s # <<>>, NEW c, OwnedIn(c, s)
  PROVE  OwnedIn(c, Tail(s))
<1>1. \A k \in DOMAIN Tail(s) : k + 1 \in DOMAIN s /\ Tail(s)[k] = s[k + 1]
  OBVIOUS
<1> QED
  BY <1>1 DEF OwnedIn

-----------------------------------------------------------------------------
(* Its steps *)

\* A method is called that waits for a reply: the dictionary must not have the
\* JuliaDef as one that is through.
LEMMA TidyCall ==
  ASSUME CInv, TidyInv, NEW c \in Clients, NEW d \in Defs \cup {NoDef},
         NEW cmd \in {"load", "by_name", "list"}, NEW name \in Names \cup {NoName},
         cmd # "list" => d \in Defs, cmd = "by_name" => name \in Names,
         cmd = "list" => d = NoDef, d \in Defs => c = Owner[d],
         d \in Defs => defs[d] # BlankDef \/ \A n \in Names : dict[c][n] # d,
         Call(c, d, cmd, name)
  PROVE  TidyInv'
<1> DEFINE call == [no |-> unique_id + 1, def |-> d, cmd |-> cmd, name |-> name]
           S == GoodCmd \cup FreeCmd
<1>1. /\ unique_id < MaxCalls
      /\ calls' = calls \cup {call}
      /\ requests' = [requests EXCEPT ![c] = Append(@, call)]
      /\ Noted(d = NoDef \/ CallsOf(d) = {}, holders)
      /\ UNCHANGED <<vars, defs, dict, replies, refused>>
  BY DEF Call, Send
<1>2. unique_id \in Nat /\ unique_id + 1 \in 1 .. MaxCalls
  BY <1>1, MaxCallsAssumption DEF CInv, FieldsOK
<1>3. call \in S /\ call.no = unique_id + 1 /\ call.def = d /\ call.cmd = cmd /\ call.cmd # "free"
  BY <1>2 DEF GoodCmd, Cmd
<1>4. requests \in [Clients -> Seq(S)] /\ replies \in [Clients -> Seq(Reply)]
  BY DEF CInv, ChannelsOK
<1> HIDE DEF call, S
<1>5. Changed(requests', requests, c, Append(requests[c], call))
  BY <1>1, <1>4 DEF Changed
<1>6. \A m \in Flight(requests') : m \in Flight(requests) \/ m = call
  <2>1. call \in S /\ requests \in [Clients -> Seq(S)]
    BY <1>3, <1>4
  <2> QED
    BY <2>1, <1>5, FlightAppend
<1>7. DictOwned'
  BY <1>1 DEF TidyInv, DictOwned
<1> SUFFICES ASSUME tidy' PROVE Tidy'
  BY <1>7 DEF TidyInv
<1>8. tidy /\ (d = NoDef \/ CallsOf(d) = {}) /\ holders' = holders
  BY <1>1, NotedTidy
<1>9. Tidy /\ DictOwned
  BY <1>8 DEF TidyInv
<1>10. d \in Defs => \A a \in calls : a.def # d
  BY <1>8, OwnerAssumption DEF CallsOf
<1>11. objects' = objects /\ clean' = clean
  BY <1>1 DEF vars
<1>12. /\ \A e : Idle(e)' => Idle(e)
       /\ \A e : Idle(e) /\ e # d => Idle(e)'
  BY <1>1, <1>3 DEF Idle, CallsOf
<1>13. /\ clean' /\ SoleHolder' /\ NameHeld' /\ Entered'
  BY <1>1, <1>8, <1>9, <1>11 DEF Tidy, SoleHolder, NameHeld, Entered
<1>14. ASSUME NEW e, NEW n, NEW id, NEW io
       PROVE  Stands(e, n, id, io)' <=> Stands(e, n, id, io)
  BY <1>8, <1>11 DEF Stands
<1>15. IdsTrue'
  BY <1>1, <1>9, <1>12, <1>14 DEF Tidy, IdsTrue
<1>16. OneCall'
  <2>1. call.cmd = "list" => call.def \notin Defs
    BY <1>3, OwnerAssumption
  <2>2. \A a, b \in calls : (a.def = b.def /\ a.def \in Defs => a = b) /\ (a.cmd = "list" => a.def \notin Defs)
    BY <1>9 DEF Tidy, OneCall
  <2> QED
    BY <1>1, <1>3, <1>10, <2>1, <2>2 DEF OneCall
<1>17. FreesTrue'
  BY <1>1, <1>3, <1>6, <1>9, <1>14 DEF Tidy, FreesTrue
<1>18. Pending'
  BY <1>1, <1>6, <1>9 DEF Tidy, Pending
<1>19. Ordered'
  <2>1. /\ requests[c] \in Seq(S) /\ call \in S
        /\ requests'[c] = Append(requests[c], call)
        /\ \A e \in Clients \ {c} : requests'[e] = requests[e]
    BY <1>3, <1>4, <1>5 DEF Changed
  <2>2. OrderedIn(requests[c]) /\ OwnedIn(c, requests[c])
    BY <1>9 DEF Tidy, Ordered
  <2>3. ASSUME NEW k \in DOMAIN requests[c], requests[c][k].def = call.def, call.def \in Defs
        PROVE  requests[c][k].cmd = "free" /\ call.cmd # "free"
    <3>1. requests[c][k] \in Flight(requests)
      BY FlightIs
    <3> QED
      BY <1>3, <1>9, <1>10, <2>3, <3>1 DEF Tidy, Pending
  <2>4. OrderedIn(requests'[c])
    BY <2>1, <2>2, <2>3, OrderedAppend
  <2>5. OwnedIn(c, requests'[c])
    BY <1>3, <2>1, <2>2, OwnedAppend
  <2>6. ASSUME NEW e \in Clients \ {c} PROVE OrderedIn(requests'[e]) /\ OwnedIn(e, requests'[e])
    BY <1>9, <2>1 DEF Tidy, Ordered
  <2> QED
    BY <2>4, <2>5, <2>6 DEF Ordered, OrderedIn, OwnedIn
<1>20. RepliesTrue'
  <2> SUFFICES ASSUME NEW m \in Flight(replies), NEW a \in calls', a.no = m.no, a.def \in Defs
               PROVE  /\ Quiet(a.def)'
                      /\ m.msg.id # NoId => /\ Stands(a.def, m.msg.name, m.msg.id, m.msg.io)'
                                            /\ a.cmd = "by_name" => m.msg.name = a.name
    BY <1>1 DEF RepliesTrue
  <2>1. m.no <= unique_id /\ m.no \in Nat
    <3>1. m \in Reply
      BY <1>4, FlightTyped
    <3> QED
      BY <3>1 DEF CInv, RepliesMatch, Reply
  <2>2. a \in calls
    BY <1>1, <1>2, <1>3, <2>1
  <2>3. /\ Quiet(a.def)
        /\ m.msg.id # NoId => /\ Stands(a.def, m.msg.name, m.msg.id, m.msg.io)
                              /\ a.cmd = "by_name" => m.msg.name = a.name
    BY <1>9, <2>2 DEF Tidy, RepliesTrue
  <2>4. Quiet(a.def)'
    BY <1>3, <1>6, <1>10, <2>2, <2>3 DEF Quiet
  <2> QED
    BY <1>14, <2>3, <2>4
<1>21. DictHeld'
  <2> SUFFICES ASSUME NEW b \in Clients, NEW n \in Names, NEW e \in Defs, dict[b][n] = e
               PROVE  (e \in holders[n] /\ NotFreeing(e)') \/ (defs[e] = BlankDef /\ Idle(e)')
    BY <1>1, <1>8 DEF DictHeld
  <2>1. CASE e \in holders[n] /\ NotFreeing(e)
    BY <1>3, <1>6, <2>1 DEF NotFreeing
  <2>2. CASE defs[e] = BlankDef /\ Idle(e)
    <3>1. Owner[e] = b
      BY <1>9 DEF DictOwned
    <3> QED
      BY <1>12, <2>2, <3>1
  <2> QED
    BY <1>9, <2>1, <2>2 DEF Tidy, DictHeld
<1> QED
  BY <1>13, <1>15, <1>16, <1>17, <1>18, <1>19, <1>20, <1>21 DEF Tidy

\* What Stands says of the entry.
LEMMA StandsIs ==
  ASSUME TypeOK, NEW d, NEW name, NEW id \in Entries, NEW io, Stands(d, name, id, io)
  PROVE  /\ objects[id].compiled /\ objects[id].name = name
         /\ name \in Names /\ name # NoName /\ io \in IOShapes
         /\ id \in CompiledEntries(objects)
<1>1. PICK fun \in Funs : objects[id] = CompiledObject(name, fun, io)
  BY DEF Stands
<1>2. objects[id].compiled /\ objects[id].name = name /\ objects[id].io = io
  BY <1>1 DEF CompiledObject
<1>3. objects[id] \in JuliaObject
  BY DEF TypeOK
<1>4. name \in Names /\ io \in IOShapes
  BY <1>2, <1>3, CompiledIs
<1> QED
  BY <1>2, <1>4, NamesAssumption DEF CompiledEntries

LEMMA TidyFree ==
  ASSUME CInv, TidyInv, NEW d \in Defs, FreeJuliaDef(d)
  PROVE  TidyInv'
<1> DEFINE msg == [no |-> 0, def |-> d, cmd |-> "free", id |-> defs[d].server_id]
           c == Owner[d]
           name == defs[d].name
           S == GoodCmd \cup FreeCmd
<1>1. /\ defs[d].server_id # NoId
      /\ requests' = [requests EXCEPT ![c] = Append(@, msg)]
      /\ dict' = [dict EXCEPT ![c][name] = NoDef]
      /\ defs' = [defs EXCEPT ![d] = BlankDef]
      /\ Noted(CallsOf(d) = {}, holders)
      /\ UNCHANGED <<vars, replies, refused, calls, unique_id>>
  BY DEF FreeJuliaDef, Send
<1>2. c \in Clients /\ defs \in [Defs -> JuliaDef] /\ defs[d] \in JuliaDef
  BY OwnerAssumption DEF CInv, FieldsOK
<1>3. name \in Names \cup {NoName} /\ defs[d].server_id \in Entries
  BY <1>1, <1>2 DEF JuliaDef
<1>4. msg \in S /\ msg.def = d /\ msg.cmd = "free" /\ msg.id = defs[d].server_id
  BY <1>3 DEF FreeCmd
<1>5. requests \in [Clients -> Seq(S)]
      /\ dict \in [Clients -> [Names \cup {NoName} -> Defs \cup {NoDef}]]
  BY DEF CInv, ChannelsOK, FieldsOK
<1> HIDE DEF msg, c, S, name
<1>6. Changed(requests', requests, c, Append(requests[c], msg))
  BY <1>1, <1>5 DEF Changed
<1>7. \A m \in Flight(requests') : m \in Flight(requests) \/ m = msg
  BY <1>2, <1>4, <1>5, <1>6, FlightAppend
<1>8. ASSUME NEW b \in Clients, NEW n \in Names \cup {NoName}
      PROVE  dict'[b][n] = IF b = c /\ n = name THEN NoDef ELSE dict[b][n]
  BY <1>1, <1>5
<1>9. ASSUME NEW b \in Clients, NEW n \in Names \cup {NoName}, NEW e \in Defs, dict'[b][n] = e
      PROVE  dict[b][n] = e
  BY <1>8, <1>9, OwnerAssumption
<1>10. DictOwned'
  BY <1>9 DEF TidyInv, DictOwned
<1> SUFFICES ASSUME tidy' PROVE Tidy'
  BY <1>10 DEF TidyInv
<1>11. tidy /\ CallsOf(d) = {} /\ holders' = holders
  BY <1>1, NotedTidy
<1>12. Tidy /\ TypeOK
  BY <1>11 DEF TidyInv, CInv, Inv
<1>13. \A a \in calls : a.def # d
  BY <1>11 DEF CallsOf
<1>14. objects' = objects /\ clean' = clean /\ calls' = calls /\ replies' = replies
  BY <1>1 DEF vars
<1>15. /\ \A e \in Defs \ {d} : defs'[e] = defs[e]
       /\ defs'[d] = BlankDef /\ defs[d] # BlankDef
       /\ BlankDef.name = NoName /\ BlankDef.server_id = NoId
  BY <1>1, <1>2 DEF BlankDef
<1>16. ASSUME NEW e, NEW n, NEW id, NEW io
       PROVE  Stands(e, n, id, io)' <=> Stands(e, n, id, io)
  BY <1>11, <1>14 DEF Stands
<1>17. Stands(d, name, defs[d].server_id, defs[d].io)
  BY <1>1, <1>11, <1>12 DEF Tidy, IdsTrue, Idle, name
<1>18. name \in Names /\ name # NoName /\ defs[d].io \in IOShapes /\ d \in holders[name]
  BY <1>3, <1>12, <1>17, StandsIs DEF Stands
<1>19. \A r \in Flight(requests) : r.def # d
  <2> SUFFICES ASSUME NEW r \in Flight(requests), r.def = d PROVE FALSE
    OBVIOUS
  <2>1. CASE r.cmd = "free"
    BY <1>12, <1>15, <2>1 DEF Tidy, FreesTrue
  <2>2. CASE r.cmd # "free"
    BY <1>12, <1>13, <2>2 DEF Tidy, Pending
  <2> QED
    BY <2>1, <2>2
<1>20. clean' /\ SoleHolder'
  BY <1>11, <1>12, <1>14 DEF Tidy, SoleHolder
<1>21. NameHeld'
  BY <1>11, <1>12, <1>15 DEF Tidy, NameHeld
<1>22. IdsTrue'
  BY <1>12, <1>14, <1>15, <1>16 DEF Tidy, IdsTrue, Idle, CallsOf
<1>23. Entered'
  <2> SUFFICES ASSUME NEW e \in Defs, ~defs'[e].symbol, defs'[e].name # NoName
               PROVE  dict'[Owner[e]][defs'[e].name] = e
    BY DEF Entered
  <2>1. e # d /\ defs'[e] = defs[e] /\ defs[e] \in JuliaDef /\ Owner[e] \in Clients
    BY <1>2, <1>15, OwnerAssumption
  <2>2. dict[Owner[e]][defs[e].name] = e /\ e \in holders[defs[e].name]
    BY <1>12, <2>1 DEF Tidy, Entered, NameHeld
  <2>3. defs[e].name \in Names
    BY <2>1 DEF JuliaDef
  <2>4. defs[e].name # name
    BY <1>12, <1>18, <2>1, <2>2 DEF Tidy, SoleHolder
  <2> QED
    BY <1>8, <2>1, <2>2, <2>3, <2>4
<1>24. OneCall'
  BY <1>12, <1>14 DEF Tidy, OneCall
<1>25. FreesTrue'
  <2> SUFFICES ASSUME NEW r \in Flight(requests'), r.cmd = "free"
               PROVE  /\ defs'[r.def] = BlankDef
                      /\ \E n \in Names, io \in IOShapes : Stands(r.def, n, r.id, io)'
    BY DEF FreesTrue
  <2>1. CASE r = msg
    BY <1>4, <1>15, <1>16, <1>17, <1>18, <2>1
  <2>2. CASE r \in Flight(requests)
    <3>1. /\ defs[r.def] = BlankDef
          /\ \E n \in Names, io \in IOShapes : Stands(r.def, n, r.id, io)
      BY <1>12, <2>2 DEF Tidy, FreesTrue
    <3>2. defs'[r.def] = defs[r.def]
      BY <1>1, <1>2, <1>19, <2>2
    <3> QED
      BY <1>16, <3>1, <3>2
  <2> QED
    BY <1>7, <2>1, <2>2
<1>26. Pending'
  BY <1>4, <1>7, <1>12, <1>14 DEF Tidy, Pending
<1>27. Ordered'
  <2>1. /\ requests[c] \in Seq(S) /\ msg \in S /\ c \in Clients
        /\ requests'[c] = Append(requests[c], msg)
        /\ \A e \in Clients \ {c} : requests'[e] = requests[e]
    BY <1>2, <1>4, <1>5, <1>6 DEF Changed
  <2>2. OrderedIn(requests[c]) /\ OwnedIn(c, requests[c])
    BY <1>2, <1>12 DEF Tidy, Ordered
  <2>3. ASSUME NEW k \in DOMAIN requests[c] PROVE requests[c][k].def # msg.def
    BY <1>4, <1>19, <2>1, FlightIs
  <2>4. OrderedIn(requests'[c])
    BY <2>1, <2>2, <2>3, OrderedAppend
  <2>5. OwnedIn(c, requests'[c])
    BY <1>4, <2>1, <2>2, OwnedAppend DEF c
  <2>6. ASSUME NEW e \in Clients \ {c} PROVE OrderedIn(requests'[e]) /\ OwnedIn(e, requests'[e])
    BY <1>12, <2>1 DEF Tidy, Ordered
  <2> QED
    BY <2>4, <2>5, <2>6 DEF Ordered, OrderedIn, OwnedIn
<1>28. RepliesTrue'
  <2> SUFFICES ASSUME NEW m \in Flight(replies), NEW a \in calls, a.no = m.no, a.def \in Defs
               PROVE  /\ Quiet(a.def)'
                      /\ m.msg.id # NoId => /\ Stands(a.def, m.msg.name, m.msg.id, m.msg.io)'
                                            /\ a.cmd = "by_name" => m.msg.name = a.name
    BY <1>14 DEF RepliesTrue
  <2>1. /\ Quiet(a.def)
        /\ m.msg.id # NoId => /\ Stands(a.def, m.msg.name, m.msg.id, m.msg.io)
                              /\ a.cmd = "by_name" => m.msg.name = a.name
    BY <1>12 DEF Tidy, RepliesTrue
  <2>2. Quiet(a.def)'
    BY <1>4, <1>7, <1>13, <2>1 DEF Quiet
  <2> QED
    BY <1>16, <2>1, <2>2
<1>29. DictHeld'
  <2> SUFFICES ASSUME NEW b \in Clients, NEW n \in Names, NEW e \in Defs, dict'[b][n] = e
               PROVE  (e \in holders[n] /\ NotFreeing(e)') \/ (defs'[e] = BlankDef /\ Idle(e)')
    BY <1>11 DEF DictHeld
  <2>1. (e \in holders[n] /\ NotFreeing(e)) \/ (defs[e] = BlankDef /\ Idle(e))
    BY <1>9, <1>12 DEF Tidy, DictHeld
  <2>2. CASE e = d
    BY <1>11, <1>14, <1>15, <2>2 DEF Idle, CallsOf
  <2>3. CASE e # d
    <3>1. NotFreeing(e) => NotFreeing(e)'
      BY <1>4, <1>7, <2>3 DEF NotFreeing
    <3>2. Idle(e) => Idle(e)'
      BY <1>14 DEF Idle, CallsOf
    <3> QED
      BY <1>15, <2>1, <2>3, <3>1, <3>2
  <2> QED
    BY <2>2, <2>3
<1> QED
  BY <1>20, <1>21, <1>22, <1>23, <1>24, <1>25, <1>26, <1>27, <1>28, <1>29 DEF Tidy

\* What a command does, if it leaves the clients tidy: to what the others stand
\* for, nothing; and a reply that has an id tells what is in the table.
Spares(d, freed) ==
    /\ tidy /\ clean' /\ SoleHolder'
    /\ \A e \in Defs, n \in Names : e \in holders[n] /\ (e # d \/ ~freed) => e \in holders'[n]
    /\ \A e \in Defs \ {d}, n \in Names, id \in Entries, io \in IOShapes :
          Stands(e, n, id, io) => Stands(e, n, id, io)'
Reports(d) ==
    reply' # NoReply /\ reply'.id # NoId => Stands(d, reply.name, reply.id, reply.io)'

\* d has come to hold the name, and no other had it.
LEMMA HeldBySpares ==
  ASSUME HistoryOK, NEW d \in Defs, NEW name \in Names, NEW ok, HeldBy(d, name, ok),
         tidy => SoleHolder, tidy'
  PROVE  /\ tidy /\ ok /\ SoleHolder' /\ holders[name] \subseteq {d} /\ d \in holders'[name]
         /\ \A n \in Names : holders[n] \subseteq holders'[n]
<1>1. /\ tidy /\ (ok /\ holders[name] \subseteq {d})
      /\ holders' = [holders EXCEPT ![name] = @ \cup {d}]
  BY NotedTidy DEF HeldBy
<1>2. \A n \in Names : holders'[n] = IF n = name THEN holders[n] \cup {d} ELSE holders[n]
  BY <1>1 DEF HistoryOK
<1>3. SoleHolder'
  BY <1>1, <1>2 DEF SoleHolder
<1> QED
  BY <1>1, <1>2, <1>3

\* create_julia_object, as in CompileKeepsName.
LEMMA CompileSpares ==
  ASSUME CInv, tidy => Tidy, tidy', NEW d \in Defs,
         NEW target \in Entries, NEW name \in Names, NEW io \in IOShapes,
         NEW outcome \in LoadOutcomes, NEW objs \in [Entries -> JuliaObject], NEW active,
         \A i \in Entries \ {target} : objs[i] = objects[i],
         objects[target].compiled => objects[target].name = name,
         Compile(target, name, io, outcome, objs, active),
         HeldBy(d, name, outcome # "set_id_fails")
  PROVE  Spares(d, FALSE) /\ Reports(d)
<1> DEFINE o == CompiledObject(name, compiles + 1, io)
<1>1. TypeOK /\ HistoryOK
  BY DEF CInv, Inv
<1>2. outcome # "compile_fails" => compiles + 1 \in Funs
  BY <1>1, MaxCompilesAssumption DEF TypeOK, Compile, Funs
<1>3. outcome # "compile_fails" => o \in JuliaObject
  BY <1>2, ObjectFields
<1>4. /\ tidy /\ outcome # "set_id_fails" /\ SoleHolder'
      /\ holders[name] \subseteq {d} /\ d \in holders'[name]
      /\ \A n \in Names : holders[n] \subseteq holders'[n]
  <2>1. tidy => SoleHolder
    BY DEF Tidy
  <2> QED
    BY <1>1, <2>1, HeldBySpares
<1>5. clean'
  BY <1>4 DEF Compile, Tidy
<1>6. \/ objects' = [objs EXCEPT ![target] = NoObject]
      \/ outcome # "compile_fails" /\ objects' = [objs EXCEPT ![target] = o]
  BY DEF Compile
<1>7. \/ reply' = LoadFailed
      \/ /\ reply' = LoadReply(target, name, io)
         /\ outcome # "compile_fails" /\ objects'[target] = o
  BY DEF Compile, Reported
<1> HIDE DEF o
<1>8. \A i \in Entries \ {target} : objects'[i] = objects[i]
  BY <1>3, <1>6, ExceptUpdates, NoObjectIs DEF Updated
<1>9. ASSUME NEW e \in Defs \ {d}, NEW n \in Names, NEW id \in Entries, NEW ios \in IOShapes,
             Stands(e, n, id, ios)
      PROVE  Stands(e, n, id, ios)'
  <2>1. objects[id].compiled /\ objects[id].name = n
    BY <1>1, <1>9, StandsIs
  <2>2. id # target
    BY <1>4, <1>9, <2>1 DEF Stands
  <2> QED
    BY <1>4, <1>8, <1>9, <2>2 DEF Stands
<1>10. Reports(d)
  <2>1. CASE reply' = LoadFailed
    BY <2>1, LoadFailedSays DEF Reports
  <2>2. CASE /\ reply' = LoadReply(target, name, io)
             /\ outcome # "compile_fails" /\ objects'[target] = o
    <3>1. reply'.id = target /\ reply'.name = name /\ reply'.io = io
      BY <2>2, LoadReplySays
    <3> QED
      BY <1>2, <1>4, <2>2, <3>1 DEF Reports, Stands, o
  <2> QED
    BY <1>7, <2>1, <2>2
<1> QED
  BY <1>4, <1>5, <1>9, <1>10 DEF Spares

\* A command that touches neither the table nor the holders.
LEMMA StillSpares ==
  ASSUME tidy => Tidy, tidy', UNCHANGED <<objects, clean, history>>, NEW d
  PROVE  Spares(d, FALSE)
<1>1. tidy /\ holders' = holders /\ objects' = objects /\ clean' = clean
  BY DEF history
<1> QED
  BY <1>1 DEF Spares, Stands, Tidy, SoleHolder

LEMMA ServeLoadSpares ==
  ASSUME CInv, tidy => Tidy, tidy', NEW d \in Defs, ServeLoad(d)
  PROVE  Spares(d, FALSE) /\ (stray' \/ Reports(d))
<1>1. objects \in [Entries -> JuliaObject]
  BY DEF CInv, Inv, TypeOK
<1>2. ASSUME NEW name \in Names, NEW io \in IOShapes, NEW outcome \in LoadOutcomes,
             ReplaceObject(name, io, outcome), HeldBy(d, name, outcome # "set_id_fails")
      PROVE  Spares(d, FALSE) /\ Reports(d)
  <2> DEFINE found == Matching(objects, active_entries, name)
             target == Min(found)
             objs == [objects EXCEPT ![target] = NoObject]
  <2>1. found # {} /\ Compile(target, name, io, outcome, objs, Decreased(active_entries))
    BY <1>2 DEF ReplaceObject
  <2>2. found \subseteq Entries /\ \A i \in found : objects[i].name = name
    BY CompiledFinite DEF Matching, Scanned
  <2>3. target \in Entries /\ objects[target].name = name
    BY <2>1, <2>2, MinOfEntries
  <2> HIDE DEF target
  <2>4. Updated(objs, objects, target, NoObject)
    BY <1>1, <2>3, ExceptUpdates, NoObjectIs
  <2> HIDE DEF objs
  <2> QED
    BY <1>2, <2>1, <2>3, <2>4, CompileSpares DEF Updated
<1>3. ASSUME NEW name \in Names, NEW io \in IOShapes, NEW outcome \in LoadOutcomes,
             AddObject(name, io, outcome), HeldBy(d, name, outcome # "set_id_fails")
      PROVE  Spares(d, FALSE) /\ Reports(d)
  <2> DEFINE target == Min(EmptyEntries(objects))
  <2>1. /\ EmptyEntries(objects) # {}
        /\ Compile(target, name, io, outcome, objects, active_entries)
    BY <1>3 DEF AddObject
  <2>2. EmptyEntries(objects) \in SUBSET Entries
        /\ \A i \in EmptyEntries(objects) : ~objects[i].compiled
    BY DEF EmptyEntries
  <2>3. target \in Entries /\ ~objects[target].compiled
    BY <2>1, <2>2, MinOfEntries
  <2> HIDE DEF target
  <2> QED
    BY <1>1, <1>3, <2>1, <2>3, CompileSpares
<1>4. ASSUME LoadRefused, UNCHANGED history PROVE Spares(d, FALSE) /\ Reports(d)
  <2>1. UNCHANGED <<objects, clean, history>> /\ reply' = LoadFailed
    BY <1>4 DEF LoadRefused
  <2> QED
    BY <2>1, StillSpares, LoadFailedSays DEF Reports
<1>5. ASSUME NEW name \in Names, AddObjectNowhere(name), UNCHANGED history
      PROVE  Spares(d, FALSE) /\ stray'
  <2>1. UNCHANGED <<objects, clean, history>> /\ stray'
    BY <1>5 DEF AddObjectNowhere
  <2> QED
    BY <2>1, StillSpares
<1> QED
  BY <1>2, <1>3, <1>4, <1>5 DEF ServeLoad

LEMMA ServeByNameSpares ==
  ASSUME CInv, tidy => Tidy, tidy', NEW d \in Defs, NEW name \in Names, ServeByName(d, name)
  PROVE  /\ Spares(d, FALSE) /\ Reports(d)
         /\ reply' # NoReply => reply'.name = name
<1>1. GetObjectByName(name) /\ UNCHANGED <<objects, clean>>
  BY DEF ServeByName, GetObjectByName
<1>2. \/ reply' = NoReply
      \/ reply'.cmd = "by_name" /\ reply'.name = name
  <2>1. \E io, id : reply' = NoReply \/ reply' = ByNameReply(name, io, id)
    BY <1>1 DEF GetObjectByName
  <2> QED
    BY <2>1 DEF ByNameReply
<1>3. CASE reply'.cmd = "by_name" /\ reply'.id # NoId
  <2>1. HeldBy(d, name, TRUE) /\ HistoryOK /\ Inv
    BY <1>3 DEF ServeByName, CInv
  <2>2. /\ tidy /\ SoleHolder' /\ d \in holders'[name]
        /\ \A n \in Names : holders[n] \subseteq holders'[n]
    BY <2>1, HeldBySpares DEF Tidy
  <2>3. Spares(d, FALSE)
    BY <1>1, <2>2 DEF Spares, Stands, Tidy
  <2>4. Inv'
    BY <1>1, <2>1, GetObjectByNameStep
  <2>5. \E fun \in Funs : objects'[reply'.id] = CompiledObject(reply'.name, fun, reply'.io)
    BY <1>3, <2>3, <2>4 DEF Inv, QueriesTrue, ByNameFinds, Spares
  <2>6. reply'.name = name
    BY <1>2, <1>3, NoReplySays
  <2> QED
    BY <2>2, <2>3, <2>5, <2>6 DEF Reports, Stands
<1>4. CASE ~(reply'.cmd = "by_name" /\ reply'.id # NoId)
  <2>1. UNCHANGED <<objects, clean, history>>
    BY <1>1, <1>4 DEF ServeByName
  <2> QED
    BY <1>2, <1>4, <2>1, StillSpares DEF Reports
<1> QED
  BY <1>3, <1>4

\* A free that is not stale frees what d stands for, which no other does.
LEMMA ServeFreeSpares ==
  ASSUME CInv, tidy => Tidy, tidy', NEW d \in Defs, NEW id \in Entries, ServeFree(d, id),
         tidy => \E name \in Names, io \in IOShapes : Stands(d, name, id, io)
  PROVE  Spares(d, TRUE)
<1>1. /\ clean' = (clean /\ objects[id].compiled)
      /\ objects' = [objects EXCEPT ![id] = NoObject]
      /\ Noted(TRUE, [n \in Names |-> holders[n] \ {d}])
  BY DEF ServeFree, DeleteObject
<1>2. tidy /\ holders' = [n \in Names |-> holders[n] \ {d}]
  BY <1>1, NotedTidy
<1>3. TypeOK /\ Tidy /\ objects \in [Entries -> JuliaObject]
  BY <1>2 DEF CInv, Inv, TypeOK
<1>4. PICK name \in Names, io \in IOShapes : Stands(d, name, id, io)
  BY <1>2
<1>5. objects[id].compiled /\ objects[id].name = name
  BY <1>3, <1>4, StandsIs
<1>6. clean' /\ SoleHolder'
  BY <1>1, <1>2, <1>3, <1>5 DEF Tidy, SoleHolder
<1>7. ASSUME NEW e \in Defs \ {d}, NEW n \in Names, NEW i \in Entries, NEW ios \in IOShapes,
             Stands(e, n, i, ios)
      PROVE  Stands(e, n, i, ios)'
  <2>1. objects[i].name = n
    BY <1>3, <1>7, StandsIs
  <2>2. i # id
    BY <1>3, <1>4, <1>5, <1>7, <2>1 DEF Stands, Tidy, SoleHolder
  <2>3. objects'[i] = objects[i]
    BY <1>1, <1>3, <2>2
  <2> QED
    BY <1>2, <1>7, <2>3 DEF Stands
<1> QED
  BY <1>2, <1>6, <1>7 DEF Spares

LEMMA HandleTidy ==
  ASSUME CInv, tidy => Tidy, tidy', NEW r \in Flight(requests), Handle(r)
  PROVE  /\ tidy /\ Spares(r.def, r.cmd = "free")
         /\ Answers(r) /\ r.def \in Defs =>
               /\ r.cmd # "free"
               /\ r.cmd # "list" =>
                     Reports(r.def) /\ (r.cmd = "by_name" => reply'.name = r.name)
<1>1. requests \in [Clients -> Seq(GoodCmd \cup FreeCmd)]
  BY DEF CInv, ChannelsOK
<1>2. r \in GoodCmd \cup FreeCmd
  BY <1>1, FlightTyped
<1>3. CASE r.cmd = "load"
  <2>1. ServeLoad(r.def) /\ r.def \in Defs
    BY <1>2, <1>3 DEF Handle, GoodCmd, Cmd, FreeCmd
  <2>2. Spares(r.def, FALSE) /\ (stray' \/ Reports(r.def))
    BY <2>1, ServeLoadSpares
  <2>3. Spares(r.def, r.cmd = "free")
    BY <1>3, <2>2 DEF Spares
  <2> QED
    BY <1>3, <2>2, <2>3 DEF Answers, Spares
<1>4. CASE r.cmd = "by_name"
  <2>1. ServeByName(r.def, r.name) /\ r.def \in Defs /\ r.name \in Names
    BY <1>2, <1>4 DEF Handle, GoodCmd, Cmd, FreeCmd
  <2>2. Spares(r.def, FALSE) /\ Reports(r.def) /\ (reply' # NoReply => reply'.name = r.name)
    BY <2>1, ServeByNameSpares
  <2>3. Spares(r.def, r.cmd = "free")
    BY <1>4, <2>2 DEF Spares
  <2> QED
    BY <1>4, <2>2, <2>3 DEF Answers, Spares
<1>5. CASE r.cmd = "list"
  <2>1. UNCHANGED <<objects, clean, history>>
    BY <1>5 DEF Handle, GetObjectsList
  <2>2. Spares(r.def, FALSE)
    BY <2>1, StillSpares
  <2>3. Spares(r.def, r.cmd = "free")
    BY <1>5, <2>2 DEF Spares
  <2> QED
    BY <1>5, <2>3 DEF Spares
<1>6. CASE r.cmd = "free"
  <2>1. /\ ServeFree(r.def, r.id) /\ r.def \in Defs /\ r.id \in Entries /\ r.no = 0
    BY <1>2, <1>6 DEF Handle, GoodCmd, Cmd, FreeCmd
  <2>2. tidy => \E name \in Names, io \in IOShapes : Stands(r.def, name, r.id, io)
    BY <1>6 DEF Tidy, FreesTrue
  <2>3. Spares(r.def, TRUE)
    BY <2>1, <2>2, ServeFreeSpares
  <2>4. Spares(r.def, r.cmd = "free")
    BY <1>6, <2>3 DEF Spares
  <2> QED
    BY <2>1, <2>4 DEF Answers, Spares
<1> QED
  BY <1>3, <1>4, <1>5, <1>6 DEF Handle

\* What is behind a request that is taken.
LEMMA BehindIt ==
  ASSUME Ordered, NEW S, requests \in [Clients -> Seq(S)], NEW c \in Clients, requests[c] # <<>>,
         Changed(requests', requests, c, Tail(requests[c]))
  PROVE  /\ Ordered'
         /\ Head(requests[c]).def \in Defs =>
               \A q \in Flight(requests') :
                  q.def = Head(requests[c]).def => Head(requests[c]).cmd = "free" /\ q.cmd # "free"
<1> DEFINE r == Head(requests[c])
<1>1. /\ requests[c] \in Seq(S) /\ OrderedIn(requests[c]) /\ OwnedIn(c, requests[c])
      /\ requests'[c] = Tail(requests[c])
      /\ \A e \in Clients \ {c} : requests'[e] = requests[e]
  BY DEF Ordered, Changed
<1>2. /\ OrderedIn(requests'[c])
      /\ r.def \in Defs =>
            \A k \in DOMAIN requests'[c] :
               requests'[c][k].def = r.def => r.cmd = "free" /\ requests'[c][k].cmd # "free"
  BY <1>1, OrderedTail
<1>3. OwnedIn(c, requests'[c])
  BY <1>1, OwnedTail
<1>4. ASSUME NEW e \in Clients \ {c} PROVE OrderedIn(requests'[e]) /\ OwnedIn(e, requests'[e])
  BY <1>1 DEF Ordered
<1>5. Ordered'
  BY <1>2, <1>3, <1>4 DEF Ordered, OrderedIn, OwnedIn
<1>6. r.def \in Defs => Owner[r.def] = c
  <2>1. 1 \in DOMAIN requests[c] /\ r = requests[c][1]
    BY <1>1
  <2> QED
    BY <1>1, <2>1 DEF OwnedIn
<1> HIDE DEF r
<1>7. ASSUME r.def \in Defs, NEW q \in Flight(requests'), q.def = r.def
      PROVE  r.cmd = "free" /\ q.cmd # "free"
  <2>1. PICK e \in Clients : \E k \in DOMAIN requests'[e] : q = requests'[e][k]
    BY FlightIs
  <2>2. e = c
    BY <1>4, <1>6, <1>7, <2>1 DEF OwnedIn
  <2> QED
    BY <1>2, <1>7, <2>1, <2>2
<1> QED
  BY <1>5, <1>7 DEF r

\* A command is taken that spares the others, and its answer, if it has one, is
\* true.
LEMMA TidyTaken ==
  ASSUME CInv, CInv', TidyInv, NEW c \in Clients, NEW r, NEW answered, Taken(c, r, answered),
         answered => Answers(r),
         tidy' => /\ Spares(r.def, r.cmd = "free")
                  /\ answered /\ r.def \in Defs =>
                        /\ r.cmd # "free"
                        /\ r.cmd # "list" =>
                              Reports(r.def) /\ (r.cmd = "by_name" => reply'.name = r.name)
  PROVE  TidyInv'
<1> DEFINE S == GoodCmd \cup FreeCmd
           msg == [no |-> r.no, msg |-> reply']
<1>0. r = Head(requests[c])
  BY DEF Taken
<1>1. /\ requests[c] # <<>>
      /\ requests' = [requests EXCEPT ![c] = Tail(@)]
      /\ replies' = IF answered THEN [replies EXCEPT ![c] = Append(@, msg)] ELSE replies
      /\ UNCHANGED <<defs, dict, calls, unique_id>>
  BY DEF Taken, client
<1>2. requests \in [Clients -> Seq(S)] /\ replies \in [Clients -> Seq(Reply)]
  BY DEF CInv, ChannelsOK
<1>4. DictOwned'
  BY <1>1 DEF TidyInv, DictOwned
<1> SUFFICES ASSUME tidy' PROVE Tidy'
  BY <1>4 DEF TidyInv
<1> HIDE DEF S, msg
<1>5. Changed(requests', requests, c, Tail(requests[c]))
  BY <1>1, <1>2 DEF Changed
<1>6. r \in Flight(requests) /\ r \in S
  BY <1>0, <1>1, <1>2, HeadInFlight
<1>7. \A q \in Flight(requests') : q \in Flight(requests)
  <2>1. requests[c] # <<>>
    BY <1>1
  <2> QED
    BY <1>2, <1>5, <2>1, FlightTail
<1>8. tidy => Tidy
  BY DEF TidyInv
<1>9. /\ tidy /\ Spares(r.def, r.cmd = "free")
      /\ answered /\ r.def \in Defs =>
            /\ r.cmd # "free"
            /\ r.cmd # "list" => Reports(r.def) /\ (r.cmd = "by_name" => reply'.name = r.name)
  BY DEF Spares
<1>10. Tidy
  BY <1>8, <1>9
<1>11. /\ Ordered'
       /\ r.def \in Defs =>
             \A q \in Flight(requests') : q.def = r.def => r.cmd = "free" /\ q.cmd # "free"
  <2>1. Ordered /\ requests[c] # <<>>
    BY <1>1, <1>10 DEF Tidy
  <2> QED
    BY <1>0, <1>2, <1>5, <2>1, BehindIt
<1>12. \A e \in Defs : defs[e] \in JuliaDef
  BY DEF CInv, FieldsOK
<1>13. \A e : Idle(e)' <=> Idle(e)
  BY <1>1 DEF Idle, CallsOf
<1>14. r.cmd = "free" => r \in FreeCmd /\ defs[r.def] = BlankDef
  BY <1>6, <1>10 DEF S, GoodCmd, Cmd, FreeCmd, Tidy, FreesTrue
<1>15. r.def \in Defs /\ r.cmd # "free" => r \in calls
  BY <1>6, <1>10 DEF Tidy, Pending
<1>16. BlankDef.name = NoName /\ BlankDef.server_id = NoId
  BY DEF BlankDef
<1>17. clean' /\ SoleHolder'
  BY <1>9 DEF Spares
<1>18. NameHeld'
  <2> SUFFICES ASSUME NEW e \in Defs, defs[e].name # NoName PROVE e \in holders'[defs[e].name]
    BY <1>1 DEF NameHeld
  <2>1. defs[e].name \in Names /\ e \in holders[defs[e].name]
    BY <1>10, <1>12 DEF JuliaDef, Tidy, NameHeld
  <2> QED
    BY <1>9, <1>14, <1>16, <2>1 DEF Spares
<1>19. IdsTrue'
  <2> SUFFICES ASSUME NEW e \in Defs, defs[e].server_id # NoId, Idle(e)
               PROVE  Stands(e, defs[e].name, defs[e].server_id, defs[e].io)'
    BY <1>1, <1>13 DEF IdsTrue
  <2>1. Stands(e, defs[e].name, defs[e].server_id, defs[e].io)
    BY <1>10 DEF Tidy, IdsTrue
  <2>2. e # r.def
    BY <1>14, <1>15, <1>16 DEF Idle, CallsOf
  <2>3. defs[e].server_id \in Entries
    BY <1>12 DEF JuliaDef
  <2>4. defs[e].name \in Names /\ defs[e].io \in IOShapes
    BY <2>1, <2>3, StandsIs DEF CInv, Inv
  <2> QED
    BY <1>1, <1>9, <2>1, <2>2, <2>3, <2>4 DEF Spares, Stands
<1>20. Entered' /\ OneCall'
  BY <1>1, <1>10 DEF Tidy, Entered, OneCall
<1>21. FreesTrue'
  <2> SUFFICES ASSUME NEW q \in Flight(requests'), q.cmd = "free"
               PROVE  /\ defs[q.def] = BlankDef
                      /\ \E name \in Names, io \in IOShapes : Stands(q.def, name, q.id, io)'
    BY <1>1 DEF FreesTrue
  <2>1. q \in S
    BY <1>2, <1>7, FlightTyped
  <2>2. q.def \in Defs /\ q.id \in Entries
    BY <2>1 DEF S, GoodCmd, Cmd, FreeCmd
  <2>3. /\ defs[q.def] = BlankDef
        /\ \E name \in Names, io \in IOShapes : Stands(q.def, name, q.id, io)
    BY <1>7, <1>10 DEF Tidy, FreesTrue
  <2>4. q.def # r.def
    BY <1>11, <2>2
  <2> QED
    BY <1>9, <2>2, <2>3, <2>4 DEF Spares
<1>22. Pending'
  BY <1>1, <1>7, <1>10 DEF Tidy, Pending
<1>23. RepliesTrue'
  <2> SUFFICES ASSUME NEW m \in Flight(replies'), NEW a \in calls, a.no = m.no, a.def \in Defs
               PROVE  /\ Quiet(a.def)'
                      /\ m.msg.id # NoId => /\ Stands(a.def, m.msg.name, m.msg.id, m.msg.io)'
                                            /\ a.cmd = "by_name" => m.msg.name = a.name
    BY <1>1 DEF RepliesTrue
  <2>1. a \in GoodCmd /\ a.cmd \in {"load", "by_name"}
    BY <1>10 DEF CInv, CallsOK, GoodCmd, Cmd, Tidy, OneCall
  <2>2. CASE m \in Flight(replies)
    <3>1. /\ Quiet(a.def)
          /\ m.msg.id # NoId => /\ Stands(a.def, m.msg.name, m.msg.id, m.msg.io)
                                /\ a.cmd = "by_name" => m.msg.name = a.name
      BY <1>10, <2>2 DEF Tidy, RepliesTrue
    <3>2. a.def # r.def /\ Quiet(a.def)'
      BY <1>6, <1>7, <3>1 DEF Quiet
    <3>3. m \in Reply /\ m.msg.cmd = a.cmd
      BY <1>2, <2>2, FlightTyped DEF CInv, RepliesMatch
    <3>4. m.msg.id \in Entries \cup {NoId}
      BY <2>1, <3>3, ReplyFields DEF Reply
    <3>5. ASSUME m.msg.id # NoId PROVE Stands(a.def, m.msg.name, m.msg.id, m.msg.io)'
      <4>1. m.msg.name \in Names /\ m.msg.io \in IOShapes
        BY <3>1, <3>4, <3>5, StandsIs DEF CInv, Inv
      <4> QED
        BY <1>9, <3>1, <3>2, <3>4, <3>5, <4>1 DEF Spares
    <3> QED
      BY <3>1, <3>2, <3>5
  <2>3. CASE m = msg /\ answered
    <3>1. m.no = r.no /\ m.msg = reply' /\ reply' # NoReply
      BY <2>3 DEF msg, Answers
    <3>2. a = r
      BY <1>6, <3>1 DEF CInv, RequestsMatch
    <3>3. Quiet(a.def)'
      BY <1>11, <2>1, <3>2 DEF Quiet
    <3>4. Reports(r.def) /\ (r.cmd = "by_name" => reply'.name = r.name)
      BY <1>9, <2>1, <2>3, <3>2
    <3> QED
      BY <3>1, <3>2, <3>3, <3>4 DEF Reports, Stands
  <2>4. m \in Flight(replies) \/ (m = msg /\ answered)
    <3>1. CASE answered
      <4>1. r.no \in 1 .. MaxCalls /\ reply' \in Replies \ {NoReply}
        BY <1>6, <3>1 DEF Answers, S, GoodCmd, Cmd, FreeCmd, CInv, Inv, TypeOK
      <4>2. msg \in Reply /\ replies \in [Clients -> Seq(Reply)]
        BY <1>2, <4>1 DEF msg, Reply
      <4>3. Changed(replies', replies, c, Append(replies[c], msg))
        BY <1>1, <4>2, <3>1 DEF Changed, msg
      <4>4. \A q \in Flight(replies') : q \in Flight(replies) \/ q = msg
        BY <4>2, <4>3, FlightAppend
      <4> QED
        BY <3>1, <4>4
    <3> QED
      BY <1>1, <3>1
  <2> QED
    BY <2>2, <2>3, <2>4
<1>24. DictHeld'
  <2> SUFFICES ASSUME NEW b \in Clients, NEW n \in Names, NEW e \in Defs, dict[b][n] = e
               PROVE  (e \in holders'[n] /\ NotFreeing(e)') \/ (defs[e] = BlankDef /\ Idle(e)')
    BY <1>1 DEF DictHeld
  <2>1. NotFreeing(e) => NotFreeing(e)' /\ ~(e = r.def /\ r.cmd = "free")
    BY <1>6, <1>7 DEF NotFreeing
  <2>2. (e \in holders[n] /\ NotFreeing(e)) \/ (defs[e] = BlankDef /\ Idle(e))
    BY <1>10 DEF Tidy, DictHeld
  <2> QED
    BY <1>9, <1>13, <2>1, <2>2 DEF Spares
<1> QED
  BY <1>11, <1>17, <1>18, <1>19, <1>20, <1>21, <1>22, <1>23, <1>24 DEF Tidy

LEMMA TidyServe ==
  ASSUME CInv, TidyInv, NEW c \in Clients, Serve(c)
  PROVE  TidyInv'
<1>0. PICK r : r = Head(requests[c])
  OBVIOUS
<1>1. Handle(r) /\ Taken(c, r, Answers(r)) /\ requests[c] # <<>>
  BY <1>0 DEF Serve, Taken
<1>2. requests \in [Clients -> Seq(GoodCmd \cup FreeCmd)]
  BY DEF CInv, ChannelsOK
<1>3. r \in Flight(requests)
  BY <1>0, <1>1, <1>2, HeadInFlight
<1>4. CInv'
  BY ServeStep
<1>5. tidy => Tidy
  BY DEF TidyInv
<1>6. tidy' => /\ Spares(r.def, r.cmd = "free")
               /\ Answers(r) /\ r.def \in Defs =>
                     /\ r.cmd # "free"
                     /\ r.cmd # "list" =>
                           Reports(r.def) /\ (r.cmd = "by_name" => reply'.name = r.name)
  BY <1>1, <1>3, <1>5, HandleTidy
<1> QED
  BY <1>1, <1>4, <1>6, TidyTaken

\* A command that is turned away changes nothing that another stands for; by a
\* free its JuliaDef has given up the @object all the same.
LEMMA TidyRefuse ==
  ASSUME CInv, TidyInv, NEW c \in Clients, Refuse(c)
  PROVE  TidyInv'
<1>0. PICK r : r = Head(requests[c])
  OBVIOUS
<1> DEFINE held == IF r.cmd = "free" THEN [n \in Names |-> holders[n] \ {r.def}] ELSE holders
<1>1. Taken(c, r, FALSE) /\ UNCHANGED vars /\ Noted(TRUE, held)
  BY <1>0 DEF Refuse, Taken
<1>2. CInv'
  BY RefuseStep
<1>3. ASSUME tidy' PROVE Spares(r.def, r.cmd = "free")
  <2>1. tidy /\ holders' = held
    <3> HIDE DEF held
    <3> QED
      BY <1>1, <1>3, NotedTidy
  <2>2. Tidy /\ HistoryOK /\ objects' = objects /\ clean' = clean
    BY <1>1, <2>1 DEF TidyInv, CInv, vars
  <2>3. \A n \in Names : holders'[n] = IF r.cmd = "free" THEN holders[n] \ {r.def} ELSE holders[n]
    BY <2>1, <2>2 DEF HistoryOK
  <2>4. clean' /\ SoleHolder'
    BY <2>2, <2>3 DEF Tidy, SoleHolder
  <2>5. \A e \in Defs, n \in Names :
           e \in holders[n] /\ (e # r.def \/ r.cmd # "free") => e \in holders'[n]
    BY <2>3
  <2>6. ASSUME NEW e \in Defs \ {r.def}, NEW n \in Names, NEW id \in Entries, NEW io \in IOShapes,
               Stands(e, n, id, io)
        PROVE  Stands(e, n, id, io)'
    BY <2>2, <2>5, <2>6 DEF Stands
  <2> QED
    BY <2>1, <2>4, <2>5, <2>6 DEF Spares
<1> QED
  BY <1>1, <1>2, <1>3, TidyTaken

\* What a reply to a call puts into its JuliaDef, and under which name.
LEMMA Resumed ==
  ASSUME CInv, NEW call \in calls, NEW m \in Flight(replies), call.no = m.no,
         call.cmd # "list", Resume(call, m.msg)
  PROVE  \E new \in JuliaDef, key \in Names \cup {NoName} :
            /\ defs' = [defs EXCEPT ![call.def] = new]
            /\ dict' = [dict EXCEPT ![Owner[call.def]][key] = call.def]
            /\ tidy /\ Tidy =>
                  /\ key # NoName => call.def \in holders[key]
                  /\ new.name # NoName => call.def \in holders[new.name]
                  /\ new.server_id # NoId =>
                        Stands(call.def, new.name, new.server_id, new.io)
                  /\ ~new.symbol /\ new.name # NoName => new.name = key
<1> DEFINE d == call.def
           msg == m.msg
<1>1. replies \in [Clients -> Seq(Reply)] /\ defs \in [Defs -> JuliaDef]
  BY DEF CInv, ChannelsOK, FieldsOK
<1>2. m \in Reply /\ call \in GoodCmd
  BY <1>1, FlightTyped DEF CInv, CallsOK
<1>3. msg \in Replies /\ msg.cmd = call.cmd /\ d \in Defs
  BY <1>2 DEF CInv, RepliesMatch, Reply, GoodCmd
<1>4. call.cmd \in {"load", "by_name"}
  BY <1>2 DEF GoodCmd, Cmd
<1>5. msg.id \in Entries \cup {NoId} /\ msg.io \in IOShapes \cup {NoIO}
  BY <1>3, <1>4, ReplyFields
<1>6. tidy /\ Tidy /\ msg.id # NoId =>
        Stands(d, msg.name, msg.id, msg.io) /\ (call.cmd = "by_name" => msg.name = call.name)
  BY <1>3 DEF Tidy, RepliesTrue
<1>7. CASE call.cmd = "load"
  <2> DEFINE new == [name |-> msg.name, symbol |-> FALSE, server_id |-> msg.id,
                     io |-> msg.io, path |-> defs[d].path \/ msg.id # NoId]
  <2>1. msg.name \in Names \cup {NoName} /\ (msg.name # NoName => msg.id # NoId)
    <3>1. msg = LoadFailed \/ \E id \in Entries, n \in Names, io \in IOShapes : msg = LoadReply(id, n, io)
      BY <1>3, <1>7 DEF Replies, NoReply, ListReply, ByNameReply, FreeReply
    <3>2. \A id \in Entries : id # NoId
      BY NumEntriesAssumption DEF Entries, NoId
    <3>3. CASE msg = LoadFailed
      BY <3>3 DEF LoadFailed, LoadReply
    <3>4. ASSUME NEW id \in Entries, NEW n \in Names, NEW io \in IOShapes, msg = LoadReply(id, n, io)
          PROVE  msg.name \in Names /\ msg.id # NoId
      BY <3>2, <3>4, LoadReplySays
    <3> QED
      BY <3>1, <3>3, <3>4
  <2>2. /\ defs' = [defs EXCEPT ![d] = new]
        /\ dict' = [dict EXCEPT ![Owner[d]][new.name] = d]
    BY <1>7 DEF Resume, Loaded
  <2>3. new \in JuliaDef /\ new.name = msg.name /\ new.server_id = msg.id /\ new.io = msg.io
    BY <1>5, <2>1 DEF JuliaDef
  <2> HIDE DEF new
  <2>4. tidy /\ Tidy => (new.name # NoName => d \in holders[new.name])
    BY <1>6, <2>1, <2>3 DEF Stands
  <2> QED
    BY <1>6, <2>1, <2>2, <2>3, <2>4
<1>8. CASE call.cmd = "by_name"
  <2> DEFINE found == [name |-> call.name, symbol |-> TRUE, server_id |-> msg.id,
                       io |-> msg.io, path |-> TRUE]
             not_found == [defs[d] EXCEPT !.server_id = NoId, !.io = NoIO, !.path = FALSE]
             key == defs[d].name
  <2>1. /\ dict' = [dict EXCEPT ![Owner[d]][key] = d]
        /\ defs' = [defs EXCEPT ![d] = IF msg.id # NoId THEN found ELSE not_found]
    BY <1>8 DEF Resume, Retrieved
  <2>2. call.name \in Names /\ defs[d] \in JuliaDef /\ key \in Names \cup {NoName}
    BY <1>1, <1>2, <1>3, <1>8 DEF GoodCmd, JuliaDef
  <2>3. tidy /\ Tidy => (key # NoName => d \in holders[key])
    BY <1>3 DEF Tidy, NameHeld
  <2>4. CASE msg.id # NoId
    <3>1. /\ found \in JuliaDef /\ found.name = call.name /\ found.symbol
          /\ found.server_id = msg.id /\ found.io = msg.io
      BY <1>5, <2>2 DEF JuliaDef
    <3>2. defs' = [defs EXCEPT ![d] = found]
      BY <2>1, <2>4
    <3> HIDE DEF found, key
    <3>3. tidy /\ Tidy => /\ Stands(d, found.name, found.server_id, found.io)
                          /\ d \in holders[found.name]
      BY <1>6, <1>8, <2>4, <3>1 DEF Stands
    <3> QED
      BY <2>1, <2>2, <2>3, <3>1, <3>2, <3>3
  <2>5. CASE msg.id = NoId
    <3>1. not_found \in JuliaDef /\ not_found.name = key /\ not_found.server_id = NoId
      BY <2>2 DEF JuliaDef
    <3>2. defs' = [defs EXCEPT ![d] = not_found]
      BY <2>1, <2>5
    <3> HIDE DEF not_found, key
    <3> QED
      BY <2>1, <2>2, <2>3, <3>1, <3>2
  <2> QED
    BY <2>4, <2>5
<1> QED
  BY <1>4, <1>7, <1>8

LEMMA TidyAnswer ==
  ASSUME CInv, TidyInv, NEW c \in Clients, Answer(c)
  PROVE  TidyInv'
<1>1. PICK m : m = Head(replies[c])
  OBVIOUS
<1>2. PICK call \in calls :
        /\ call.no = m.no
        /\ Resume(call, m.msg)
        /\ calls' = calls \ {call}
  BY <1>1 DEF Answer
<1>3. /\ replies[c] # <<>>
      /\ replies' = [replies EXCEPT ![c] = Tail(@)]
      /\ UNCHANGED <<vars, requests, refused, unique_id, history>>
  BY DEF Answer
<1>4. replies \in [Clients -> Seq(Reply)] /\ defs \in [Defs -> JuliaDef]
      /\ dict \in [Clients -> [Names \cup {NoName} -> Defs \cup {NoDef}]]
  BY DEF CInv, ChannelsOK, FieldsOK
<1>5. m \in Flight(replies)
  BY <1>1, <1>3, <1>4, HeadInFlight
<1>6. Changed(replies', replies, c, Tail(replies[c]))
  BY <1>3, <1>4 DEF Changed
<1>7. \A r \in Flight(replies') : r \in Flight(replies)
  <2>1. replies[c] # <<>> /\ replies \in [Clients -> Seq(Reply)]
    BY <1>3, <1>4
  <2> QED
    BY <1>6, <2>1, FlightTail
<1>8. objects' = objects /\ clean' = clean /\ requests' = requests
      /\ holders' = holders /\ tidy' = tidy
  BY <1>3 DEF vars, history
<1>9. ASSUME NEW e, NEW n, NEW id, NEW io
      PROVE  Stands(e, n, id, io)' <=> Stands(e, n, id, io)
  BY <1>8 DEF Stands
<1>10. ASSUME NEW e
       PROVE  (Quiet(e)' <=> Quiet(e)) /\ (NotFreeing(e)' <=> NotFreeing(e))
  BY <1>8 DEF Quiet, NotFreeing
<1>11. ASSUME NEW e, e # call.def PROVE Idle(e)' <=> Idle(e)
  BY <1>2, <1>11 DEF Idle, CallsOf
<1>12. ~Idle(call.def)
  BY DEF Idle, CallsOf
<1>13. ASSUME Tidy PROVE clean' /\ SoleHolder' /\ OneCall' /\ Ordered' /\ RepliesTrue'
  <2>1. clean' /\ SoleHolder'
    BY <1>8, <1>13 DEF Tidy, SoleHolder
  <2>2. OneCall'
    BY <1>2, <1>13 DEF Tidy, OneCall
  <2>3. Ordered'
    BY <1>8, <1>13 DEF Tidy, Ordered, OrderedIn, OwnedIn
  <2>4. RepliesTrue'
    BY <1>2, <1>7, <1>9, <1>10, <1>13 DEF Tidy, RepliesTrue
  <2> QED
    BY <2>1, <2>2, <2>3, <2>4
<1>14. CASE call.cmd = "list"
  <2>1. UNCHANGED <<defs, dict>>
    BY <1>2, <1>14 DEF Resume
  <2>2. DictOwned'
    BY <2>1 DEF TidyInv, DictOwned
  <2>3. ASSUME Tidy PROVE Tidy'
    <3>1. \A e \in Defs : e # call.def
      BY <1>14, <2>3 DEF Tidy, OneCall
    <3>2. NameHeld' /\ IdsTrue' /\ Entered'
      BY <1>8, <1>9, <1>11, <2>1, <2>3, <3>1 DEF Tidy, NameHeld, IdsTrue, Entered
    <3>3. FreesTrue'
      BY <1>8, <1>9, <2>1, <2>3 DEF Tidy, FreesTrue
    <3>4. Pending'
      BY <1>2, <1>8, <2>3, <3>1 DEF Tidy, Pending
    <3>5. DictHeld'
      BY <1>8, <1>10, <1>11, <2>1, <2>3, <3>1 DEF Tidy, DictHeld
    <3> QED
      BY <1>13, <2>3, <3>2, <3>3, <3>4, <3>5 DEF Tidy
  <2> QED
    BY <1>8, <2>2, <2>3 DEF TidyInv
<1>15. CASE call.cmd # "list"
  <2>1. PICK new \in JuliaDef, key \in Names \cup {NoName} :
            /\ defs' = [defs EXCEPT ![call.def] = new]
            /\ dict' = [dict EXCEPT ![Owner[call.def]][key] = call.def]
            /\ tidy /\ Tidy =>
                  /\ key # NoName => call.def \in holders[key]
                  /\ new.name # NoName => call.def \in holders[new.name]
                  /\ new.server_id # NoId =>
                        Stands(call.def, new.name, new.server_id, new.io)
                  /\ ~new.symbol /\ new.name # NoName => new.name = key
    BY <1>2, <1>5, <1>15, Resumed
  <2>2. PICK d \in Defs : d = call.def
    BY <1>15 DEF CInv, CallsOK, GoodCmd
  <2>3. /\ \A e \in Defs \ {d} : defs'[e] = defs[e]
        /\ defs'[d] = new
    BY <1>4, <2>1, <2>2
  <2>4. ASSUME NEW b \in Clients, NEW n \in Names \cup {NoName}
        PROVE  dict'[b][n] = IF b = Owner[d] /\ n = key THEN d ELSE dict[b][n]
    BY <1>4, <2>1, <2>2, OwnerAssumption
  <2>5. DictOwned'
    BY <2>4 DEF TidyInv, DictOwned
  <2>6. ASSUME tidy, Tidy PROVE Tidy'
    <3>1. Quiet(d)
      BY <1>2, <1>5, <2>2, <2>6 DEF Tidy, RepliesTrue
    <3>2. NameHeld'
      BY <1>8, <2>1, <2>2, <2>3, <2>6 DEF Tidy, NameHeld
    <3>3. IdsTrue'
      <4> SUFFICES ASSUME NEW e \in Defs, defs'[e].server_id # NoId, Idle(e)'
                   PROVE  Stands(e, defs[e].name, defs[e].server_id, defs[e].io)'
        BY DEF IdsTrue
      <4>1. CASE e = d
        BY <1>8, <2>1, <2>2, <2>3, <2>6, <4>1 DEF Stands
      <4>2. CASE e # d
        <5>1. Stands(e, defs[e].name, defs[e].server_id, defs[e].io) /\ defs'[e] = defs[e]
          BY <1>11, <2>2, <2>3, <2>6, <4>2 DEF Tidy, IdsTrue
        <5> QED
          BY <1>8, <5>1 DEF Stands
      <4> QED
        BY <4>1, <4>2
    <3>4. Entered'
      <4> SUFFICES ASSUME NEW e \in Defs, ~defs'[e].symbol, defs'[e].name # NoName
                   PROVE  dict'[Owner[e]][defs'[e].name] = e
        BY DEF Entered
      <4>1. CASE e = d
        BY <2>1, <2>2, <2>3, <2>4, <2>6, <4>1, OwnerAssumption
      <4>2. CASE e # d
        <5>1. /\ defs'[e] = defs[e] /\ defs[e].name \in Names /\ Owner[e] \in Clients
              /\ dict[Owner[e]][defs[e].name] = e /\ e \in holders[defs[e].name]
          BY <1>4, <2>3, <2>6, <4>2, OwnerAssumption DEF Tidy, Entered, NameHeld, JuliaDef
        <5>2. defs[e].name # key
          BY <2>1, <2>2, <2>6, <4>2, <5>1, NamesAssumption DEF Tidy, SoleHolder
        <5> QED
          BY <2>4, <5>1, <5>2
      <4> QED
        BY <4>1, <4>2
    <3>5. FreesTrue'
      <4> SUFFICES ASSUME NEW r \in Flight(requests), r.cmd = "free"
                   PROVE  /\ defs'[r.def] = BlankDef
                          /\ \E n \in Names, io \in IOShapes : Stands(r.def, n, r.id, io)'
        BY <1>8 DEF FreesTrue
      <4>1. /\ defs[r.def] = BlankDef
            /\ \E n \in Names, io \in IOShapes : Stands(r.def, n, r.id, io)
        BY <2>6 DEF Tidy, FreesTrue
      <4>2. r.def # call.def
        BY <2>2, <3>1 DEF Quiet
      <4>3. defs'[r.def] = defs[r.def]
        BY <1>4, <2>1, <4>2
      <4> QED
        BY <1>9, <4>1, <4>3
    <3>6. Pending'
      BY <1>2, <1>8, <2>2, <2>6, <3>1 DEF Tidy, Pending, Quiet
    <3>7. DictHeld'
      <4> SUFFICES ASSUME NEW b \in Clients, NEW n \in Names, NEW e \in Defs, dict'[b][n] = e
                   PROVE  (e \in holders[n] /\ NotFreeing(e)) \/ (defs'[e] = BlankDef /\ Idle(e)')
        BY <1>8, <1>10 DEF DictHeld
      <4>1. CASE b = Owner[d] /\ n = key
        <5>1. e = d /\ d \in holders[n]
          BY <2>1, <2>2, <2>4, <2>6, <4>1, NamesAssumption
        <5> QED
          BY <3>1, <5>1 DEF NotFreeing, Quiet
      <4>2. CASE ~(b = Owner[d] /\ n = key)
        <5>1. (e \in holders[n] /\ NotFreeing(e)) \/ (defs[e] = BlankDef /\ Idle(e))
          BY <2>4, <2>6, <4>2 DEF Tidy, DictHeld
        <5> QED
          BY <1>11, <1>12, <2>2, <2>3, <5>1
      <4> QED
        BY <4>1, <4>2
    <3> QED
      BY <1>13, <2>6, <3>2, <3>3, <3>4, <3>5, <3>6, <3>7 DEF Tidy
  <2> QED
    BY <1>8, <2>5, <2>6 DEF TidyInv
<1> QED
  BY <1>14, <1>15

LEMMA TidyStep == CInv /\ TidyInv /\ [ClientsNext]_allVars => TidyInv'
<1> SUFFICES ASSUME CInv, TidyInv, [ClientsNext]_allVars PROVE TidyInv'
  OBVIOUS
<1>1. ASSUME NEW d \in Defs
      PROVE  Owner[d] \in Clients /\ defs[d] \in JuliaDef /\ NoDef # d
  BY OwnerAssumption DEF CInv, FieldsOK
<1>2. BlankDef.name = NoName /\ BlankDef.path = FALSE
  BY DEF BlankDef
<1>3. ASSUME NEW d \in Defs, NewJuliaDef(d) PROVE TidyInv'
  <2>1. Call(Owner[d], d, "load", NoName)
    BY <1>3 DEF NewJuliaDef
  <2>2. defs[d] # BlankDef \/ \A n \in Names : dict[Owner[d]][n] # d
    BY <1>2, <1>3 DEF NewJuliaDef, Fresh
  <2> QED
    BY <1>1, <2>1, <2>2, TidyCall
<1>4. ASSUME NEW d \in Defs, NEW name \in Names, Retrieve(d, name) PROVE TidyInv'
  <2>1. Call(Owner[d], d, "by_name", name)
    BY <1>4 DEF Retrieve
  <2>2. \A n \in Names : dict[Owner[d]][n] # d
    BY <1>4 DEF Retrieve, Fresh
  <2> QED
    BY <1>1, <2>1, <2>2, TidyCall
<1>5. ASSUME NEW d \in Defs, Update(d) PROVE TidyInv'
  <2>1. defs[d].name \in Names /\ defs[d] # BlankDef /\ Call(Owner[d], d, "by_name", defs[d].name)
    BY <1>1, <1>2, <1>5 DEF Update, JuliaDef
  <2> QED
    BY <1>1, <2>1, TidyCall
<1>6. ASSUME NEW d \in Defs, FreeJuliaDef(d) PROVE TidyInv'
  BY <1>6, TidyFree
<1>7. ASSUME NEW c \in Clients, GetCompiledJuliaDefs(c) PROVE TidyInv'
  <2>1. Call(c, NoDef, "list", NoName)
    BY <1>7 DEF GetCompiledJuliaDefs
  <2> QED
    BY <1>7, <2>1, TidyCall, OwnerAssumption
<1>8. ASSUME NEW c \in Clients, Serve(c) PROVE TidyInv'
  BY <1>8, TidyServe
<1>9. ASSUME NEW c \in Clients, Answer(c) PROVE TidyInv'
  BY <1>9, TidyAnswer
<1>11. ASSUME NEW c \in Clients, Refuse(c) PROVE TidyInv'
  BY <1>11, TidyRefuse
<1>10. CASE UNCHANGED allVars
  <2>1. UNCHANGED <<objects, clean, defs, dict, calls, requests, replies, holders, tidy>>
    BY <1>10 DEF allVars, vars, client, wire, history
  <2>2. DictOwned'
    BY <2>1 DEF TidyInv, DictOwned
  <2>3. /\ Tidy => clean' /\ SoleHolder' /\ NameHeld' /\ IdsTrue' /\ Entered' /\ OneCall'
        /\ Tidy => FreesTrue' /\ Pending' /\ Ordered' /\ RepliesTrue' /\ DictHeld'
    BY <2>1 DEF Tidy, SoleHolder, NameHeld, IdsTrue, Entered, OneCall, FreesTrue, Pending,
                Ordered, OrderedIn, OwnedIn, RepliesTrue, DictHeld, Stands, Idle, CallsOf,
                Quiet, NotFreeing
  <2> QED
    BY <2>1, <2>2, <2>3 DEF TidyInv, Tidy
<1> QED
  BY <1>3, <1>4, <1>5, <1>6, <1>7, <1>8, <1>9, <1>10, <1>11 DEF ClientsNext

\* While each @object has one JuliaDef and each JuliaDef one call, a reply and
\* a free on their way are true of the table they come from or go to.
THEOREM TidyInvariance == ClientsSpec => []TidyInv
<1>1. ClientsInit => TidyInv
  BY TidyInit
<1>2. CInv /\ TidyInv /\ [ClientsNext]_allVars => TidyInv'
  BY TidyStep
<1> QED
  BY <1>1, <1>2, ClientsInvariance, PTL DEF ClientsSpec

\* So a JuliaDef with no call under way stands for the @object in its entry, and
\* no julia_free that JuliaDef.free sends is stale.
THEOREM TidyDefsAreTrue == ClientsSpec => []TidyDefsTrue
<1>1. TidyInv => TidyDefsTrue
  BY DEF TidyInv, Tidy, TidyDefsTrue, IdsTrue, Stands, Idle
<1> QED
  BY <1>1, TidyInvariance, PTL

\* What the dictionary has under the name of a JuliaDef: itself if it was
\* loaded, and in any case no other that has an entry.
LEMMA FoundByAr ==
  ASSUME CInv, TidyInv, tidy, NEW d \in Defs, defs[d].server_id # NoId, CallsOf(d) = {}
  PROVE  JuliaAr(d) \in {d, NoDef} /\ (~defs[d].symbol => JuliaAr(d) = d)
<1> DEFINE name == defs[d].name
           found == dict[Owner[d]][name]
<1>1. Tidy /\ defs[d] \in JuliaDef /\ Owner[d] \in Clients
      /\ dict \in [Clients -> [Names \cup {NoName} -> Defs \cup {NoDef}]]
  BY OwnerAssumption DEF TidyInv, CInv, FieldsOK
<1>2. Stands(d, name, defs[d].server_id, defs[d].io) /\ defs[d].server_id \in Entries
  BY <1>1 DEF Tidy, IdsTrue, Idle, JuliaDef
<1>3. name \in Names /\ name # NoName /\ d \in holders[name]
  <2>1. name \in Names /\ name # NoName
    BY <1>2, StandsIs DEF CInv, Inv
  <2>2. d \in holders[name]
    BY <1>2 DEF Stands
  <2> QED
    BY <2>1, <2>2
<1>4. found \in Defs \cup {NoDef}
  BY <1>1, <1>3
<1>5. found \in Defs => found = d \/ defs[found].server_id = NoId
  BY <1>1, <1>3 DEF Tidy, DictHeld, SoleHolder, BlankDef
<1>6. ~defs[d].symbol => found = d
  BY <1>1, <1>3 DEF Tidy, Entered
<1>7. found \in Defs <=> found # NoDef
  BY <1>4, OwnerAssumption
<1> QED
  BY <1>3, <1>5, <1>6, <1>7 DEF JuliaAr

\* And Julia.ar plays one that was loaded by its own name, whatever has been
\* loaded, freed and retrieved under it.
THEOREM TidyArIsOwn == ClientsSpec => []TidyArPlaysItsOwn
<1>1. CInv /\ TidyInv => TidyArPlaysItsOwn
  BY FoundByAr DEF TidyArPlaysItsOwn
<1> QED
  BY <1>1, ClientsInvariance, TidyInvariance, PTL

\* A retrieved one may be refused, but Julia.ar never plays another in its place.
THEOREM TidyArIsNoOther == ClientsSpec => []TidyArPlaysNoOther
<1>1. CInv /\ TidyInv => TidyArPlaysNoOther
  BY FoundByAr DEF TidyArPlaysNoOther
<1> QED
  BY <1>1, ClientsInvariance, TidyInvariance, PTL
=============================================================================

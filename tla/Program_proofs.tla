---------------------------- MODULE Program_proofs ----------------------------
(***************************************************************************)
(* Proofs about Program, for every session of processes, every input and   *)
(* every place where a process may be killed: what the reader makes of the *)
(* requests, when make_base returns, that it is only then that it touches  *)
(* its file, and that process_requests has the lines and the settings of   *)
(* that file.  A color is followed character by character through its name *)
(* and the words that are read of it.                                      *)
(***************************************************************************)
EXTENDS ProgramInvariant, TransportRouter_proofs, SequenceTheorems

-----------------------------------------------------------------------------
(* The reader. *)

\* Taken, which is recursive, takes the requests one after the other.
LEMMA TakenSteps ==
    ASSUME NEW list, NEW type
    PROVE  /\ Taken(list, type, 0) = << >>
           /\ \A n \in Nat : Taken(list, type, n + 1) =
                IF list[n + 1].type = type THEN Append(Taken(list, type, n), list[n + 1])
                ELSE Taken(list, type, n)
           /\ \A n \in Nat : Taken(list, type, n) \in Seq({list[i] : i \in Nat})
  <1> DEFINE T       == Seq({list[i] : i \in Nat})
             Turn(f) == [k \in Nat |-> IF k = 0 THEN << >>
                                       ELSE IF list[k].type = type THEN Append(f[k - 1], list[k])
                                       ELSE f[k - 1]]
  <1>1. \A n : Taken(list, type, n) = (CHOOSE f : f = Turn(f))[n]
    BY DEF Taken
  <1>2. \A k \in Nat : \A s \in T : Append(s, list[k]) \in T
    OBVIOUS
  <1>3. << >> \in T
    OBVIOUS
  <1> HIDE DEF T
  <1>4. PICK step \in Steps(T) :
          step = [k \in Nat |-> [s \in T |-> IF list[k].type = type THEN Append(s, list[k]) ELSE s]]
    BY <1>2 DEF Steps
  <1>5. PICK f \in [Nat -> T] : IsRun(f, << >>, step)
    BY <1>3, RunExists
  <1>6. f[0] = << >>
    BY <1>5 DEF IsRun
  <1>7. ASSUME NEW k \in Nat \ {0}
        PROVE  f[k] = IF list[k].type = type THEN Append(f[k - 1], list[k]) ELSE f[k - 1]
    <2>1. f[k] = step[k][f[k - 1]] /\ f[k - 1] \in T
      BY <1>5 DEF IsRun
    <2> QED
      BY <1>4, <2>1
  <1>8. f = Turn(f)
    BY <1>6, <1>7
  <1>9. PICK g : g = CHOOSE h : h = Turn(h)
    OBVIOUS
  <1>10. g = Turn(g)
    BY <1>8, <1>9
  <1>11. /\ g[0] = << >>
         /\ \A k \in Nat \ {0} :
              g[k] = IF list[k].type = type THEN Append(g[k - 1], list[k]) ELSE g[k - 1]
    BY <1>10
  <1>12. ASSUME NEW n \in Nat
         PROVE  g[n + 1] = IF list[n + 1].type = type THEN Append(g[n], list[n + 1]) ELSE g[n]
    <2>1. PICK k \in Nat \ {0} : k = n + 1 /\ k - 1 = n
      OBVIOUS
    <2> QED
      BY <1>11, <2>1
  <1>13. \A n \in Nat : g[n] \in T
    <2> DEFINE S == {n \in Nat : g[n] \in T}
    <2>1. 0 \in S
      BY <1>3, <1>11
    <2>2. ASSUME NEW n \in Nat, n \in S
          PROVE  n + 1 \in S
      <3>1. n + 1 \in Nat /\ g[n] \in T
        BY <2>2
      <3>2. Append(g[n], list[n + 1]) \in T
        BY <1>2, <3>1
      <3> QED
        BY <1>12, <3>1, <3>2
    <2> HIDE DEF S
    <2>3. \A n \in Nat : n \in S
      BY <2>1, <2>2, SetInduction
    <2> QED
      BY <2>3 DEF S
  <1>14. \A n : Taken(list, type, n) = g[n]
    BY <1>1, <1>9
  <1> QED
    BY <1>11, <1>12, <1>13, <1>14 DEF T

\* What is taken of the first n requests are those of the type.
LEMMA TakenAreOfType ==
    ASSUME NEW list, NEW type, NEW n \in Nat
    PROVE  Range(Taken(list, type, n)) = {list[i] : i \in {j \in 1 .. n : list[j].type = type}}
  <1> DEFINE Those(k) == {list[i] : i \in {j \in 1 .. k : list[j].type = type}}
             S         == {k \in Nat : Range(Taken(list, type, k)) = Those(k)}
  <1>1. 0 \in S
    BY TakenSteps DEF Range
  <1>2. ASSUME NEW k \in Nat, k \in S
        PROVE  k + 1 \in S
    <2>1. PICK s : s = Taken(list, type, k)
      OBVIOUS
    <2>2. s \in Seq({list[i] : i \in Nat}) /\ list[k + 1] \in {list[i] : i \in Nat}
      <3>1. k + 1 \in Nat
        OBVIOUS
      <3>2. list[k + 1] \in {list[i] : i \in Nat}
        BY <3>1
      <3> QED
        BY <2>1, <3>2, TakenSteps
    <2>3. Range(Append(s, list[k + 1])) = Range(s) \cup {list[k + 1]}
      BY <2>2, Appended
    <2>4. Range(s) = Those(k)
      BY <1>2, <2>1
    <2>5. Taken(list, type, k + 1) = IF list[k + 1].type = type THEN Append(s, list[k + 1]) ELSE s
      BY <2>1, TakenSteps
    <2>6. Those(k + 1) = IF list[k + 1].type = type THEN Those(k) \cup {list[k + 1]} ELSE Those(k)
      OBVIOUS
    <2> QED
      BY <2>3, <2>4, <2>5, <2>6
  <1> HIDE DEF S
  <1>3. \A k \in Nat : k \in S
    BY <1>1, <1>2, SetInduction
  <1> QED
    BY <1>3 DEF S

\* What has been read stays.
LEMMA InputKept ==
    ASSUME UNCHANGED requests
    PROVE  /\ \A key : HasKey(key)' <=> HasKey(key)
           /\ \A key : Listed(key)' = Listed(key)
           /\ \A key : KeyIsArray(key)' <=> KeyIsArray(key)
           /\ AllRequests' = AllRequests /\ Unknown' = Unknown
  <1>1. /\ \A key : HasKey(key)' <=> HasKey(key)
        /\ \A key : Listed(key)' = Listed(key)
    BY DEF HasKey, Listed
  <1>2. \A key : KeyIsArray(key)' <=> KeyIsArray(key)
    BY <1>1 DEF KeyIsArray, HasKey
  <1>3. AllRequests' = AllRequests
    BY DEF AllRequests, Listed, HasKey
  <1>4. Unknown' = Unknown
    BY <1>3 DEF Unknown
  <1> QED
    BY <1>1, <1>2, <1>3, <1>4

\* A reader that does nothing.
LEMMA ReaderKept == ReaderFollowsInput /\ UNCHANGED readerVars => ReaderFollowsInput'
  <1> SUFFICES ASSUME ReaderFollowsInput, UNCHANGED readerVars PROVE ReaderFollowsInput'
    OBVIOUS
  <1>1. UNCHANGED requests
    BY DEF readerVars
  <1>2. /\ buses' = buses /\ stops' = stops /\ stats' = stats /\ settings' = settings
        /\ parsing' = parsing /\ parsed' = parsed /\ raised' = raised /\ requests' = requests
    BY DEF readerVars
  <1>3. /\ \A key : HasKey(key)' <=> HasKey(key)
        /\ \A key : Listed(key)' = Listed(key)
        /\ \A key : KeyIsArray(key)' <=> KeyIsArray(key)
        /\ AllRequests' = AllRequests /\ Unknown' = Unknown
    BY <1>1, InputKept
  <1>4. InPass' = InPass /\ PassKey' = PassKey
    BY <1>2 DEF InPass, PassKey
  <1>5. RequestsAreSorted => RequestsAreSorted'
    <2>1. /\ Listed("base_requests")' = Listed("base_requests")
          /\ Listed("stat_requests")' = Listed("stat_requests")
      BY <1>1 DEF Listed, HasKey
    <2> QED
      BY <1>2, <1>3, <2>1 DEF RequestsAreSorted, HasKey
  <1>6. (ArraysAreSequences(requests) => ArraysAreSequences(requests)')
        /\ IsDict(requests)' = IsDict(requests)
    BY <1>2
  <1>7. /\ Listed("base_requests")' = Listed("base_requests")
        /\ Listed("stat_requests")' = Listed("stat_requests")
        /\ Listed(PassKey)' = Listed(PassKey)
    BY <1>1, <1>4 DEF Listed, HasKey
  <1>8. /\ KeyIsArray("base_requests")' = KeyIsArray("base_requests")
        /\ KeyIsArray("stat_requests")' = KeyIsArray("stat_requests")
    BY <1>1 DEF KeyIsArray, HasKey
  <1>9. {key \in SettingKeys : HasKey(key)}' = {key \in SettingKeys : HasKey(key)}
    BY <1>1 DEF HasKey
  <1> QED
    BY <1>2, <1>4, <1>5, <1>6, <1>7, <1>8, <1>9 DEF ReaderFollowsInput

\* A constructor that throws at what is wrong with the input.
LEMMA ReadingFails ==
    ASSUME UNCHANGED requests, ArraysAreSequences(requests), parsing' = "failed",
           ~WellFormed(requests),
           IsDict(requests) /\ (\A key \in {"base_requests", "stat_requests"} :
                                    HasKey(key) => IsArray(requests.dict[key])) =>
               (raised' = "unable to load request" <=>
                   /\ Unknown # {}
                   /\ HasType(AllRequests[Min(Unknown)]) /\ HasStringId(AllRequests[Min(Unknown)]))
    PROVE  ReaderFollowsInput'
  <1>1. /\ \A key : HasKey(key)' <=> HasKey(key)
        /\ AllRequests' = AllRequests /\ Unknown' = Unknown
    BY InputKept
  <1>2. RequestsAreSorted'
    BY <1>1 DEF RequestsAreSorted, HasKey
  <1>3. ArraysAreSequences(requests)'
    OBVIOUS
  <1> QED
    BY <1>2, <1>3 DEF ReaderFollowsInput, InPass

\* A reader that finds something else where an array should be throws for a reason.
LEMMA ArrayMissed == ReaderFollowsInput /\ NotAnArray => ReaderFollowsInput'
  <1> SUFFICES ASSUME ReaderFollowsInput, NotAnArray PROVE ReaderFollowsInput'
    OBVIOUS
  <1>1. /\ InPass /\ HasKey(PassKey) /\ ~IsArray(requests.dict[PassKey])
        /\ parsing' = "failed" /\ requests' = requests
    BY DEF NotAnArray, Throw
  <1>2. IsDict(requests) /\ ArraysAreSequences(requests) /\ PassKey \in {"base_requests", "stat_requests"}
    BY <1>1 DEF ReaderFollowsInput, InPass, PassKey
  <1>3. ~WellFormed(requests)
    BY <1>1, <1>2 DEF WellFormed, HasKey
  <1> QED
    BY <1>1, <1>2, <1>3, ReadingFails

\* The requests of a key are a sequence.
LEMMA ListsAreSequences ==
    ASSUME ArraysAreSequences(requests), IsDict(requests), NEW key \in {"base_requests", "stat_requests"}
    PROVE  /\ Listed(key) \in Seq(Range(Listed(key)))
           /\ Len(Listed(key)) \in Nat /\ DOMAIN Listed(key) = 1 .. Len(Listed(key))
           /\ HasKey(key) /\ IsArray(requests.dict[key]) => requests.dict[key].array = Listed(key)
  <1>1. CASE HasKey(key) /\ IsArray(requests.dict[key])
    <2>1. Listed(key) = requests.dict[key].array
      BY <1>1 DEF Listed
    <2>2. requests.dict[key].array \in Seq(Range(requests.dict[key].array))
      BY <1>1 DEF ArraysAreSequences, HasKey
    <2> QED
      BY <2>1, <2>2
  <1>2. CASE ~(HasKey(key) /\ IsArray(requests.dict[key]))
    <2>1. Listed(key) = << >>
      BY <1>2 DEF Listed
    <2> QED
      BY <1>2, <2>1
  <1> QED
    BY <1>1, <1>2

\* The requests of both keys, one after the other.
LEMMA AllRequestsAre ==
    ASSUME ArraysAreSequences(requests), IsDict(requests)
    PROVE  LET declared == Listed("base_requests")
               asked    == Listed("stat_requests")
           IN  /\ DOMAIN AllRequests = 1 .. Len(declared) + Len(asked)
               /\ \A i \in 1 .. Len(declared) : AllRequests[i] = declared[i]
               /\ \A i \in 1 .. Len(asked) : AllRequests[Len(declared) + i] = asked[i]
  <1> DEFINE declared == Listed("base_requests")
             asked    == Listed("stat_requests")
             S        == Range(declared) \cup Range(asked)
  <1>1. PICK d, a : d = declared /\ a = asked
    OBVIOUS
  <1>2. d \in Seq(Range(d)) /\ a \in Seq(Range(a))
    BY <1>1, ListsAreSequences
  <1>3. d \in Seq(Range(d) \cup Range(a)) /\ a \in Seq(Range(d) \cup Range(a))
    BY <1>2
  <1>4. /\ DOMAIN (d \o a) = 1 .. Len(d) + Len(a)
        /\ \A i \in 1 .. Len(d) : (d \o a)[i] = d[i]
        /\ \A i \in 1 .. Len(a) : (d \o a)[Len(d) + i] = a[i]
    BY <1>3
  <1> QED
    BY <1>1, <1>4 DEF AllRequests

\* The exception is about the first request of unknown type.
LEMMA UnknownFound == ReaderFollowsInput /\ UnknownRequest => ReaderFollowsInput'
  <1> SUFFICES ASSUME ReaderFollowsInput, UnknownRequest PROVE ReaderFollowsInput'
    OBVIOUS
  <1> DEFINE declared == Listed("base_requests")
             asked    == Listed("stat_requests")
             first    == IF parsing = "stats" THEN Len(declared) + parsed + 1 ELSE parsed + 1
  <1>1. /\ InPass /\ parsed < Len(Listed(PassKey)) /\ ~KnownType(Request)
        /\ parsing' = "failed" /\ requests' = requests
        /\ raised' = IF ~HasType(Request) \/ "id" \notin DOMAIN Request THEN "out_of_range"
                     ELSE IF IsString(Request.id) THEN "unable to load request"
                     ELSE "logic_error"
    BY DEF UnknownRequest, Taking, Throw
  <1>0. parsed < Len(Listed(PassKey))
    BY <1>1
  <1>2. IsDict(requests) /\ ArraysAreSequences(requests) /\ PassKey \in {"base_requests", "stat_requests"}
    BY <1>1 DEF ReaderFollowsInput, InPass, PassKey
  <1>3. /\ Len(declared) \in Nat /\ Len(asked) \in Nat
        /\ DOMAIN declared = 1 .. Len(declared) /\ DOMAIN asked = 1 .. Len(asked)
    BY <1>2, ListsAreSequences
  <1>4. parsed \in Nat
    <2>1. parsed \in 0 .. Len(Listed(PassKey))
      BY <1>1 DEF ReaderFollowsInput
    <2>2. Len(Listed(PassKey)) \in Nat
      BY <1>2, ListsAreSequences
    <2> QED
      BY <2>1, <2>2
  <1>5. parsing # "Stop"
    <2> SUFFICES ASSUME parsing = "Stop" PROVE FALSE
      OBVIOUS
    <2>1. AllKnown(declared, Len(declared))
      BY DEF ReaderFollowsInput
    <2>2. PassKey = "base_requests"
      BY DEF PassKey
    <2>3. Request = declared[parsed + 1] /\ parsed + 1 \in 1 .. Len(declared)
      BY <1>0, <1>3, <1>4, <2>2 DEF Request
    <2> QED
      BY <1>1, <2>1, <2>3 DEF AllKnown
  <1>6. /\ first \in DOMAIN AllRequests /\ AllRequests[first] = Request
        /\ \A i \in 1 .. first - 1 : KnownType(AllRequests[i])
    <2>1. /\ DOMAIN AllRequests = 1 .. Len(declared) + Len(asked)
          /\ \A i \in 1 .. Len(declared) : AllRequests[i] = declared[i]
          /\ \A i \in 1 .. Len(asked) : AllRequests[Len(declared) + i] = asked[i]
      BY <1>2, AllRequestsAre
    <2>2. CASE parsing = "Bus"
      <3>1. AllKnown(declared, parsed)
        BY <2>2 DEF ReaderFollowsInput
      <3>2. PassKey = "base_requests"
        BY <2>2 DEF PassKey
      <3>3. Request = declared[parsed + 1] /\ parsed + 1 \in 1 .. Len(declared)
        BY <1>0, <1>3, <1>4, <3>2 DEF Request
      <3> QED
        BY <1>3, <1>4, <2>1, <2>2, <3>1, <3>3 DEF AllKnown
    <2>3. CASE parsing = "stats"
      <3>1. /\ Request = asked[parsed + 1] /\ parsed + 1 \in 1 .. Len(asked)
            /\ AllKnown(asked, parsed) /\ AllKnown(declared, Len(declared))
        <4>1. AllKnown(asked, parsed) /\ AllKnown(declared, Len(declared))
          BY <2>3 DEF ReaderFollowsInput
        <4>2. PassKey = "stat_requests"
          BY <2>3 DEF PassKey
        <4> QED
          BY <1>0, <1>3, <1>4, <4>1, <4>2 DEF Request
      <3>2. first \in DOMAIN AllRequests /\ AllRequests[first] = Request
        <4>1. first = Len(declared) + (parsed + 1)
          BY <1>3, <1>4, <2>3
        <4> QED
          BY <1>3, <1>4, <2>1, <3>1, <4>1
      <3>3. ASSUME NEW i \in 1 .. first - 1
            PROVE  KnownType(AllRequests[i])
        <4>1. CASE i \in 1 .. Len(declared)
          BY <2>1, <3>1, <4>1 DEF AllKnown
        <4>2. CASE i \notin 1 .. Len(declared)
          <5>1. PICK j \in 1 .. parsed : i = Len(declared) + j
            BY <1>3, <1>4, <2>3, <4>2
          <5> QED
            BY <1>3, <1>4, <2>1, <3>1, <5>1 DEF AllKnown
        <4> QED
          BY <4>1, <4>2
      <3> QED
        BY <3>2, <3>3
    <2> QED
      BY <1>1, <1>5, <2>2, <2>3 DEF InPass
  <1>7. first \in Unknown /\ \A i \in Unknown : first <= i
    <2>1. DOMAIN AllRequests = 1 .. Len(declared) + Len(asked) /\ first \in Int
      BY <1>2, <1>3, <1>4, AllRequestsAre
    <2>2. first \in Unknown
      BY <1>1, <1>6 DEF Unknown
    <2>3. ASSUME NEW i \in Unknown
          PROVE  first <= i
      <3>1. i \in 1 .. Len(declared) + Len(asked) /\ ~KnownType(AllRequests[i])
        BY <2>1 DEF Unknown
      <3>2. i \notin 1 .. first - 1
        BY <1>6, <3>1
      <3> QED
        BY <1>3, <2>1, <3>1, <3>2
    <2> QED
      BY <2>2, <2>3
  <1>8. Min(Unknown) = first
    <2>1. first \in Int /\ \A i \in Unknown : i \in Int
      BY <1>2, <1>3, <1>4, AllRequestsAre DEF Unknown
    <2> QED
      BY <1>7, <2>1, MinIsLeast
  <1>9. ~WellFormed(requests)
    <2>1. Request \in Range(Listed(PassKey))
      <3>1. DOMAIN Listed(PassKey) = 1 .. Len(Listed(PassKey)) /\ Len(Listed(PassKey)) \in Nat
        BY <1>2, ListsAreSequences
      <3>2. parsed + 1 \in DOMAIN Listed(PassKey)
        BY <1>0, <1>4, <3>1
      <3> QED
        BY <3>2 DEF Request, Range
    <2>2. Listed(PassKey) # << >>
      <3> SUFFICES ASSUME Listed(PassKey) = << >> PROVE FALSE
        OBVIOUS
      <3>1. Len(Listed(PassKey)) = 0
        OBVIOUS
      <3> QED
        BY <1>0, <1>4, <3>1
    <2>3. HasKey(PassKey) /\ IsArray(requests.dict[PassKey]) /\ Listed(PassKey) = requests.dict[PassKey].array
      BY <2>2 DEF Listed
    <2> QED
      BY <1>1, <1>2, <2>1, <2>3 DEF WellFormed, HasKey
  <1>10. raised' = "unable to load request" <=>
            HasType(AllRequests[Min(Unknown)]) /\ HasStringId(AllRequests[Min(Unknown)])
    BY <1>1, <1>6, <1>8 DEF HasStringId
  <1> QED
    BY <1>1, <1>2, <1>7, <1>9, <1>10, ReadingFails

\* The parts of the invariant of the reader, over an input that stays.
LEMMA ReadingGoesOn ==
    ASSUME ReaderFollowsInput, requests' = requests,
           parsing \notin {"waiting", "failed"}, parsing' \notin {"waiting", "failed"},
           raised' = raised
    PROVE  /\ ArraysAreSequences(requests)' /\ IsDict(requests)' /\ raised' = "nothing"
           /\ IsDict(requests) /\ ArraysAreSequences(requests)
           /\ Listed("base_requests")' = Listed("base_requests")
           /\ Listed("stat_requests")' = Listed("stat_requests")
           /\ KeyIsArray("base_requests")' = KeyIsArray("base_requests")
           /\ KeyIsArray("stat_requests")' = KeyIsArray("stat_requests")
           /\ \A key \in {"base_requests", "stat_requests"} :
                /\ Len(Listed(key)) \in Nat /\ DOMAIN Listed(key) = 1 .. Len(Listed(key))
                /\ Listed(key) \in Seq(Range(Listed(key)))
  <1>1. IsDict(requests) /\ ArraysAreSequences(requests) /\ raised = "nothing"
    BY DEF ReaderFollowsInput
  <1>2. /\ Listed("base_requests")' = Listed("base_requests")
        /\ Listed("stat_requests")' = Listed("stat_requests")
    BY DEF Listed, HasKey
  <1>3. /\ KeyIsArray("base_requests")' = KeyIsArray("base_requests")
        /\ KeyIsArray("stat_requests")' = KeyIsArray("stat_requests")
    BY DEF KeyIsArray, HasKey
  <1> QED
    BY <1>1, <1>2, <1>3, ListsAreSequences

\* A pass takes a base request if it is of its type.
LEMMA BaseParsed == ReaderFollowsInput /\ ParseBase => ReaderFollowsInput'
  <1> SUFFICES ASSUME ReaderFollowsInput, ParseBase PROVE ReaderFollowsInput'
    OBVIOUS
  <1> DEFINE declared == Listed("base_requests")
  <1>1. /\ parsing \in {"Bus", "Stop"} /\ parsed < Len(Listed(PassKey)) /\ KnownType(Request)
        /\ requests' = requests /\ stats' = stats /\ parsing' = parsing /\ raised' = raised
        /\ parsed' = parsed + 1
        /\ buses' = IF parsing = "Bus" /\ Request.type = "Bus" THEN Append(buses, Request) ELSE buses
        /\ stops' = IF parsing = "Stop" /\ Request.type = "Stop" THEN Append(stops, Request) ELSE stops
    BY DEF ParseBase, Taking, InPass
  <1>2. /\ ArraysAreSequences(requests)' /\ IsDict(requests)' /\ raised' = "nothing"
        /\ Listed("base_requests")' = declared
        /\ KeyIsArray("base_requests")' = KeyIsArray("base_requests")
        /\ Len(declared) \in Nat
    BY <1>1, ReadingGoesOn
  <1>3. /\ PassKey = "base_requests" /\ PassKey' = "base_requests" /\ InPass
        /\ Request = declared[parsed + 1]
    BY <1>1 DEF PassKey, InPass, Request
  <1>4. parsed \in 0 .. Len(declared) /\ stats = << >>
    BY <1>1, <1>3 DEF ReaderFollowsInput
  <1>5. parsed \in Nat /\ parsed' \in 0 .. Len(declared) /\ parsed + 1 \in 1 .. Len(declared)
    BY <1>1, <1>2, <1>3, <1>4
  <1>6. \A type : Taken(declared, type, parsed + 1) =
            IF Request.type = type THEN Append(Taken(declared, type, parsed), Request)
            ELSE Taken(declared, type, parsed)
    BY <1>3, <1>5, TakenSteps
  <1>7. CASE parsing = "Bus"
    <2>1. AllKnown(declared, parsed) /\ buses = Taken(declared, "Bus", parsed) /\ stops = << >>
      BY <1>7 DEF ReaderFollowsInput
    <2>2. AllKnown(declared, parsed + 1)
      BY <1>1, <1>3, <1>5, <2>1 DEF AllKnown
    <2>3. buses' = Taken(declared, "Bus", parsed + 1) /\ stops' = << >>
      BY <1>1, <1>6, <1>7, <2>1
    <2> QED
      BY <1>1, <1>2, <1>3, <1>4, <1>5, <1>7, <2>2, <2>3 DEF ReaderFollowsInput
  <1>8. CASE parsing = "Stop"
    <2>1. /\ KeyIsArray("base_requests") /\ AllKnown(declared, Len(declared))
          /\ buses = OfType(declared, "Bus") /\ stops = Taken(declared, "Stop", parsed)
      BY <1>8 DEF ReaderFollowsInput
    <2>2. stops' = Taken(declared, "Stop", parsed + 1) /\ buses' = buses
      BY <1>1, <1>6, <1>8, <2>1
    <2> QED
      BY <1>1, <1>2, <1>3, <1>4, <1>5, <1>8, <2>1, <2>2 DEF ReaderFollowsInput
  <1> QED
    BY <1>1, <1>7, <1>8

\* A turn of the loop over stat_requests.
LEMMA StatParsed == ReaderFollowsInput /\ ParseStat => ReaderFollowsInput'
  <1> SUFFICES ASSUME ReaderFollowsInput, ParseStat PROVE ReaderFollowsInput'
    OBVIOUS
  <1> DEFINE declared == Listed("base_requests")
             asked    == Listed("stat_requests")
  <1>1. /\ parsing = "stats" /\ parsed < Len(Listed(PassKey)) /\ KnownType(Request)
        /\ requests' = requests /\ buses' = buses /\ stops' = stops /\ parsing' = parsing
        /\ raised' = raised /\ parsed' = parsed + 1 /\ stats' = Append(stats, Request)
    BY DEF ParseStat, Taking
  <1>2. /\ ArraysAreSequences(requests)' /\ IsDict(requests)' /\ raised' = "nothing"
        /\ Listed("base_requests")' = declared /\ Listed("stat_requests")' = asked
        /\ KeyIsArray("base_requests")' = KeyIsArray("base_requests")
        /\ Len(asked) \in Nat /\ DOMAIN asked = 1 .. Len(asked)
    BY <1>1, ReadingGoesOn
  <1>3. /\ PassKey = "stat_requests" /\ PassKey' = "stat_requests" /\ InPass
        /\ Request = asked[parsed + 1]
    BY <1>1 DEF PassKey, InPass, Request
  <1>4. /\ parsed \in 0 .. Len(asked) /\ AllKnown(asked, parsed)
        /\ stats \in Seq(Range(asked)) /\ Len(stats) = parsed
        /\ \A i \in 1 .. parsed : stats[i] = asked[i]
    BY <1>1, <1>3 DEF ReaderFollowsInput
  <1>5. parsed \in Nat /\ parsed' \in 0 .. Len(asked) /\ parsed + 1 \in 1 .. Len(asked)
    BY <1>1, <1>2, <1>3, <1>4
  <1>6. AllKnown(asked, parsed + 1)
    BY <1>1, <1>3, <1>4, <1>5 DEF AllKnown
  <1>7. Request \in Range(asked)
    BY <1>2, <1>3, <1>5 DEF Range
  <1>8. /\ stats' \in Seq(Range(asked)) /\ Len(stats') = parsed + 1
        /\ \A i \in 1 .. parsed + 1 : stats'[i] = asked[i]
    <2> HIDE DEF asked
    <2>1. Append(stats, Request) \in Seq(Range(asked)) /\ Len(Append(stats, Request)) = Len(stats) + 1
      BY <1>4, <1>7
    <2>2. \A i \in 1 .. parsed : Append(stats, Request)[i] = stats[i]
      BY <1>4, <1>7
    <2>3. Append(stats, Request)[parsed + 1] = Request
      BY <1>4, <1>7
    <2> QED
      BY <1>1, <1>3, <1>4, <1>5, <2>1, <2>2, <2>3
  <1>9. /\ KeyIsArray("base_requests") /\ AllKnown(declared, Len(declared))
        /\ buses = OfType(declared, "Bus") /\ stops = Taken(declared, "Stop", Len(declared))
    BY <1>1 DEF ReaderFollowsInput
  <1> QED
    BY <1>1, <1>2, <1>3, <1>5, <1>6, <1>8, <1>9 DEF ReaderFollowsInput

\* A pass that has taken all of its requests.
LEMMA PassEnds == ReaderFollowsInput /\ NextPass => ReaderFollowsInput'
  <1> SUFFICES ASSUME ReaderFollowsInput, NextPass PROVE ReaderFollowsInput'
    OBVIOUS
  <1> DEFINE declared == Listed("base_requests")
             asked    == Listed("stat_requests")
  <1>1. /\ InPass /\ ~(parsed < Len(Listed(PassKey))) /\ KeyIsArray(PassKey)
        /\ parsing \in {"Bus", "Stop", "stats"} /\ parsed' = 0
        /\ parsing = "Bus" => parsing' = "Stop"
        /\ parsing = "Stop" => parsing' = "stats"
        /\ parsing = "stats" => parsing' = "settings"
        /\ requests' = requests /\ buses' = buses /\ stops' = stops /\ stats' = stats
        /\ raised' = raised
    BY DEF NextPass, InPass, Taking, KeyIsArray
  <1>2. /\ ArraysAreSequences(requests)' /\ IsDict(requests)' /\ raised' = "nothing"
        /\ Listed("base_requests")' = declared /\ Listed("stat_requests")' = asked
        /\ KeyIsArray("base_requests")' = KeyIsArray("base_requests")
        /\ KeyIsArray("stat_requests")' = KeyIsArray("stat_requests")
        /\ Len(declared) \in Nat /\ Len(asked) \in Nat
        /\ asked \in Seq(Range(asked)) /\ DOMAIN asked = 1 .. Len(asked)
    BY <1>1, ReadingGoesOn
  <1>3. parsed = Len(Listed(PassKey)) /\ 0 \in 0 .. Len(declared) /\ 0 \in 0 .. Len(asked)
    BY <1>1, <1>2 DEF ReaderFollowsInput, PassKey
  <1>4. CASE parsing = "Bus"
    <2>1. /\ AllKnown(declared, Len(declared)) /\ buses = OfType(declared, "Bus")
          /\ KeyIsArray("base_requests") /\ stops = << >> /\ stats = << >>
      BY <1>1, <1>3, <1>4 DEF ReaderFollowsInput, PassKey, OfType
    <2>2. stops = Taken(declared, "Stop", 0)
      BY <2>1, TakenSteps
    <2>3. InPass' /\ PassKey' = "base_requests"
      BY <1>1, <1>4 DEF InPass, PassKey
    <2> QED
      BY <1>1, <1>2, <1>3, <1>4, <2>1, <2>2, <2>3 DEF ReaderFollowsInput
  <1>5. CASE parsing = "Stop"
    <2>1. /\ KeyIsArray("base_requests") /\ AllKnown(declared, Len(declared))
          /\ buses = OfType(declared, "Bus") /\ stops = Taken(declared, "Stop", Len(declared))
          /\ stats = << >>
      BY <1>1, <1>3, <1>5 DEF ReaderFollowsInput, PassKey
    <2>2. InPass' /\ PassKey' = "stat_requests"
      BY <1>1, <1>5 DEF InPass, PassKey
    <2>3. AllKnown(asked, 0) /\ << >> \in Seq(Range(asked)) /\ Len(<< >>) = 0
      BY DEF AllKnown
    <2> QED
      BY <1>1, <1>2, <1>3, <1>5, <2>1, <2>2, <2>3 DEF ReaderFollowsInput
  <1>6. CASE parsing = "stats"
    <2>1. /\ KeyIsArray("base_requests") /\ AllKnown(declared, Len(declared))
          /\ buses = OfType(declared, "Bus") /\ stops = Taken(declared, "Stop", Len(declared))
          /\ parsed = Len(asked) /\ AllKnown(asked, parsed) /\ KeyIsArray("stat_requests")
          /\ stats \in Seq(Range(asked)) /\ Len(stats) = parsed
          /\ \A i \in 1 .. parsed : stats[i] = asked[i]
      BY <1>1, <1>3, <1>6 DEF ReaderFollowsInput, PassKey
    <2>2. stats = asked
      <3> HIDE DEF asked
      <3> QED
        BY <1>2, <2>1
    <2>3. ~InPass'
      BY <1>1, <1>6 DEF InPass
    <2> QED
      BY <1>1, <1>2, <1>6, <2>1, <2>2, <2>3 DEF ReaderFollowsInput
  <1> QED
    BY <1>1, <1>4, <1>5, <1>6

\* What the passes have seen to be requests.
LEMMA RequestsAreKnown ==
    ASSUME ReaderFollowsInput, parsing \in {"settings", "done"}
    PROVE  /\ IsDict(requests) /\ ArraysAreSequences(requests)
           /\ \A key \in {"base_requests", "stat_requests"} \cap DOMAIN requests.dict :
                /\ IsArray(requests.dict[key])
                /\ \A request \in Range(requests.dict[key].array) : KnownType(request)
           /\ Unknown = {}
  <1> DEFINE declared == Listed("base_requests")
             asked    == Listed("stat_requests")
  <1>1. /\ IsDict(requests) /\ ArraysAreSequences(requests)
        /\ \A key \in {"base_requests", "stat_requests"} : KeyIsArray(key)
        /\ AllKnown(declared, Len(declared)) /\ AllKnown(asked, Len(asked))
    BY DEF ReaderFollowsInput
  <1>2. \A key \in {"base_requests", "stat_requests"} :
            /\ Len(Listed(key)) \in Nat /\ DOMAIN Listed(key) = 1 .. Len(Listed(key))
            /\ AllKnown(Listed(key), Len(Listed(key)))
            /\ HasKey(key) => IsArray(requests.dict[key]) /\ Listed(key) = requests.dict[key].array
    BY <1>1, ListsAreSequences DEF KeyIsArray
  <1>3. ASSUME NEW key \in {"base_requests", "stat_requests"} \cap DOMAIN requests.dict,
               NEW request \in Range(requests.dict[key].array)
        PROVE  KnownType(request)
    <2>1. HasKey(key) /\ request \in Range(Listed(key))
      BY <1>2 DEF HasKey
    <2>2. PICK i \in 1 .. Len(Listed(key)) : request = Listed(key)[i]
      BY <1>2, <2>1 DEF Range
    <2> QED
      BY <1>2, <2>2 DEF AllKnown
  <1>4. \A i \in DOMAIN AllRequests : KnownType(AllRequests[i])
    <2>1. TAKE i \in DOMAIN AllRequests
    <2>2. /\ DOMAIN AllRequests = 1 .. Len(declared) + Len(asked)
          /\ \A k \in 1 .. Len(declared) : AllRequests[k] = declared[k]
          /\ \A k \in 1 .. Len(asked) : AllRequests[Len(declared) + k] = asked[k]
      BY <1>1, AllRequestsAre
    <2>3. CASE i \in 1 .. Len(declared)
      BY <1>1, <2>2, <2>3 DEF AllKnown
    <2>4. CASE i \notin 1 .. Len(declared)
      <3>1. PICK k \in 1 .. Len(asked) : i = Len(declared) + k
        <4>1. i - Len(declared) \in 1 .. Len(asked) /\ i = Len(declared) + (i - Len(declared))
          BY <1>2, <2>2, <2>4
        <4> QED
          BY <4>1
      <3> QED
        BY <1>1, <2>2, <3>1 DEF AllKnown
    <2> QED
      BY <2>3, <2>4
  <1> QED
    BY <1>1, <1>2, <1>3, <1>4 DEF Unknown, HasKey

\* The settings are there, or one of them is no dictionary.
LEMMA SettingsParsed == ReaderFollowsInput /\ ParseSettings => ReaderFollowsInput'
  <1> SUFFICES ASSUME ReaderFollowsInput, ParseSettings PROVE ReaderFollowsInput'
    OBVIOUS
  <1> DEFINE present == {key \in SettingKeys : HasKey(key)}
  <1>1. parsing = "settings"
    BY DEF ParseSettings
  <1>2. CASE \E key \in present : ~IsDict(requests.dict[key])
    <2>1. Throw("logic_error")
      BY <1>2 DEF ParseSettings
    <2>2. requests' = requests /\ parsing' = "failed" /\ raised' = "logic_error"
      BY <2>1 DEF Throw
    <2>3. ~WellFormed(requests)
      BY <1>2 DEF WellFormed, HasKey
    <2>4. ArraysAreSequences(requests) /\ Unknown = {}
      BY <1>1, RequestsAreKnown
    <2> QED
      BY <2>2, <2>3, <2>4, ReadingFails
  <1>3. CASE ~ \E key \in present : ~IsDict(requests.dict[key])
    <2>1. /\ settings' = [key \in present |-> requests.dict[key].dict]
          /\ parsing' = "done" /\ requests' = requests /\ buses' = buses /\ stops' = stops
          /\ stats' = stats /\ parsed' = parsed /\ raised' = raised
      BY <1>3 DEF ParseSettings
    <2>2. /\ ArraysAreSequences(requests)' /\ IsDict(requests)' /\ raised' = "nothing"
          /\ Listed("base_requests")' = Listed("base_requests")
          /\ Listed("stat_requests")' = Listed("stat_requests")
          /\ KeyIsArray("base_requests")' = KeyIsArray("base_requests")
          /\ KeyIsArray("stat_requests")' = KeyIsArray("stat_requests")
      BY <1>1, <2>1, ReadingGoesOn
    <2>3. present' = present
      BY <2>1 DEF HasKey
    <2>4. /\ \A key \in present : IsDict(requests.dict[key])'
          /\ settings' = [key \in present |-> requests.dict[key].dict]'
      BY <1>3, <2>1, <2>3
    <2> QED
      BY <1>1, <2>1, <2>2, <2>3, <2>4 DEF ReaderFollowsInput, InPass
  <1> QED
    BY <1>2, <1>3

\* Every step of the constructor of JsonReader preserves what it has made of the input.
LEMMA ReaderStep == ReaderFollowsInput /\ ReaderNext => ReaderFollowsInput'
  BY ArrayMissed, UnknownFound, BaseParsed, StatParsed, PassEnds, SettingsParsed DEF ReaderNext

\* The lists of a constructor that has returned are those of their types, and one
\* that has thrown has done so for a reason.
LEMMA ReadingIsSorted == ReaderFollowsInput => RequestsAreSorted
  <1> SUFFICES ASSUME ReaderFollowsInput, parsing = "done" PROVE RequestsAreSorted
    BY DEF ReaderFollowsInput, RequestsAreSorted
  <1> DEFINE present == {key \in SettingKeys : HasKey(key)}
  <1>1. /\ buses = OfType(Listed("base_requests"), "Bus")
        /\ stops = OfType(Listed("base_requests"), "Stop")
        /\ stats = Listed("stat_requests")
        /\ \A key \in present : IsDict(requests.dict[key])
        /\ DOMAIN settings = present
    BY DEF ReaderFollowsInput, OfType
  <1>2. WellFormed(requests)
    BY <1>1, RequestsAreKnown DEF WellFormed, HasKey
  <1> QED
    BY <1>1, <1>2 DEF RequestsAreSorted

-----------------------------------------------------------------------------
(* The requests that Populate and the router fail for. *)

\* The catalogue of a process that begins to populate it, or leaves it empty.
LEMMA CatalogueBegins ==
    ASSUME IsBase(base)', Forgotten, UNCHANGED <<db, index, undeclared, routerVars>>,
           stage' = "stops" \/ (stage' = "populated" /\ base' = EmptyBase)
    PROVE  RouterInvariant'
  <1>1. /\ db' = EmptyCatalogue /\ index' = 1 /\ undeclared' = {}
        /\ building' = "waiting" /\ pending' = {} /\ stop_to_transfer' = << >>
        /\ graph' = EmptyGraph(0) /\ id_to_edge' = << >> /\ edges' = << >> /\ answer' = Null
    BY DEF Forgotten, routerVars
  <1>2. base' = EmptyBase => Len(base'.stops) = 0 /\ Len(base'.buses) = 0
    BY DEF EmptyBase
  <1>3. PopulateTypeOK'
    BY <1>1, PopulateAssumption DEF PopulateTypeOK, EmptyCatalogue, StopPtrs, BusPtrs, GetStopsHolder, GetBusesHolder
  <1>4. LoopsFollowRequests'
    BY <1>1 DEF LoopsFollowRequests, IsBase
  <1>5. StopsFollowRequests'
    BY <1>1, <1>2 DEF StopsFollowRequests, EmptyCatalogue, StopPtrs
  <1>6. NamesLeadToLastStops' /\ NamesLeadToLastBuses'
    BY <1>1 DEF NamesLeadToLastStops, NamesLeadToLastBuses, EmptyCatalogue, StopPtrs, BusPtrs
  <1>7. BusesFollowRequests' /\ BusesUseNamedStops'
    BY <1>1, <1>2 DEF BusesFollowRequests, BusesUseNamedStops, EmptyCatalogue, BusPtrs
  <1>8. ListsFollowBuses'
    BY <1>1 DEF ListsFollowBuses, EmptyCatalogue, StopPtrs, BusPtrs
  <1>9. GetStopsHolder(db') = {} /\ GetBusesHolder(db') = {} /\ DOMAIN db' = DOMAIN EmptyCatalogue
        /\ db'.stops = << >> /\ db'.stops_to_distance = EmptyCatalogue.stops_to_distance
    BY <1>1 DEF EmptyCatalogue, GetStopsHolder, GetBusesHolder
  <1>10. DistancesFollowRequests'
    BY <1>9 DEF DistancesFollowRequests
  <1>11. PopulateInvariant'
    BY <1>3, <1>4, <1>5, <1>6, <1>7, <1>8, <1>9, <1>10 DEF PopulateInvariant
  <1>12. LoopsFollowCatalogue'
    <2>1. stop_to_transfer' = [ptr \in {} |-> 0]
      BY <1>1
    <2> QED
      BY <1>1, <2>1 DEF LoopsFollowCatalogue, EmptyGraph, Vertices
  <1>13. TransfersFollowStops'
    BY <1>1 DEF TransfersFollowStops
  <1>14. ItemsFollowEdges' /\ WaitsFollowStops'
    BY <1>1 DEF ItemsFollowEdges, WaitsFollowStops, EmptyGraph
  <1>15. CollectedFollowsLines' /\ RidesAreFastest'
    BY <1>1 DEF CollectedFollowsLines, RidesAreFastest
  <1> QED
    BY <1>11, <1>12, <1>13, <1>14, <1>15 DEF RouterInvariant

\* The requests of a type, in the list that the reader makes of them.
LEMMA RequestsOfType ==
    ASSUME ReaderFollowsInput, parsing = "done", NEW type
    PROVE  LET list == OfType(Listed("base_requests"), type)
           IN  /\ Range(list) = BaseRequests(type)
               /\ Len(list) \in Nat /\ DOMAIN list = 1 .. Len(list)
  <1> DEFINE declared == Listed("base_requests")
  <1>1. /\ declared \in Seq(Range(declared)) /\ Len(declared) \in Nat
        /\ DOMAIN declared = 1 .. Len(declared)
    BY ListsAreSequences DEF ReaderFollowsInput
  <1>2. PICK n \in Nat : n = Len(declared)
    BY <1>1
  <1>7. PICK list : list = OfType(declared, type)
    OBVIOUS
  <1>3. list = Taken(declared, type, n)
    BY <1>2, <1>7 DEF OfType
  <1>4. Range(list) = {declared[i] : i \in {j \in 1 .. n : declared[j].type = type}}
    BY <1>3, TakenAreOfType
  <1>5. list \in Seq({declared[i] : i \in Nat})
    BY <1>3, TakenSteps
  <1>6. BaseRequests(type) = {declared[i] : i \in {j \in 1 .. n : declared[j].type = type}}
    BY <1>1, <1>2 DEF BaseRequests, Range
  <1> QED
    BY <1>2, <1>7, <1>4, <1>5, <1>6

\* What the reader has listed is a base.
LEMMA ListedBase ==
    ASSUME ReaderFollowsInput, parsing = "done", DeclaresBase(requests)
    PROVE  /\ IsBase([stops |-> stops, buses |-> buses])
           /\ Range(stops) = BaseRequests("Stop") /\ Range(buses) = BaseRequests("Bus")
  <1> DEFINE declared == Listed("base_requests")
  <1>1. stops = OfType(declared, "Stop") /\ buses = OfType(declared, "Bus") /\ KeyIsArray("base_requests")
        /\ IsDict(requests)
    BY DEF ReaderFollowsInput, OfType
  <1>2. /\ Range(stops) = BaseRequests("Stop") /\ Range(buses) = BaseRequests("Bus")
        /\ Len(stops) \in Nat /\ DOMAIN stops = 1 .. Len(stops)
        /\ Len(buses) \in Nat /\ DOMAIN buses = 1 .. Len(buses)
    BY <1>1, RequestsOfType
  <1>3. ASSUME NEW request \in Range(declared)
        PROVE  /\ KnownType(request)
               /\ request.type = "Stop" => IsStopRequest(request)
               /\ request.type = "Bus" => IsBusRequest(request)
    <2>1. declared # << >>
      BY <1>3 DEF Range
    <2>2. HasKey("base_requests") /\ IsArray(requests.dict["base_requests"])
          /\ declared = requests.dict["base_requests"].array
      BY <2>1 DEF Listed
    <2>3. KnownType(request)
      BY <1>3, <2>2, RequestsAreKnown DEF HasKey
    <2> QED
      BY <1>1, <1>3, <2>2, <2>3 DEF DeclaresBase, HasKey
  <1>4. \A i \in DOMAIN stops : IsStopRequest(stops[i])
    BY <1>2, <1>3 DEF BaseRequests, Range
  <1>5. \A i \in DOMAIN buses : IsBusRequest(buses[i])
    BY <1>2, <1>3 DEF BaseRequests, Range
  <1> QED
    BY <1>2, <1>4, <1>5 DEF IsBase

\* A name leads to a stop if and only if a request declares it.
LEMMA NamesAreDeclared ==
    ASSUME PopulateInvariant, stage # "stops", NEW name \in StopName
    PROVE  SearchStop(db, name) # Null <=> \E stop \in Range(base.stops) : stop.name = name
  <1>1. SearchStop(db, name) = db.stop_names[name]
    BY SearchStopHeld DEF PopulateInvariant
  <1>2. /\ Len(db.stops) = Len(base.stops) /\ StopPtrs(db) = 1 .. Len(db.stops)
        /\ DOMAIN base.stops = 1 .. Len(base.stops)
        /\ \A ptr \in StopPtrs(db) : db.stops[ptr] = base.stops[ptr].name
    BY DEF PopulateInvariant, PopulateTypeOK, StopsFollowRequests, StopPtrs, IsBase
  <1>3. /\ db.stop_names[name] # Null =>
            db.stop_names[name] \in StopPtrs(db) /\ db.stops[db.stop_names[name]] = name
        /\ \A ptr \in StopPtrs(db) : db.stops[ptr] = name => db.stop_names[name] # Null
    BY DEF PopulateInvariant, NamesLeadToLastStops
  <1>4. ASSUME SearchStop(db, name) # Null
        PROVE  \E stop \in Range(base.stops) : stop.name = name
    <2>1. PICK ptr \in DOMAIN base.stops : base.stops[ptr].name = name
      BY <1>1, <1>2, <1>3, <1>4
    <2> QED
      BY <2>1 DEF Range
  <1>5. ASSUME NEW stop \in Range(base.stops), stop.name = name
        PROVE  SearchStop(db, name) # Null
    <2>1. PICK ptr \in DOMAIN base.stops : base.stops[ptr] = stop
      BY DEF Range
    <2> QED
      BY <1>1, <1>2, <1>3, <1>5, <2>1
  <1> QED
    BY <1>4, <1>5

\* A leg is known to the catalogue if and only if a request declares a road.
LEMMA RoadsAreDistances ==
    ASSUME PopulateInvariant, stage = "populated", Range(base.stops) = BaseRequests("Stop"),
           NEW s \in GetStopsHolder(db), NEW t \in GetStopsHolder(db)
    PROVE  Distance(db, s, t) = Null <=>
              ~Road(db.stops[s], db.stops[t]) /\ ~Road(db.stops[t], db.stops[s])
  <1>1. \A from, to : Declared(from, to) # {} <=> Road(from, to)
    <2> SUFFICES ASSUME NEW from, NEW to
                 PROVE  Declared(from, to) # {} <=> Road(from, to)
      OBVIOUS
    <2>1. Road(from, to) <=> \E i \in DOMAIN base.stops :
                base.stops[i].name = from /\ to \in DOMAIN base.stops[i].road_distances
      BY DEF Road, Range
    <2> QED
      BY <2>1 DEF Declared
  <1>2. Distance(db, s, t) = Null <=>
            Declared(db.stops[s], db.stops[t]) \cup Declared(db.stops[t], db.stops[s]) = {}
    BY FollowedDistances DEF DistancesAsDeclared
  <1> QED
    BY <1>1, <1>2

\* The router asks for the roads that a line needs.
LEMMA RoadsOfLine ==
    ASSUME PopulateInvariant, stage = "populated", Range(base.stops) = BaseRequests("Stop"),
           NEW names \in Seq(StopName), NEW line \in Seq(GetStopsHolder(db)), Len(line) = Len(names),
           \A i \in DOMAIN names : line[i] = SearchStop(db, names[i])
    PROVE  LineThrows(line) <=> ~RoadsAreKnown(names)
  <1>1. /\ DOMAIN line = 1 .. Len(names) /\ DOMAIN names = 1 .. Len(names) /\ Len(names) \in Nat
        /\ Len(line) = Len(names) /\ \A i \in 1 .. Len(names) : line[i] \in GetStopsHolder(db)
    OBVIOUS
  <1>2. \A i \in 1 .. Len(names) : db.stops[line[i]] = names[i]
    <2> SUFFICES ASSUME NEW i \in 1 .. Len(names) PROVE db.stops[line[i]] = names[i]
      OBVIOUS
    <2>1. line[i] = SearchStop(db, names[i]) /\ names[i] \in StopName /\ line[i] \in GetStopsHolder(db)
      BY <1>1
    <2>2. line[i] # Null /\ line[i] = db.stop_names[names[i]]
      BY <2>1, HeldByItsName, SearchStopHeld DEF PopulateInvariant
    <2> QED
      BY <2>1, <2>2 DEF PopulateInvariant, NamesLeadToLastStops
  <1>3. \A i, j \in 1 .. Len(names) : line[i] = line[j] <=> names[i] = names[j]
    BY <1>1, <1>2
  <1>4. \A k \in 2 .. Len(names) : Distance(db, line[k - 1], line[k]) = Null <=>
            ~Road(names[k - 1], names[k]) /\ ~Road(names[k], names[k - 1])
    <2> SUFFICES ASSUME NEW k \in 2 .. Len(names)
                 PROVE  Distance(db, line[k - 1], line[k]) = Null <=>
                            ~Road(names[k - 1], names[k]) /\ ~Road(names[k], names[k - 1])
      OBVIOUS
    <2>1. k \in 1 .. Len(names) /\ k - 1 \in 1 .. Len(names)
      BY <1>1
    <2>2. /\ line[k] \in GetStopsHolder(db) /\ line[k - 1] \in GetStopsHolder(db)
          /\ db.stops[line[k]] = names[k] /\ db.stops[line[k - 1]] = names[k - 1]
      BY <1>1, <1>2, <2>1
    <2> QED
      BY <2>2, RoadsAreDistances
  <1>5. ASSUME LineThrows(line)
        PROVE  ~RoadsAreKnown(names)
    <2>1. PICK from \in DOMAIN line : \E to \in Destinations(line, from) :
              Distance(db, line[to - 1], line[to]) = Null
      BY <1>5 DEF LineThrows
    <2>2. PICK to \in Destinations(line, from) : Distance(db, line[to - 1], line[to]) = Null
      BY <2>1
    <2>3. to \in from + 1 .. Len(line) /\ line[to] # line[from]
      BY <2>2 DEF Destinations
    <2>4. to \in 2 .. Len(names) /\ from \in 1 .. to - 1 /\ from \in 1 .. Len(names) /\ to \in 1 .. Len(names)
      BY <1>1, <2>3
    <2>5. names[from] # names[to] /\ ~Road(names[to - 1], names[to]) /\ ~Road(names[to], names[to - 1])
      BY <1>3, <1>4, <2>2, <2>3, <2>4
    <2> QED
      BY <2>4, <2>5 DEF RoadsAreKnown
  <1>6. ASSUME ~RoadsAreKnown(names)
        PROVE  LineThrows(line)
    <2>1. PICK to \in 2 .. Len(names) :
              /\ \E i \in 1 .. to - 1 : names[i] # names[to]
              /\ ~Road(names[to - 1], names[to]) /\ ~Road(names[to], names[to - 1])
      BY <1>6 DEF RoadsAreKnown
    <2>2. PICK from \in 1 .. to - 1 : names[from] # names[to]
      BY <2>1
    <2>3. from \in 1 .. Len(names) /\ to \in 1 .. Len(names) /\ to \in from + 1 .. Len(names)
      BY <1>1
    <2>4. line[to] # line[from] /\ Distance(db, line[to - 1], line[to]) = Null
      BY <1>3, <1>4, <2>1, <2>2, <2>3
    <2> QED
      BY <1>1, <2>3, <2>4 DEF LineThrows, Destinations
  <1> QED
    BY <1>5, <1>6

\* The roads of a bus, in its directions.
LEMMA ReversedLine ==
    ASSUME NEW S, NEW s \in Seq(S)
    PROVE  /\ Reverse(s) \in Seq(S) /\ Len(Reverse(s)) = Len(s)
           /\ \A i \in 1 .. Len(s) : Reverse(s)[i] = s[Len(s) - i + 1] /\ Len(s) - i + 1 \in 1 .. Len(s)
  BY DEF Reverse

\* The router throws for a bus if and only if a road of its request is unknown.
LEMMA RoadsOfBus ==
    ASSUME PopulateInvariant, stage = "populated", Range(base.stops) = BaseRequests("Stop"),
           NEW ptr \in GetBusesHolder(db)
    PROVE  LET bus == base.buses[ptr]
           IN  /\ ptr \in DOMAIN base.buses
               /\ (\E line \in Range(Directions(db.buses[ptr])) : LineThrows(line)) <=>
                    ~(RoadsAreKnown(bus.stops) /\ (bus.is_roundtrip \/ RoadsAreKnown(Reverse(bus.stops))))
  <1>1. /\ ptr \in BusPtrs(db) /\ db.buses[ptr] = BusAt(ptr)
        /\ db.buses[ptr].stops \in Seq(GetStopsHolder(db))
        /\ DOMAIN base.buses = BusPtrs(db)
    BY LineStops DEF PopulateInvariant, BusesFollowRequests, PopulateTypeOK, BusPtrs, IsBase
  <1>2. PICK names \in Seq(StopName) : names = base.buses[ptr].stops
    BY <1>1 DEF PopulateInvariant, IsBase, IsBusRequest
  <1>3. PICK line \in Seq(GetStopsHolder(db)) : line = db.buses[ptr].stops
    BY <1>1
  <1>4. /\ line = [k \in DOMAIN names |-> SearchStop(db, names[k])]
        /\ db.buses[ptr].is_roundtrip = base.buses[ptr].is_roundtrip
    BY <1>1, <1>2, <1>3 DEF BusAt
  <1>5. Len(line) = Len(names) /\ DOMAIN names = 1 .. Len(names) /\ \A i \in DOMAIN names : line[i] = SearchStop(db, names[i])
    BY <1>4
  <1>6. LineThrows(line) <=> ~RoadsAreKnown(names)
    BY <1>5, RoadsOfLine
  <1>7. LineThrows(Reverse(line)) <=> ~RoadsAreKnown(Reverse(names))
    <2>1. /\ Reverse(line) \in Seq(GetStopsHolder(db)) /\ Len(Reverse(line)) = Len(line)
          /\ \A i \in 1 .. Len(line) : Reverse(line)[i] = line[Len(line) - i + 1]
      BY ReversedLine
    <2>2. /\ Reverse(names) \in Seq(StopName) /\ Len(Reverse(names)) = Len(names)
          /\ \A i \in 1 .. Len(names) :
                Reverse(names)[i] = names[Len(names) - i + 1] /\ Len(names) - i + 1 \in 1 .. Len(names)
      BY ReversedLine
    <2>3. \A i \in 1 .. Len(names) : Reverse(line)[i] = SearchStop(db, Reverse(names)[i])
      BY <1>5, <2>1, <2>2
    <2>4. DOMAIN Reverse(names) = 1 .. Len(names)
      BY <2>2
    <2> QED
      BY <1>5, <2>1, <2>2, <2>3, <2>4, RoadsOfLine
  <1>8. Range(Directions(db.buses[ptr])) =
            {line} \cup IF base.buses[ptr].is_roundtrip THEN {} ELSE {Reverse(line)}
    <2>1. PICK bus : bus = db.buses[ptr]
      OBVIOUS
    <2>2. bus.stops \in Seq(GetStopsHolder(db)) /\ bus.stops = line
          /\ bus.is_roundtrip = base.buses[ptr].is_roundtrip
      BY <1>3, <1>4, <2>1
    <2>3. Range(Directions(bus)) = {bus.stops} \cup IF bus.is_roundtrip THEN {} ELSE {Reverse(bus.stops)}
      BY <2>2, DirectionsOf
    <2> QED
      BY <2>1, <2>2, <2>3
  <1> QED
    BY <1>1, <1>2, <1>6, <1>7, <1>8

\* The buses that names lead to are the last ones of their names.
LEMMA LastBusesAre ==
    ASSUME PopulateInvariant, stage = "populated", base.buses = OfType(Listed("base_requests"), "Bus")
    PROVE  LastBuses = {base.buses[ptr] : ptr \in GetBusesHolder(db)}
  <1>1. /\ BusPtrs(db) = DOMAIN base.buses /\ DOMAIN base.buses = 1 .. Len(base.buses)
        /\ Len(base.buses) \in Nat
        /\ \A ptr \in BusPtrs(db) : db.buses[ptr].name = base.buses[ptr].name /\ base.buses[ptr].name \in BusName
    <2>1. /\ BusPtrs(db) = DOMAIN base.buses /\ DOMAIN base.buses = 1 .. Len(base.buses)
          /\ Len(base.buses) \in Nat
      BY DEF PopulateInvariant, BusesFollowRequests, PopulateTypeOK, BusPtrs, IsBase
    <2>2. \A ptr \in BusPtrs(db) : db.buses[ptr] = BusAt(ptr)
      BY DEF PopulateInvariant, BusesFollowRequests
    <2>3. \A ptr \in BusPtrs(db) : base.buses[ptr].name \in BusName
      BY <2>1 DEF PopulateInvariant, IsBase, IsBusRequest
    <2> QED
      <3>1. \A ptr : BusAt(ptr).name = base.buses[ptr].name
        BY DEF BusAt
      <3> QED
        BY <2>1, <2>2, <2>3, <3>1
  <1>2. \A j \in DOMAIN base.buses :
            (\A k \in j + 1 .. Len(base.buses) : base.buses[k].name # base.buses[j].name)
            <=> j \in GetBusesHolder(db)
    <2> SUFFICES ASSUME NEW j \in DOMAIN base.buses
                 PROVE  (\A k \in j + 1 .. Len(base.buses) : base.buses[k].name # base.buses[j].name)
                        <=> j \in GetBusesHolder(db)
      OBVIOUS
    <2>0. j \in 1 .. Len(base.buses)
      BY <1>1
    <2>1. PICK name \in BusName : name = base.buses[j].name
      BY <1>1
    <2>2. /\ db.bus_names[name] # Null /\ db.bus_names[name] \in DOMAIN base.buses
          /\ base.buses[db.bus_names[name]].name = name
          /\ \A ptr \in DOMAIN base.buses : base.buses[ptr].name = name => ptr <= db.bus_names[name]
      BY <1>1, <2>1 DEF PopulateInvariant, NamesLeadToLastBuses
    <2>3. ASSUME \A k \in j + 1 .. Len(base.buses) : base.buses[k].name # base.buses[j].name
          PROVE  j \in GetBusesHolder(db)
      <3>1. j = db.bus_names[name]
        BY <1>1, <2>0, <2>1, <2>2, <2>3
      <3> QED
        BY <2>2, <3>1 DEF GetBusesHolder
    <2>4. ASSUME j \in GetBusesHolder(db), NEW k \in j + 1 .. Len(base.buses)
          PROVE  base.buses[k].name # base.buses[j].name
      <3>1. PICK other \in BusName : j = db.bus_names[other] /\ j # Null
        BY <2>4 DEF GetBusesHolder
      <3>2. other = name
        BY <1>1, <2>1, <3>1 DEF PopulateInvariant, NamesLeadToLastBuses
      <3> QED
        BY <1>1, <2>0, <2>1, <2>2, <2>4, <3>1, <3>2
    <2> QED
      BY <2>3, <2>4
  <1>3. GetBusesHolder(db) \subseteq DOMAIN base.buses
    BY <1>1, LineStops
  <1> QED
    BY <1>2, <1>3 DEF LastBuses

\* A line that the router finishes is one whose roads are known, and so is every
\* stop of a bus (catalogue.cpp:30-37, router.cpp:26-72).
LEMMA BuiltIsDeclared ==
    ASSUME ReaderFollowsInput, parsing = "done", RouterInvariant,
           base = [stops |-> stops, buses |-> buses], DeclaresBase(requests), building = "ready"
    PROVE  /\ StopsAreDeclared
           /\ \A bus \in LastBuses :
                RoadsAreKnown(bus.stops) /\ (bus.is_roundtrip \/ RoadsAreKnown(Reverse(bus.stops)))
  <1>1. /\ Range(base.stops) = BaseRequests("Stop") /\ Range(base.buses) = BaseRequests("Bus")
        /\ base.buses = OfType(Listed("base_requests"), "Bus")
    BY ListedBase DEF ReaderFollowsInput
  <1>2. /\ PopulateInvariant /\ stage = "populated"
        /\ \A ptr \in GetBusesHolder(db) :
            \A line \in Range(Directions(db.buses[ptr])) : ~LineThrows(line)
    BY DEF RouterInvariant, LoopsFollowCatalogue, RidesAreFastest
  <1>3. ASSUME NEW bus \in BaseRequests("Bus"), NEW name \in Range(bus.stops)
        PROVE  name \in {stop.name : stop \in BaseRequests("Stop")}
    <2>1. PICK ptr \in DOMAIN base.buses : bus = base.buses[ptr]
      BY <1>1 DEF Range
    <2>2. PICK n \in DOMAIN bus.stops : name = bus.stops[n]
      BY <1>3 DEF Range
    <2>3. /\ db.buses[ptr] = BusAt(ptr) /\ ptr \in BusPtrs(db)
      BY <1>2 DEF PopulateInvariant, BusesFollowRequests, PopulateTypeOK, BusPtrs, IsBase
    <2>4. /\ n \in DOMAIN BusAt(ptr).stops /\ BusAt(ptr).stops[n] = SearchStop(db, name) /\ name \in StopName
      BY <1>2, <2>1, <2>2, BusAtType
    <2>5. SearchStop(db, name) # Null
      BY <1>2, <2>3, <2>4 DEF PopulateInvariant, ListsFollowBuses, Returned
    <2> QED
      BY <1>1, <1>2, <2>4, <2>5, NamesAreDeclared
  <1>4. LastBuses = {base.buses[ptr] : ptr \in GetBusesHolder(db)}
    BY <1>1, <1>2, LastBusesAre
  <1>5. \A ptr \in GetBusesHolder(db) :
            LET bus == base.buses[ptr]
            IN  RoadsAreKnown(bus.stops) /\ (bus.is_roundtrip \/ RoadsAreKnown(Reverse(bus.stops)))
    BY <1>1, <1>2, RoadsOfBus
  <1> QED
    BY <1>3, <1>4, <1>5 DEF StopsAreDeclared

\* Populate fails at a bus with a stop that no request declares.
LEMMA PopulateFails ==
    ASSUME ReaderFollowsInput, parsing = "done", PopulateInvariant,
           base = [stops |-> stops, buses |-> buses], DeclaresBase(requests),
           PopulateNext, stage # "failed", stage' = "failed"
    PROVE  ~StopsAreDeclared
  <1>1. /\ Range(base.stops) = BaseRequests("Stop") /\ Range(base.buses) = BaseRequests("Bus")
    BY ListedBase
  <1>2. stage = "buses" /\ index \in DOMAIN base.buses /\ AddBusThrows(BusAt(index))
    BY DEF PopulateNext, NextStop, NextDistance, NextDistances, NextBus, NextLoop, PopulateInvariant,
           PopulateTypeOK, IsBase
  <1>3. PICK n \in DOMAIN BusAt(index).stops : BusAt(index).stops[n] = Null
    BY <1>2 DEF AddBusThrows
  <1>4. /\ base.buses[index].stops[n] \in StopName
        /\ SearchStop(db, base.buses[index].stops[n]) = Null
        /\ n \in DOMAIN base.buses[index].stops
    BY <1>2, <1>3, BusAtType
  <1>5. base.buses[index] \in BaseRequests("Bus") /\ base.buses[index].stops[n] \in Range(base.buses[index].stops)
    BY <1>1, <1>2, <1>4 DEF Range
  <1>6. base.buses[index].stops[n] \notin {stop.name : stop \in BaseRequests("Stop")}
    BY <1>1, <1>2, <1>4, NamesAreDeclared
  <1> QED
    BY <1>5, <1>6 DEF StopsAreDeclared

\* No ride takes less than nothing where no road does.
LEMMA MetresAreNatural ==
    ASSUME NEW line, NEW legs, \A k \in legs : Distance(db, line[k - 1], line[k]) \in Nat, NEW to \in Nat
    PROVE  Metres(line, legs, to) \in Nat
  <1>1. \A k \in legs : Distance(db, line[k - 1], line[k]) \in Int
    OBVIOUS
  <1>2. PICK m \in [Nat -> Int] :
          /\ m[0] = 0
          /\ \A k \in Nat \ {0} :
                m[k] = m[k - 1] + IF k \in legs THEN Distance(db, line[k - 1], line[k]) ELSE 0
          /\ \A n \in Nat : Metres(line, legs, n) = m[n]
    BY <1>1, MetresSteps
  <1> DEFINE S == {n \in Nat : m[n] \in Nat}
  <1>3. 0 \in S
    BY <1>2
  <1>4. ASSUME NEW n \in Nat, n \in S
        PROVE  n + 1 \in S
    <2>1. PICK k \in Nat \ {0} : k = n + 1 /\ k - 1 = n
      OBVIOUS
    <2>2. m[k] = m[n] + IF k \in legs THEN Distance(db, line[k - 1], line[k]) ELSE 0
      BY <1>2, <2>1
    <2>3. m[k] \in Nat
      BY <1>4, <2>2
    <2> QED
      BY <2>1, <2>3
  <1> HIDE DEF S
  <1>5. \A n \in Nat : n \in S
    BY <1>3, <1>4, SetInduction
  <1> QED
    BY <1>2, <1>5 DEF S

\* No distance of the catalogue is shorter than the roads are.
LEMMA DistancesAreNatural ==
    ASSUME PopulateInvariant, stage = "populated", Range(base.stops) = BaseRequests("Stop"), RoadsAreNatural,
           NEW s \in GetStopsHolder(db), NEW t \in GetStopsHolder(db), Distance(db, s, t) # Null
    PROVE  Distance(db, s, t) \in Nat
  <1>1. Distance(db, s, t) \in Declared(db.stops[s], db.stops[t]) \cup Declared(db.stops[t], db.stops[s])
    BY FollowedDistances DEF DistancesAsDeclared
  <1>2. ASSUME NEW from, NEW to, NEW metres \in Declared(from, to)
        PROVE  metres \in Nat
    <2>1. PICK i \in DOMAIN base.stops :
            to \in DOMAIN base.stops[i].road_distances /\ metres = base.stops[i].road_distances[to]
      BY <1>2 DEF Declared
    <2>2. base.stops[i] \in BaseRequests("Stop") /\ metres \in Int
      BY <2>1 DEF PopulateInvariant, IsBase, IsStopRequest, Range
    <2> QED
      BY <2>1, <2>2 DEF RoadsAreNatural
  <1> QED
    BY <1>1, <1>2

\* The router fails at a road that is unknown or shorter than nothing, and at nothing
\* else (router.cpp:26-72, router.h:52-55).
LEMMA RouterFails ==
    ASSUME ReaderFollowsInput, parsing = "done", RouterInvariant,
           base = [stops |-> stops, buses |-> buses], DeclaresBase(requests),
           RouterNext, building # "failed", building' = "failed"
    PROVE  \/ \E bus \in LastBuses :
                ~(RoadsAreKnown(bus.stops) /\ (bus.is_roundtrip \/ RoadsAreKnown(Reverse(bus.stops))))
           \/ ~RoadsAreNatural
  <1>1. /\ Range(base.stops) = BaseRequests("Stop") /\ Range(base.buses) = BaseRequests("Bus")
        /\ base.buses = OfType(Listed("base_requests"), "Bus")
    BY ListedBase DEF ReaderFollowsInput
  <1>2. CreateLineEdges \/ KeepFastest \/ MakeRouter
    BY DEF RouterNext, StartRouter, AddTransfer, EndTransfers, AddWait, EndWaits, AddRide
  <1>3. PopulateInvariant /\ stage = "populated"
    BY <1>2 DEF RouterInvariant, LoopsFollowCatalogue, CreateLineEdges, KeepFastest, MakeRouter
  <1>4. CASE CreateLineEdges
    <2>1. building = "lines"
      BY <1>4 DEF CreateLineEdges
    <2>2. PICK ptr \in pending : \E d \in DOMAIN Directions(db.buses[ptr]) : LineThrows(Directions(db.buses[ptr])[d])
      BY <1>4 DEF CreateLineEdges
    <2>3. ptr \in GetBusesHolder(db)
      BY <2>1 DEF RouterInvariant, LoopsFollowCatalogue
    <2>4. \E line \in Range(Directions(db.buses[ptr])) : LineThrows(line)
      BY <2>2 DEF Range
    <2>5. LET bus == base.buses[ptr]
          IN  ~(RoadsAreKnown(bus.stops) /\ (bus.is_roundtrip \/ RoadsAreKnown(Reverse(bus.stops))))
      BY <1>1, <1>3, <2>3, <2>4, RoadsOfBus
    <2>6. base.buses[ptr] \in LastBuses
      BY <1>1, <1>3, <2>3, LastBusesAre
    <2> QED
      BY <2>5, <2>6
  <1>5. CASE KeepFastest
    <2>1. building = "lines" /\ pending = {}
      BY <1>5 DEF KeepFastest
    <2>2. PICK n \in DOMAIN edges : ~({edges[n].from, edges[n].to} \subseteq DOMAIN stop_to_transfer)
      BY <1>5 DEF KeepFastest
    <2>3. /\ edges[n] \in ItemsOfLines(GetBusesHolder(db))
          /\ \A ptr \in GetBusesHolder(db) :
                \A line \in Range(Directions(db.buses[ptr])) : ~LineThrows(line)
      <3>1. Range(edges) = ItemsOfLines(GetBusesHolder(db) \ pending)
        BY <2>1 DEF RouterInvariant, CollectedFollowsLines
      <3>2. GetBusesHolder(db) \ pending = GetBusesHolder(db)
        BY <2>1
      <3>3. edges[n] \in Range(edges)
        BY DEF Range
      <3> QED
        BY <2>1, <3>1, <3>2, <3>3 DEF RouterInvariant, CollectedFollowsLines
    <2>4. edges[n].from \in GetStopsHolder(db) /\ edges[n].to \in GetStopsHolder(db)
      BY <1>3, <2>3, RideShape
    <2>5. DOMAIN stop_to_transfer = GetStopsHolder(db)
      BY <2>1 DEF RouterInvariant, TransfersFollowStops
    <2> QED
      BY <2>2, <2>4, <2>5
  <1>6. CASE MakeRouter
    <2> SUFFICES ASSUME RoadsAreNatural PROVE FALSE
      OBVIOUS
    <2>1. building = "rides" /\ pending = {} /\ Planner!HasNegativeEdge
      BY <1>6 DEF MakeRouter
    <2>2. PICK id \in DOMAIN graph.edges : graph.edges[id].weight < 0
      <3>1. PICK id \in Planner!ListedEdges(graph) : graph.edges[id].weight < 0
        BY <2>1 DEF Planner!HasNegativeEdge
      <3> QED
        BY <3>1 DEF Planner!ListedEdges
    <2>3. /\ DOMAIN graph.edges = DOMAIN id_to_edge /\ id_to_edge[id] \in Item
          /\ graph.edges[id].weight = id_to_edge[id].timedelta
      BY <2>2, EdgeIsOfItem
    <2>4. CASE id_to_edge[id].bus = Null
      BY <2>2, <2>3, <2>4, TransportRouterAssumption DEF RouterInvariant, ItemsFollowEdges
    <2>5. CASE id_to_edge[id].bus # Null
      <3>1. /\ id_to_edge[id] \in ItemsOfLines(GetBusesHolder(db))
            /\ \A ptr \in GetBusesHolder(db) :
                \A line \in Range(Directions(db.buses[ptr])) : ~LineThrows(line)
        <4>1. id_to_edge[id] \in RidesOf(Range(id_to_edge))
          BY <2>3, <2>5 DEF RidesOf, Range
        <4> QED
          BY <2>1, <4>1 DEF RouterInvariant, RidesAreFastest
      <3>2. PICK ptr \in GetBusesHolder(db) : id_to_edge[id] \in LineItems(ptr)
        BY <3>1 DEF ItemsOfLines
      <3>3. PICK line \in Range(Directions(db.buses[ptr])) :
                \E from \in DOMAIN line : \E to \in Destinations(line, from) :
                    id_to_edge[id] = LineEdge(line, ptr, from, to)
        BY <3>2, LineItemsAre
      <3>10. PICK from \in DOMAIN line :
                \E to \in Destinations(line, from) : id_to_edge[id] = LineEdge(line, ptr, from, to)
        BY <3>3
      <3>4. PICK to \in Destinations(line, from) : id_to_edge[id] = LineEdge(line, ptr, from, to)
        BY <3>10
      <3>5. id_to_edge[id].timedelta = Metres(line, Destinations(line, from), to)
        BY <3>4 DEF LineEdge, Ridden
      <3>6. line \in Seq(GetStopsHolder(db)) /\ ~LineThrows(line)
        <4>1. PICK S : S = GetStopsHolder(db)
          OBVIOUS
        <4>2. PICK lines : lines = Directions(db.buses[ptr])
          OBVIOUS
        <4>3. lines \in Seq(Seq(S))
          BY <1>3, <3>2, <4>1, <4>2, LinesOf
        <4>4. PICK d \in DOMAIN lines : line = lines[d]
          BY <3>3, <4>2 DEF Range
        <4>5. line \in Seq(S)
          BY <4>3, <4>4
        <4> QED
          BY <3>1, <3>2, <3>3, <4>1, <4>5
      <3>7. ASSUME NEW k \in Destinations(line, from)
            PROVE  Distance(db, line[k - 1], line[k]) \in Nat
        <4>1. /\ k \in DOMAIN line /\ k - 1 \in DOMAIN line
              /\ line[k] \in GetStopsHolder(db) /\ line[k - 1] \in GetStopsHolder(db)
          BY <3>4, <3>6 DEF Destinations
        <4>2. Distance(db, line[k - 1], line[k]) # Null
          BY <3>4, <3>6, <3>7 DEF LineThrows
        <4> QED
          BY <1>1, <1>3, <4>1, <4>2, DistancesAreNatural
      <3>8. to \in Nat
        BY <3>4, <3>6 DEF Destinations
      <3>9. Metres(line, Destinations(line, from), to) \in Nat
        BY <3>7, <3>8, MetresAreNatural
      <3> QED
        BY <2>2, <2>3, <3>5, <3>9
    <2> QED
      BY <2>4, <2>5
  <1> QED
    BY <1>2, <1>4, <1>5, <1>6

-----------------------------------------------------------------------------
(* The settings. *)

\* The settings that the reader keeps are those of the input.
LEMMA SettingsAreKept ==
    ASSUME ReaderFollowsInput, parsing = "done", NEW key \in SettingKeys
    PROVE  /\ key \in DOMAIN settings <=> HasKey(key)
           /\ HasKey(key) => settings[key] = requests.dict[key].dict
  <1> DEFINE present == {k \in SettingKeys : HasKey(k)}
  <1>1. settings = [k \in present |-> requests.dict[k].dict]
    BY DEF ReaderFollowsInput
  <1> QED
    BY <1>1

\* Each setting in its turn, and the kind it must be of.
Doubles == <<"width", "height", "padding", "stop_radius", "line_width">>

\* Functions on the first numbers are sequences, also where they are shown as tuples.
LEMMA FunctionIsSequence ==
    ASSUME NEW S, NEW n \in Nat, NEW f \in [1 .. n -> S]
    PROVE  f \in Seq(S) /\ Len(f) = n
  OBVIOUS

LEMMA FiveAreSequence ==
    ASSUME NEW S, NEW a \in S, NEW b \in S, NEW c \in S, NEW d \in S, NEW e \in S
    PROVE  <<a, b, c, d, e>> \in Seq(S) /\ Len(<<a, b, c, d, e>>) = 5
  OBVIOUS

\* The reads of GenerateMapSettings, one by one.
LEMMA ReadsAre ==
    ASSUME NEW render
    PROVE  /\ DOMAIN Reads(render) = 1 .. 10
           /\ \A i \in 1 .. 5 : Reads(render)[i] = ReadDouble(render, Doubles[i])
           /\ Reads(render)[6] = ReadLabel(render, "bus_label_offset", "bus_label_font_size")
           /\ Reads(render)[7] = ReadLabel(render, "stop_label_offset", "stop_label_font_size")
           /\ Reads(render)[8] = ReadDouble(render, "underlayer_width")
           /\ Reads(render)[9] = Read("underlayer_color" \in DOMAIN render /\ IsColor(render["underlayer_color"]))
           /\ Reads(render)[10] = Read(/\ "color_palette" \in DOMAIN render /\ IsArray(render["color_palette"])
                                       /\ \A color \in Range(render["color_palette"].array) : IsColor(color))
  <1> DEFINE R == {"read", "threw", "undefined"}
             label(offset, size) == ReadLabel(render, offset, size)
             colors == Read(/\ "color_palette" \in DOMAIN render /\ IsArray(render["color_palette"])
                            /\ \A color \in Range(render["color_palette"].array) : IsColor(color))
  <1>1. \A key : ReadDouble(render, key) \in R
    BY DEF ReadDouble, Read
  <1>2. \A offset, size : label(offset, size) \in R
    BY DEF ReadLabel, Read
  <1>3. \A b \in BOOLEAN : Read(b) \in R
    BY DEF Read
  <1>4. PICK one \in Seq(R) : one = [i \in 1 .. 5 |-> ReadDouble(render, Doubles[i])] /\ Len(one) = 5
    <2>1. [i \in 1 .. 5 |-> ReadDouble(render, Doubles[i])] \in [1 .. 5 -> R]
      BY <1>1
    <2> HIDE DEF R
    <2>2. PICK f \in [1 .. 5 -> R] : f = [i \in 1 .. 5 |-> ReadDouble(render, Doubles[i])]
      BY <2>1
    <2>3. PICK n \in Nat : n = 5
      OBVIOUS
    <2>4. f \in Seq(R) /\ Len(f) = n
      <3>1. f \in [1 .. n -> R]
        BY <2>3
      <3> QED
        BY <3>1, FunctionIsSequence
    <2> QED
      BY <2>2, <2>3, <2>4
  <1>5. PICK a \in R, b \in R, c \in R, d \in R, e \in R :
          /\ a = label("bus_label_offset", "bus_label_font_size")
          /\ b = label("stop_label_offset", "stop_label_font_size")
          /\ c = ReadDouble(render, "underlayer_width")
          /\ d = Read("underlayer_color" \in DOMAIN render /\ IsColor(render["underlayer_color"]))
          /\ e = colors
    BY <1>1, <1>2, <1>3
  <1> HIDE DEF R
  <1>7. PICK two \in Seq(R) : two = <<a, b, c, d, e>> /\ Len(two) = 5
    <2>1. <<a, b, c, d, e>> \in Seq(R) /\ Len(<<a, b, c, d, e>>) = 5
      BY FiveAreSequence
    <2> QED
      BY <2>1
  <1>6. Reads(render) = one \o two
    BY <1>4, <1>5, <1>7 DEF Reads, Doubles
  <1>8. /\ DOMAIN (one \o two) = 1 .. 10
        /\ \A i \in 1 .. 5 : (one \o two)[i] = one[i]
        /\ \A i \in 1 .. 5 : (one \o two)[5 + i] = two[i]
    BY <1>4, <1>7
  <1>9. /\ (one \o two)[6] = a /\ (one \o two)[7] = b /\ (one \o two)[8] = c
        /\ (one \o two)[9] = d /\ (one \o two)[10] = e
    <2>1. ASSUME NEW i \in 1 .. 5 PROVE (one \o two)[5 + i] = two[i]
      BY <1>8
    <2>2. two[1] = a /\ two[2] = b /\ two[3] = c /\ two[4] = d /\ two[5] = e
      BY <1>7
    <2>3. 5 + 1 = 6 /\ 5 + 2 = 7 /\ 5 + 3 = 8 /\ 5 + 4 = 9 /\ 5 + 5 = 10
      OBVIOUS
    <2>4. 1 \in 1 .. 5 /\ 2 \in 1 .. 5 /\ 3 \in 1 .. 5 /\ 4 \in 1 .. 5 /\ 5 \in 1 .. 5
      OBVIOUS
    <2>5. (one \o two)[5 + 1] = two[1] /\ (one \o two)[5 + 2] = two[2]
      BY <2>1, <2>4, Zenon
    <2>6. (one \o two)[5 + 3] = two[3] /\ (one \o two)[5 + 4] = two[4]
      BY <2>1, <2>4, Zenon
    <2>7. (one \o two)[5 + 5] = two[5]
      BY <2>1, <2>4, Zenon
    <2>8. /\ (one \o two)[6] = two[1] /\ (one \o two)[7] = two[2] /\ (one \o two)[8] = two[3]
          /\ (one \o two)[9] = two[4] /\ (one \o two)[10] = two[5]
      BY <2>3, <2>5, <2>6, <2>7
    <2> QED
      BY <2>2, <2>8
  <1> QED
    BY <1>4, <1>5, <1>6, <1>8, <1>9

LabelFits(render, offset, size) ==
    /\ offset \in DOMAIN render /\ IsOffset(render[offset])
    /\ size \in DOMAIN render /\ IsInt(render[size])

DoubleFits(render, key) == key \in DOMAIN render /\ IsDouble(render[key])

\* What has to be there for GenerateMapSettings to end well, read by read.
RenderIsWhole(render) ==
    /\ \A i \in 1 .. 5 : DoubleFits(render, Doubles[i])
    /\ LabelFits(render, "bus_label_offset", "bus_label_font_size")
    /\ LabelFits(render, "stop_label_offset", "stop_label_font_size")
    /\ DoubleFits(render, "underlayer_width")
    /\ "underlayer_color" \in DOMAIN render /\ IsColor(render["underlayer_color"])
    /\ "color_palette" \in DOMAIN render /\ IsArray(render["color_palette"])
    /\ \A color \in Range(render["color_palette"].array) : IsColor(color)

\* Render settings have their kinds if and only if every read ends well.
LEMMA WholeIsOfKinds ==
    ASSUME HasKey("render_settings")
    PROVE  RenderFits <=> RenderIsWhole(requests.dict["render_settings"].dict)
  <1> DEFINE render == requests.dict["render_settings"].dict
             Fits(key) == key \in DOMAIN render /\ HasKind(render[key], RenderKinds[key])
  <1>1. RenderFits <=>
            /\ Fits("width") /\ Fits("height") /\ Fits("padding") /\ Fits("stop_radius")
            /\ Fits("line_width") /\ Fits("underlayer_width")
            /\ Fits("bus_label_font_size") /\ Fits("stop_label_font_size")
            /\ Fits("bus_label_offset") /\ Fits("stop_label_offset")
            /\ Fits("underlayer_color") /\ Fits("color_palette")
    <2>1. DOMAIN RenderKinds =
            {"width", "height", "padding", "stop_radius", "line_width", "underlayer_width",
             "bus_label_font_size", "stop_label_font_size", "bus_label_offset", "stop_label_offset",
             "underlayer_color", "color_palette"}
      BY DEF RenderKinds
    <2>2. RenderFits <=> \A key \in DOMAIN RenderKinds : Fits(key)
      BY DEF RenderFits
    <2> HIDE DEF Fits
    <2> QED
      BY <2>1, <2>2
  <1>2. /\ \A key : HasKind(render[key], "double") <=> IsDouble(render[key])
        /\ \A key : HasKind(render[key], "int") <=> IsInt(render[key])
        /\ \A key : HasKind(render[key], "offset") <=> IsOffset(render[key])
        /\ \A key : HasKind(render[key], "color") <=> IsColor(render[key])
        /\ \A key : HasKind(render[key], "palette") <=>
                IsArray(render[key]) /\ \A color \in Range(render[key].array) : IsColor(color)
    BY DEF HasKind
  <1>3. /\ Fits("width") <=> DoubleFits(render, "width")
        /\ Fits("height") <=> DoubleFits(render, "height")
        /\ Fits("padding") <=> DoubleFits(render, "padding")
        /\ Fits("stop_radius") <=> DoubleFits(render, "stop_radius")
        /\ Fits("line_width") <=> DoubleFits(render, "line_width")
        /\ Fits("underlayer_width") <=> DoubleFits(render, "underlayer_width")
    <2> HIDE DEF render
    <2> QED
      BY <1>2 DEF DoubleFits, RenderKinds
  <1>4. /\ Fits("bus_label_offset") /\ Fits("bus_label_font_size") <=>
              LabelFits(render, "bus_label_offset", "bus_label_font_size")
        /\ Fits("stop_label_offset") /\ Fits("stop_label_font_size") <=>
              LabelFits(render, "stop_label_offset", "stop_label_font_size")
    <2> HIDE DEF render
    <2> QED
      BY <1>2 DEF LabelFits, RenderKinds
  <1>5. /\ Fits("underlayer_color") <=>
                "underlayer_color" \in DOMAIN render /\ IsColor(render["underlayer_color"])
        /\ Fits("color_palette") <=>
                /\ "color_palette" \in DOMAIN render /\ IsArray(render["color_palette"])
                /\ \A color \in Range(render["color_palette"].array) : IsColor(color)
    <2> HIDE DEF render
    <2> QED
      BY <1>2 DEF RenderKinds
  <1>6. (\A i \in 1 .. 5 : DoubleFits(render, Doubles[i])) <=>
            /\ DoubleFits(render, "width") /\ DoubleFits(render, "height")
            /\ DoubleFits(render, "padding") /\ DoubleFits(render, "stop_radius")
            /\ DoubleFits(render, "line_width")
    <2>1. 1 .. 5 = {1, 2, 3, 4, 5}
      OBVIOUS
    <2> QED
      BY <2>1 DEF Doubles
  <1> SUFFICES RenderFits <=> RenderIsWhole(render)
    OBVIOUS
  <1> HIDE DEF render, Fits
  <1> QED
    <2>1. RenderIsWhole(render) <=>
            /\ DoubleFits(render, "width") /\ DoubleFits(render, "height")
            /\ DoubleFits(render, "padding") /\ DoubleFits(render, "stop_radius")
            /\ DoubleFits(render, "line_width") /\ DoubleFits(render, "underlayer_width")
            /\ LabelFits(render, "bus_label_offset", "bus_label_font_size")
            /\ LabelFits(render, "stop_label_offset", "stop_label_font_size")
            /\ "underlayer_color" \in DOMAIN render /\ IsColor(render["underlayer_color"])
            /\ "color_palette" \in DOMAIN render /\ IsArray(render["color_palette"])
            /\ \A color \in Range(render["color_palette"].array) : IsColor(color)
      BY <1>6 DEF RenderIsWhole
    <2> QED
      BY <1>1, <1>3, <1>4, <1>5, <2>1

\* How GenerateMapSettings ends.
LEMMA RenderEnds ==
    ASSUME NEW render
    PROVE  /\ GenerateEnds(render) \in {"read", "threw", "undefined"}
           /\ GenerateEnds(render) = "read" <=> RenderIsWhole(render)
           /\ GenerateEnds(render) = "undefined" =>
                \E key \in {"bus_label_offset", "stop_label_offset"} :
                    IsArray(render[key]) /\ render[key].array = << >>
  <1> DEFINE ended == {i \in 1 .. 10 : Reads(render)[i] # "read"}
  <1>1. DOMAIN Reads(render) = 1 .. 10
    BY ReadsAre
  <1>2. GenerateEnds(render) = IF ended = {} THEN "read" ELSE Reads(render)[Min(ended)]
    BY <1>1 DEF GenerateEnds, ReadsEnd
  <1>3. ended # {} => Min(ended) \in ended
    <2> SUFFICES ASSUME ended # {} PROVE Min(ended) \in ended
      OBVIOUS
    <2>1. ended \subseteq Nat
      OBVIOUS
    <2> HIDE DEF ended
    <2>2. PICK least \in ended : \A n \in ended : least <= n
      BY <2>1, LeastElement
    <2>3. least \in Int /\ \A n \in ended : n \in Int /\ least <= n
      BY <2>1, <2>2
    <2>4. Min(ended) = least
      BY <2>3, MinIsLeast
    <2> QED
      BY <2>4
  <1>4. \A key : /\ ReadDouble(render, key) \in {"read", "threw"}
                 /\ ReadDouble(render, key) = "read" <=> DoubleFits(render, key)
    BY DEF ReadDouble, Read, DoubleFits
  <1>5. \A offset, size :
            /\ ReadLabel(render, offset, size) \in {"read", "threw", "undefined"}
            /\ ReadLabel(render, offset, size) = "read" <=> LabelFits(render, offset, size)
            /\ ReadLabel(render, offset, size) = "undefined" =>
                    IsArray(render[offset]) /\ render[offset].array = << >>
    BY DEF ReadLabel, Read, LabelFits, IsOffset
  <1>6. \A b \in BOOLEAN : Read(b) \in {"read", "threw"} /\ (Read(b) = "read" <=> b)
    BY DEF Read
  <1>7. \A i \in 1 .. 10 : i \in 1 .. 5 \/ i = 6 \/ i = 7 \/ i = 8 \/ i = 9 \/ i = 10
    OBVIOUS
  <1>8. ASSUME NEW i \in 1 .. 10
        PROVE  /\ Reads(render)[i] \in {"read", "threw", "undefined"}
               /\ Reads(render)[i] = "undefined" =>
                    \E key \in {"bus_label_offset", "stop_label_offset"} :
                        IsArray(render[key]) /\ render[key].array = << >>
    <2> DEFINE Undefined == \E key \in {"bus_label_offset", "stop_label_offset"} :
                               IsArray(render[key]) /\ render[key].array = << >>
    <2>1. CASE i \in 1 .. 5
      BY <1>4, <2>1, ReadsAre
    <2>2. CASE i = 6
      <3>1. Reads(render)[6] = ReadLabel(render, "bus_label_offset", "bus_label_font_size")
        BY ReadsAre
      <3> QED
        BY <1>5, <2>2, <3>1
    <2>3. CASE i = 7
      <3>1. Reads(render)[7] = ReadLabel(render, "stop_label_offset", "stop_label_font_size")
        BY ReadsAre
      <3> QED
        BY <1>5, <2>3, <3>1
    <2>4. CASE i = 8
      BY <1>4, <2>4, ReadsAre
    <2>5. CASE i = 9 \/ i = 10
      <3>1. \A b : Read(b) \in {"read", "threw"}
        BY DEF Read
      <3> QED
        BY <2>5, <3>1, ReadsAre
    <2> QED
      BY <1>7, <2>1, <2>2, <2>3, <2>4, <2>5
  <1>9. (\A i \in 1 .. 10 : Reads(render)[i] = "read") <=> RenderIsWhole(render)
    <2>1. (\A i \in 1 .. 10 : Reads(render)[i] = "read") <=>
            /\ \A i \in 1 .. 5 : Reads(render)[i] = "read"
            /\ Reads(render)[6] = "read" /\ Reads(render)[7] = "read" /\ Reads(render)[8] = "read"
            /\ Reads(render)[9] = "read" /\ Reads(render)[10] = "read"
      BY <1>7
    <2>2. \A i \in 1 .. 5 : Reads(render)[i] = "read" <=> DoubleFits(render, Doubles[i])
      BY <1>4, ReadsAre
    <2>3. /\ Reads(render)[6] = "read" <=> LabelFits(render, "bus_label_offset", "bus_label_font_size")
          /\ Reads(render)[7] = "read" <=> LabelFits(render, "stop_label_offset", "stop_label_font_size")
          /\ Reads(render)[8] = "read" <=> DoubleFits(render, "underlayer_width")
          /\ Reads(render)[9] = "read" <=>
                ("underlayer_color" \in DOMAIN render /\ IsColor(render["underlayer_color"]))
          /\ Reads(render)[10] = "read" <=>
                (/\ "color_palette" \in DOMAIN render /\ IsArray(render["color_palette"])
                 /\ \A color \in Range(render["color_palette"].array) : IsColor(color))
      BY <1>4, <1>5, <1>6, ReadsAre
    <2> QED
      BY <2>1, <2>2, <2>3 DEF RenderIsWhole
  <1> QED
    BY <1>2, <1>3, <1>8, <1>9

-----------------------------------------------------------------------------
(* What the steps of main leave alone. *)

\* What the input says is the same as long as the reader does nothing.
LEMMA InputSays ==
    ASSUME UNCHANGED <<session, started, readerVars>>
    PROVE  /\ mode' = mode /\ FileEnds' = FileEnds /\ DatabaseFile' = DatabaseFile
           /\ \A key : HasKey(key)' <=> HasKey(key)
           /\ requests' = requests /\ parsing' = parsing /\ session' = session /\ started' = started
           /\ stops' = stops /\ buses' = buses /\ stats' = stats /\ settings' = settings
           /\ Acceptable' <=> Acceptable
           /\ RoadsAreNatural' <=> RoadsAreNatural
           /\ RoutingIsWhole' <=> RoutingIsWhole
           /\ RenderFits' <=> RenderFits
  <1>1. /\ session' = session /\ started' = started /\ requests' = requests /\ parsing' = parsing
        /\ stops' = stops /\ buses' = buses /\ stats' = stats /\ settings' = settings
    BY DEF readerVars
  <1>2. \A key : HasKey(key)' <=> HasKey(key)
    BY <1>1 DEF HasKey
  <1>3. \A key : Listed(key)' = Listed(key)
    BY <1>1, <1>2 DEF Listed
  <1>4. \A type : BaseRequests(type)' = BaseRequests(type)
    BY <1>3 DEF BaseRequests
  <1>5. LastBuses' = LastBuses
    BY <1>3 DEF LastBuses
  <1>6. (StopsAreDeclared' <=> StopsAreDeclared) /\ (RoadsAreNatural' <=> RoadsAreNatural)
    BY <1>4 DEF StopsAreDeclared, RoadsAreNatural
  <1>7. \A from, to : Road(from, to)' <=> Road(from, to)
    BY <1>4 DEF Road
  <1>8. \A line : RoadsAreKnown(line)' <=> RoadsAreKnown(line)
    BY <1>7 DEF RoadsAreKnown
  <1>9. (RoutingIsWhole' <=> RoutingIsWhole) /\ (RenderFits' <=> RenderFits)
    BY <1>1 DEF RoutingIsWhole, RenderFits
  <1>10. NamesFile' <=> NamesFile
    BY <1>1, <1>2 DEF NamesFile
  <1>11. Acceptable' <=> Acceptable
    BY <1>1, <1>2, <1>5, <1>6, <1>8, <1>9, <1>10 DEF Acceptable
  <1>12. mode' = mode
    BY <1>1 DEF mode
  <1>13. FileEnds' = FileEnds /\ DatabaseFile' = DatabaseFile
    BY <1>1, <1>2 DEF FileEnds, DatabaseFile
  <1> QED
    BY <1>1, <1>2, <1>6, <1>9, <1>11, <1>12, <1>13

\* The catalogue, the router and the files where nobody touches them.
LEMMA RouterKept == RouterInvariant /\ UNCHANGED <<populateVars, routerVars>> => RouterInvariant'
  BY RouterStep DEF vars

LEMMA PopulateKept == PopulateInvariant /\ UNCHANGED populateVars => PopulateInvariant'
  BY PopulateStep

LEMMA FilesKept == FilesHoldBases /\ UNCHANGED store => FilesHoldBases'
  BY DEF FilesHoldBases, store

\* The part of main that comes behind the reader, in which nothing is read.
LEMMA SessionKept ==
    ASSUME MainFollowsSession, Running, UNCHANGED <<session, started, readerVars>>,
           at' \in {"populating", "settings", "handler", "opening", "writing", "loading", "searching",
                    "returned", "threw", "undefined"},
           at' \notin Ended => parsing = "done" /\ mode \in {"make_base", "process_requests"},
           at' \notin {"searching"} \cup Ended => nodes' = << >>
    PROVE  MainFollowsSession'
  <1>1. /\ session' = session /\ started' = started /\ requests' = requests /\ parsing' = parsing
        /\ mode' = mode
    BY InputSays
  <1>2. /\ session \in Sessions /\ started \in 0 .. Len(session) /\ started > 0
        /\ requests = session[started].input /\ parsing # "waiting"
    BY DEF MainFollowsSession, Running, Ended
  <1> QED
    BY <1>1, <1>2 DEF MainFollowsSession, Ended

\* What make_base reads of the requests is there.
LEMMA BaseIsDeclared ==
    ASSUME MainFollowsSession, at \notin {"idle", "killed"}, mode = "make_base"
    PROVE  DeclaresBase(requests)
  <1>1. /\ session \in Sessions /\ started \in 1 .. Len(session) /\ requests = session[started].input
    BY DEF MainFollowsSession
  <1>2. session \in Seq(Range(session))
    BY <1>1, ProgramAssumption
  <1>3. started \in DOMAIN session
    BY <1>1, <1>2
  <1>4. session[started].mode = "make_base"
    BY <1>1 DEF mode
  <1> QED
    BY <1>1, <1>3, <1>4, ProgramAssumption

\* Where main does not answer yet there is nothing to say of an answer.
LEMMA NoAnswerYet ==
    ASSUME at' \notin {"loading", "searching"}, at' = "returned" => nodes' = << >>
    PROVE  LoadingFollowsFile'
  BY DEF LoadingFollowsFile, Answering

\* A process that has not returned from make_base has no base to show.
LEMMA NothingWritten ==
    ASSUME at' = "returned" => mode' # "make_base"
    PROVE  MainFollowsFile'
  BY DEF MainFollowsFile

\* Only the end of make_base is an outcome.
LEMMA OutcomeOpen ==
    ASSUME at' \notin Ended \/ mode' # "make_base" \/ at' = "killed"
    PROVE  MakeBaseOutcome'
  BY DEF MakeBaseOutcome

-----------------------------------------------------------------------------
(* Every step of a session preserves the invariant. *)

\* A reader that has just begun.
LEMMA ReaderBegins ==
    ASSUME NEW input, ArraysAreSequences(input), StartReader(input)
    PROVE  ReaderFollowsInput' /\ parsing' \in {"Bus", "failed"}
  <1>1. /\ requests' = input /\ buses' = << >> /\ stops' = << >> /\ stats' = << >> /\ parsed' = 0
        /\ IF IsDict(input) THEN parsing' = "Bus" /\ raised' = "nothing"
           ELSE parsing' = "failed" /\ raised' = "logic_error"
    BY DEF StartReader
  <1>2. ArraysAreSequences(requests)'
    BY <1>1
  <1>3. CASE IsDict(input)
    <2>1. parsing' = "Bus" /\ raised' = "nothing" /\ IsDict(requests)'
      BY <1>1, <1>3
    <2>2. Len(Listed("base_requests")') \in Nat
      <3>1. CASE HasKey("base_requests")' /\ IsArray(requests.dict["base_requests"])'
        <4>1. Listed("base_requests")' = input.dict["base_requests"].array
          BY <1>1, <3>1 DEF Listed
        <4>2. input.dict["base_requests"].array \in Seq(Range(input.dict["base_requests"].array))
          BY <1>1, <1>3, <3>1 DEF ArraysAreSequences, HasKey
        <4> QED
          BY <4>1, <4>2
      <3>2. CASE ~(HasKey("base_requests")' /\ IsArray(requests.dict["base_requests"])')
        <4>1. Listed("base_requests")' = << >>
          BY <3>2 DEF Listed
        <4> QED
          BY <4>1
      <3> QED
        BY <3>1, <3>2
    <2>3. PassKey' = "base_requests"
      BY <2>1 DEF PassKey
    <2>4. parsed' \in 0 .. Len(Listed(PassKey))'
      BY <1>1, <2>2, <2>3
    <2>5. /\ AllKnown(Listed("base_requests"), parsed)'
          /\ buses' = Taken(Listed("base_requests"), "Bus", parsed)'
      BY <1>1, TakenSteps DEF AllKnown
    <2> QED
      BY <1>1, <1>2, <2>1, <2>4, <2>5 DEF ReaderFollowsInput
  <1>4. CASE ~IsDict(input)
    <2>1. RequestsAreSorted'
      BY <1>1, <1>4 DEF RequestsAreSorted, WellFormed
    <2> QED
      BY <1>1, <1>2, <1>4, <2>1 DEF ReaderFollowsInput, InPass
  <1> QED
    BY <1>1, <1>3, <1>4

\* A reader that has not begun.
LEMMA ReaderWaits ==
    ASSUME parsing' = "waiting"
    PROVE  ReaderFollowsInput'
  BY DEF ReaderFollowsInput, InPass

\* Before the first process is started.
LEMMA SessionBegins == ProgramInit => ProgramInvariant
  <1> SUFFICES ASSUME ProgramInit PROVE ProgramInvariant
    OBVIOUS
  <1>1. /\ session \in Sessions /\ started = 0 /\ at = "idle" /\ parsing = "waiting" /\ nodes = << >>
        /\ files = [name \in {} |-> EmptyMessage] /\ saved = [name \in {} |-> EmptyBase]
    BY DEF ProgramInit
  <1>2. ReaderFollowsInput
    BY <1>1 DEF ReaderFollowsInput, InPass
  <1>3. MainFollowsSession
    <2>1. Len(session) \in Nat
      BY <1>1, ProgramAssumption
    <2> QED
      BY <1>1, <2>1 DEF MainFollowsSession, Ended
  <1>4. MainFollowsCatalogue /\ MainFollowsFile /\ LoadingFollowsFile /\ MakeBaseOutcome
    BY <1>1 DEF MainFollowsCatalogue, MainFollowsFile, LoadingFollowsFile, MakeBaseOutcome, Ended, Answering
  <1>5. FilesHoldBases
    BY <1>1 DEF FilesHoldBases
  <1> QED
    BY <1>2, <1>3, <1>4, <1>5 DEF ProgramInvariant

LEMMA CatalogueForgotten == ForgetCatalogue => Forgotten' /\ nodes' = << >>
  BY DEF ForgetCatalogue, Forgotten

\* A process starts with an empty memory; the files stay as they are.
LEMMA Started == ProgramInvariant /\ Start => ProgramInvariant'
  <1> SUFFICES ASSUME ProgramInvariant, Start PROVE ProgramInvariant'
    OBVIOUS
  <1>1. /\ started < Len(session) /\ started' = started + 1 /\ session' = session
        /\ at' = IF session[started + 1].mode = "none" THEN "returned" ELSE "reading"
        /\ ForgetCatalogue /\ StartReader(session[started + 1].input) /\ UNCHANGED store
    BY DEF Start
  <1>2. /\ session \in Sessions /\ started \in 0 .. Len(session)
    BY DEF ProgramInvariant, MainFollowsSession
  <1>3. session \in Seq(Range(session))
    BY <1>2, ProgramAssumption
  <1>4. started' \in 1 .. Len(session) /\ started' \in DOMAIN session
    BY <1>1, <1>2, <1>3
  <1>5. ArraysAreSequences(session[started + 1].input)
    BY <1>1, <1>2, <1>4, ProgramAssumption
  <1>6. ReaderFollowsInput' /\ parsing' \in {"Bus", "failed"}
    BY <1>1, <1>5, ReaderBegins
  <1>7. Forgotten' /\ nodes' = << >>
    BY <1>1, CatalogueForgotten
  <1>8. mode' = session[started + 1].mode
    BY <1>1, <1>4 DEF mode
  <1>9. MainFollowsSession'
    <2>1. requests' = session[started + 1].input
      BY <1>1 DEF StartReader
    <2> QED
      BY <1>1, <1>2, <1>4, <1>6, <1>7, <2>1 DEF MainFollowsSession, Ended
  <1>10. MainFollowsCatalogue'
    BY <1>1, <1>7 DEF MainFollowsCatalogue
  <1>11. FilesHoldBases'
    BY <1>1, FilesKept DEF ProgramInvariant
  <1>12. MainFollowsFile' /\ LoadingFollowsFile' /\ MakeBaseOutcome'
    BY <1>1, <1>7, <1>8, NothingWritten, NoAnswerYet, OutcomeOpen DEF Ended
  <1> QED
    BY <1>6, <1>9, <1>10, <1>11, <1>12 DEF ProgramInvariant

\* A process that is killed leaves its files as they are.
LEMMA Killed == ProgramInvariant /\ Kill => ProgramInvariant'
  <1> SUFFICES ASSUME ProgramInvariant, Kill PROVE ProgramInvariant'
    OBVIOUS
  <1>1. /\ Running /\ at' = "killed" /\ parsing' = "waiting" /\ ForgetCatalogue
        /\ session' = session /\ started' = started /\ UNCHANGED store
    BY DEF Kill
  <1>2. MainFollowsSession'
    <2>1. session \in Sessions /\ started \in 0 .. Len(session) /\ started > 0
      BY <1>1 DEF ProgramInvariant, MainFollowsSession, Running
    <2> QED
      BY <1>1, <2>1 DEF MainFollowsSession, Ended
  <1>3. MainFollowsCatalogue'
    BY <1>1 DEF MainFollowsCatalogue
  <1>4. MainFollowsFile' /\ LoadingFollowsFile' /\ MakeBaseOutcome'
    BY <1>1, NothingWritten, NoAnswerYet, OutcomeOpen
  <1> QED
    BY <1>1, <1>2, <1>3, <1>4, ReaderWaits, FilesKept DEF ProgramInvariant

\* A step of the reader, or the exception it has ended with.
LEMMA InputRead == ProgramInvariant /\ ReadInput => ProgramInvariant'
  <1> SUFFICES ASSUME ProgramInvariant, ReadInput PROVE ProgramInvariant'
    OBVIOUS
  <1>1. /\ at = "reading" /\ session' = session /\ started' = started /\ nodes' = nodes
        /\ UNCHANGED <<populateVars, routerVars>> /\ UNCHANGED store
        /\ IF parsing = "failed" THEN at' = "threw" /\ UNCHANGED readerVars
           ELSE at' = at /\ ReaderNext
    BY DEF ReadInput, KeepCatalogue, KeepRouter, KeepReader, KeepRest, store
  <1>2. ReaderFollowsInput'
    BY <1>1, ReaderStep, ReaderKept DEF ProgramInvariant
  <1>3. /\ session \in Sessions /\ started \in 0 .. Len(session) /\ started > 0
        /\ requests = session[started].input /\ parsing # "waiting" /\ nodes = << >>
    BY <1>1 DEF ProgramInvariant, MainFollowsSession, Ended
  <1>4. requests' = requests /\ parsing' # "waiting"
    <2>1. ReaderNext => requests' = requests /\ parsing' # "waiting"
      BY <1>3 DEF ReaderNext, NotAnArray, UnknownRequest, ParseBase, ParseStat, NextPass, ParseSettings, Throw,
                  InPass, Taking
    <2> QED
      BY <1>1, <1>3, <2>1 DEF readerVars
  <1>5. MainFollowsSession'
    BY <1>1, <1>3, <1>4 DEF MainFollowsSession, Ended
  <1>6. MainFollowsCatalogue'
    <2>1. Forgotten
      BY <1>1 DEF ProgramInvariant, MainFollowsCatalogue
    <2>2. Forgotten'
      BY <1>1, <2>1 DEF Forgotten, populateVars, routerVars
    <2> QED
      BY <1>1, <2>2 DEF MainFollowsCatalogue
  <1>7. MainFollowsFile' /\ LoadingFollowsFile'
    BY <1>1, NothingWritten, NoAnswerYet
  <1>8. MakeBaseOutcome'
    <2>1. CASE parsing = "failed"
      <3>1. ~WellFormed(requests)
        BY <2>1, ReadingIsSorted DEF ProgramInvariant, RequestsAreSorted
      <3>2. at' = "threw" /\ ~Acceptable'
        BY <1>1, <2>1, <3>1, InputSays DEF Acceptable
      <3> QED
        BY <3>2 DEF MakeBaseOutcome
    <2>2. CASE parsing # "failed"
      BY <1>1, <2>2, OutcomeOpen DEF Ended
    <2> QED
      BY <2>1, <2>2
  <1> QED
    BY <1>1, <1>2, <1>5, <1>6, <1>7, <1>8, FilesKept DEF ProgramInvariant

\* A process without a mode of its own ends.
LEMMA UsagePrinted == ProgramInvariant /\ PrintUsage => ProgramInvariant'
  <1> SUFFICES ASSUME ProgramInvariant, PrintUsage PROVE ProgramInvariant'
    OBVIOUS
  <1>1. /\ at = "reading" /\ mode # "make_base" /\ at' = "returned" /\ nodes' = nodes
        /\ UNCHANGED <<session, started, readerVars>> /\ UNCHANGED store /\ Running
    BY DEF PrintUsage, KeepReader, KeepRest, store, Running, Ended
  <1>2. mode' = mode /\ nodes = << >>
    BY <1>1, InputSays DEF ProgramInvariant, MainFollowsSession, Ended
  <1>3. MainFollowsSession'
    BY <1>1, <1>2, SessionKept DEF ProgramInvariant, Ended
  <1>4. MainFollowsCatalogue'
    BY <1>1 DEF MainFollowsCatalogue
  <1>5. MainFollowsFile' /\ LoadingFollowsFile' /\ MakeBaseOutcome'
    BY <1>1, <1>2, NothingWritten, NoAnswerYet, OutcomeOpen
  <1> QED
    BY <1>1, <1>3, <1>4, <1>5, ReaderKept, FilesKept DEF ProgramInvariant

\* Behind the reader, and before a file is written or an answer given: what there is to
\* show of a step of main.
LEMMA MainGoesOn ==
    ASSUME ProgramInvariant, at \in {"reading", "populating", "settings", "handler", "opening"},
           UNCHANGED <<session, started, readerVars>>, UNCHANGED store, nodes' = nodes,
           parsing = "done", mode \in {"make_base", "process_requests"},
           at' \in {"populating", "settings", "handler", "opening", "threw", "undefined"},
           MainFollowsCatalogue', MakeBaseOutcome'
    PROVE  ProgramInvariant'
  <1>1. Running /\ nodes = << >>
    BY DEF ProgramInvariant, MainFollowsSession, Running, Ended
  <1>2. MainFollowsSession'
    BY <1>1, SessionKept DEF ProgramInvariant
  <1>3. MainFollowsFile' /\ LoadingFollowsFile'
    BY NothingWritten, NoAnswerYet
  <1> QED
    BY <1>2, <1>3, ReaderKept, FilesKept DEF ProgramInvariant

\* The checks of BeginPopulate are those of the input.
LEMMA RoutingIsOfInput ==
    ASSUME ReaderFollowsInput, parsing = "done"
    PROVE  RoutingFits <=> (HasKey("routing_settings") => RoutingIsWhole)
  <1>1. /\ "routing_settings" \in DOMAIN settings <=> HasKey("routing_settings")
        /\ HasKey("routing_settings") => settings["routing_settings"] = requests.dict["routing_settings"].dict
    BY SettingsAreKept DEF SettingKeys
  <1> QED
    BY <1>1 DEF RoutingFits, RoutingIsWhole

\* make_base hands the requests to Populate, unless a routing setting is missing.
LEMMA PopulateBegun == ProgramInvariant /\ BeginPopulate => ProgramInvariant'
  <1> SUFFICES ASSUME ProgramInvariant, BeginPopulate PROVE ProgramInvariant'
    OBVIOUS
  <1>1. /\ at = "reading" /\ parsing = "done" /\ mode = "make_base"
        /\ at' = IF ~RoutingFits THEN "threw" ELSE "populating"
        /\ base' = [stops |-> stops, buses |-> buses] /\ stage' = "stops"
        /\ UNCHANGED <<session, started, readerVars>> /\ UNCHANGED store /\ nodes' = nodes
        /\ UNCHANGED <<db, index, undeclared, routerVars>>
    BY DEF BeginPopulate, GoOn, KeepRouter, KeepReader, KeepRest, store
  <1>2. RoutingFits <=> (HasKey("routing_settings") => RoutingIsWhole)
    BY <1>1, RoutingIsOfInput DEF ProgramInvariant
  <1>3. /\ stops' = stops /\ buses' = buses /\ mode' = "make_base"
        /\ HasKey("routing_settings")' <=> HasKey("routing_settings")
        /\ RoutingIsWhole' <=> RoutingIsWhole
        /\ Acceptable' <=> Acceptable
    BY <1>1, InputSays
  <1>4. Forgotten
    BY <1>1 DEF ProgramInvariant, MainFollowsCatalogue
  <1>5. IsBase(base')
    BY <1>1, BaseIsDeclared, ListedBase DEF ProgramInvariant
  <1>6. RouterInvariant'
    BY <1>1, <1>4, <1>5, CatalogueBegins
  <1>7. MainFollowsCatalogue'
    <2>1. building' = "waiting"
      BY <1>1, <1>4 DEF Forgotten, routerVars
    <2> QED
      BY <1>1, <1>2, <1>3, <1>6, <2>1 DEF MainFollowsCatalogue
  <1>8. MakeBaseOutcome'
    BY <1>1, <1>2, <1>3 DEF MakeBaseOutcome, Acceptable, Ended
  <1> QED
    BY <1>1, <1>7, <1>8, MainGoesOn

\* A step of Populate, which throws for a stop nobody has declared.
LEMMA PopulateGoesOn == ProgramInvariant /\ ContinuePopulate => ProgramInvariant'
  <1> SUFFICES ASSUME ProgramInvariant, ContinuePopulate PROVE ProgramInvariant'
    OBVIOUS
  <1>1. /\ at = "populating" /\ PopulateNext
        /\ at' = CASE stage' = "failed" -> "threw" [] stage' = "populated" -> "settings" [] OTHER -> at
        /\ UNCHANGED routerVars
        /\ UNCHANGED <<session, started, readerVars>> /\ UNCHANGED store /\ nodes' = nodes
    BY DEF ContinuePopulate, KeepRouter, KeepReader, KeepRest, store
  <1>2. /\ RouterInvariant /\ mode = "make_base" /\ base = [stops |-> stops, buses |-> buses]
        /\ HasKey("routing_settings") => RoutingIsWhole
        /\ building = "waiting" /\ stage \in {"stops", "distances", "buses"}
    BY <1>1 DEF ProgramInvariant, MainFollowsCatalogue
  <1>3. parsing = "done"
    BY <1>1 DEF ProgramInvariant, MainFollowsSession, Ended
  <1>4. /\ stops' = stops /\ buses' = buses /\ mode' = "make_base"
        /\ HasKey("routing_settings")' <=> HasKey("routing_settings")
        /\ RoutingIsWhole' <=> RoutingIsWhole
        /\ Acceptable' <=> Acceptable
    BY <1>1, <1>2, InputSays
  <1>5. RouterInvariant'
    BY <1>1, <1>2, RouterStep DEF Next
  <1>6. base' = base /\ building' = "waiting" /\ stage' \in {"stops", "distances", "buses", "populated", "failed"}
    <2>1. base' = base /\ stage' \in {"stops", "distances", "buses", "populated", "failed"}
      BY <1>1, <1>2 DEF PopulateNext, NextStop, NextDistance, NextDistances, NextBus, NextLoop
    <2> QED
      BY <1>1, <1>2, <2>1 DEF routerVars
  <1>7. MainFollowsCatalogue'
    BY <1>1, <1>2, <1>4, <1>5, <1>6 DEF MainFollowsCatalogue
  <1>8. MakeBaseOutcome'
    <2>1. CASE stage' = "failed"
      <3>1. PopulateInvariant
        BY <1>2 DEF RouterInvariant
      <3>2. DeclaresBase(requests)
        BY <1>1, <1>2, BaseIsDeclared DEF ProgramInvariant
      <3>3. ~StopsAreDeclared
        BY <1>1, <1>2, <1>3, <2>1, <3>1, <3>2, PopulateFails DEF ProgramInvariant
      <3>4. at' = "threw" /\ ~Acceptable'
        BY <1>1, <1>4, <2>1, <3>3 DEF Acceptable
      <3> QED
        BY <3>4 DEF MakeBaseOutcome
    <2>2. CASE stage' # "failed"
      BY <1>1, <1>6, <2>2, OutcomeOpen DEF Ended
    <2> QED
      BY <2>1, <2>2
  <1>9. at' \in {"populating", "settings", "threw"}
    BY <1>1
  <1> QED
    BY <1>1, <1>2, <1>3, <1>7, <1>8, <1>9, MainGoesOn

\* process_requests goes on with an empty catalogue.
LEMMA PopulateSkipped == ProgramInvariant /\ SkipPopulate => ProgramInvariant'
  <1> SUFFICES ASSUME ProgramInvariant, SkipPopulate PROVE ProgramInvariant'
    OBVIOUS
  <1>1. /\ at = "reading" /\ parsing = "done" /\ mode = "process_requests" /\ at' = "settings"
        /\ stage' = "populated" /\ base' = base
        /\ UNCHANGED <<session, started, readerVars>> /\ UNCHANGED store /\ nodes' = nodes
        /\ UNCHANGED <<db, index, undeclared, routerVars>>
    BY DEF SkipPopulate, KeepRouter, KeepReader, KeepRest, store
  <1>2. Forgotten
    BY <1>1 DEF ProgramInvariant, MainFollowsCatalogue
  <1>3. base' = EmptyBase /\ building' = "waiting"
    BY <1>1, <1>2 DEF Forgotten, routerVars
  <1>4. IsBase(base')
    BY <1>3 DEF IsBase, EmptyBase
  <1>5. RouterInvariant'
    BY <1>1, <1>2, <1>3, <1>4, CatalogueBegins
  <1>6. mode' = "process_requests"
    BY <1>1, InputSays
  <1>7. MainFollowsCatalogue'
    BY <1>1, <1>3, <1>5, <1>6 DEF MainFollowsCatalogue
  <1>8. MakeBaseOutcome'
    BY <1>6, OutcomeOpen
  <1> QED
    BY <1>1, <1>7, <1>8, MainGoesOn

\* The render settings are taken as they are, or the first one that is not there throws.
LEMMA SettingsTaken == ProgramInvariant /\ TakeSettings => ProgramInvariant'
  <1> SUFFICES ASSUME ProgramInvariant, TakeSettings PROVE ProgramInvariant'
    OBVIOUS
  <1> DEFINE ends == GenerateEnds(settings["render_settings"])
  <1>1. /\ at = "settings"
        /\ IF HasKey("render_settings") THEN at' = IF ends = "read" THEN "handler" ELSE ends
           ELSE at' = "handler"
        /\ UNCHANGED <<populateVars, routerVars>>
        /\ UNCHANGED <<session, started, readerVars>> /\ UNCHANGED store /\ nodes' = nodes
    BY DEF TakeSettings, KeepCatalogue, KeepRouter, KeepReader, KeepRest, store
  <1>2. parsing = "done" /\ mode \in {"make_base", "process_requests"}
    BY <1>1 DEF ProgramInvariant, MainFollowsSession, Ended
  <1>3. /\ stops' = stops /\ buses' = buses /\ mode' = mode
        /\ HasKey("routing_settings")' <=> HasKey("routing_settings")
        /\ HasKey("render_settings")' <=> HasKey("render_settings")
        /\ HasKey("serialization_settings")' <=> HasKey("serialization_settings")
        /\ requests' = requests
        /\ RoutingIsWhole' <=> RoutingIsWhole
        /\ RenderFits' <=> RenderFits
        /\ Acceptable' <=> Acceptable
    BY <1>1, InputSays
  <1> DEFINE render == requests.dict["render_settings"].dict
  <1>4. HasKey("render_settings") => settings["render_settings"] = render
    BY <1>2, SettingsAreKept DEF ProgramInvariant, SettingKeys
  <1>5. /\ ends \in {"read", "threw", "undefined"}
        /\ HasKey("render_settings") => (ends = "read" <=> RenderFits)
        /\ HasKey("render_settings") /\ ends = "undefined" =>
                \E key \in {"bus_label_offset", "stop_label_offset"} :
                    IsArray(render[key]) /\ render[key].array = << >>
    <2>1. ends \in {"read", "threw", "undefined"}
      BY RenderEnds
    <2>2. HasKey("render_settings") => (ends = "read" <=> RenderFits)
      BY <1>4, RenderEnds, WholeIsOfKinds
    <2>3. HasKey("render_settings") /\ ends = "undefined" =>
                \E key \in {"bus_label_offset", "stop_label_offset"} :
                    IsArray(render[key]) /\ render[key].array = << >>
      BY <1>4, RenderEnds
    <2> QED
      BY <2>1, <2>2, <2>3
  <1> HIDE DEF ends
  <1>6. /\ RouterInvariant /\ stage = "populated" /\ building = "waiting"
        /\ IF mode = "make_base"
           THEN /\ base = [stops |-> stops, buses |-> buses]
                /\ HasKey("routing_settings") => RoutingIsWhole
           ELSE base = EmptyBase
    BY <1>1 DEF ProgramInvariant, MainFollowsCatalogue
  <1>7. RouterInvariant' /\ stage' = "populated" /\ building' = "waiting" /\ base' = base
    BY <1>1, <1>6, RouterKept DEF populateVars, routerVars
  <1>8. MainFollowsCatalogue'
    BY <1>1, <1>3, <1>5, <1>6, <1>7 DEF MainFollowsCatalogue
  <1>9. MakeBaseOutcome'
    <2>1. CASE at' = "handler"
      BY <2>1, OutcomeOpen DEF Ended
    <2>2. CASE at' = "threw"
      BY <1>1, <1>3, <1>5, <2>2 DEF MakeBaseOutcome, Acceptable
    <2>3. CASE at' = "undefined"
      <3>1. ~Acceptable'
        BY <1>1, <1>3, <1>5, <2>3 DEF Acceptable
      <3>2. \E key \in {"bus_label_offset", "stop_label_offset"} :
                LET offset == requests'.dict["render_settings"].dict[key]
                IN  IsArray(offset) /\ offset.array = << >>
        BY <1>1, <1>3, <1>5, <2>3
      <3> QED
        BY <2>3, <3>1, <3>2 DEF MakeBaseOutcome
    <2> QED
      BY <1>1, <1>5, <2>1, <2>2, <2>3
  <1>10. at' \in {"handler", "threw", "undefined"}
    BY <1>1, <1>5
  <1> QED
    BY <1>1, <1>2, <1>8, <1>9, <1>10, MainGoesOn

\* A step of the router, which throws for a road nobody has declared.
LEMMA HandlerMade == ProgramInvariant /\ MakeHandler => ProgramInvariant'
  <1> SUFFICES ASSUME ProgramInvariant, MakeHandler PROVE ProgramInvariant'
    OBVIOUS
  <1>1. /\ at = "handler" /\ RouterNext
        /\ at' = CASE building' = "failed" -> "threw" [] building' = "ready"  -> "opening" [] OTHER -> at
        /\ UNCHANGED <<session, started, readerVars>> /\ UNCHANGED store /\ nodes' = nodes
    BY DEF MakeHandler, KeepReader, KeepRest, store
  <1>2. parsing = "done" /\ mode \in {"make_base", "process_requests"}
    BY <1>1 DEF ProgramInvariant, MainFollowsSession, Ended
  <1>3. /\ stops' = stops /\ buses' = buses /\ mode' = mode
        /\ HasKey("routing_settings")' <=> HasKey("routing_settings")
        /\ HasKey("render_settings")' <=> HasKey("render_settings")
        /\ RoutingIsWhole' <=> RoutingIsWhole
        /\ RenderFits' <=> RenderFits
        /\ Acceptable' <=> Acceptable
        /\ RoadsAreNatural' <=> RoadsAreNatural
    BY <1>1, InputSays
  <1>4. /\ RouterInvariant /\ stage = "populated" /\ building \notin {"ready", "failed"}
        /\ IF mode = "make_base"
           THEN /\ base = [stops |-> stops, buses |-> buses]
                /\ HasKey("routing_settings") => RoutingIsWhole
                /\ HasKey("render_settings") => RenderFits
           ELSE base = EmptyBase
    BY <1>1 DEF ProgramInvariant, MainFollowsCatalogue
  <1>5. RouterInvariant'
    BY <1>1, <1>4, RouterStep DEF Next
  <1>6. UNCHANGED populateVars
    BY <1>1 DEF RouterNext, StartRouter, AddTransfer, EndTransfers, AddWait, EndWaits, CreateLineEdges,
                KeepFastest, AddRide, MakeRouter
  <1>7. stage' = stage /\ base' = base
    BY <1>6 DEF populateVars
  <1>8. at' = "handler" => building' \notin {"ready", "failed"}
    BY <1>1
  <1>9. MainFollowsCatalogue'
    BY <1>1, <1>3, <1>4, <1>5, <1>7, <1>8 DEF MainFollowsCatalogue
  <1>10. MakeBaseOutcome'
    <2>1. CASE at' = "threw" /\ mode = "make_base"
      <3>1. building' = "failed"
        BY <1>1, <2>1
      <3>2. DeclaresBase(requests)
        BY <1>1, <2>1, BaseIsDeclared DEF ProgramInvariant
      <3>3. \/ \E bus \in LastBuses :
                ~(RoadsAreKnown(bus.stops) /\ (bus.is_roundtrip \/ RoadsAreKnown(Reverse(bus.stops))))
            \/ ~RoadsAreNatural
        BY <1>1, <1>2, <1>4, <2>1, <3>1, <3>2, RouterFails DEF ProgramInvariant
      <3>4. ~(Acceptable /\ RoadsAreNatural)
        BY <3>3 DEF Acceptable
      <3>5. ~(Acceptable' /\ RoadsAreNatural')
        BY <1>3, <3>4
      <3> QED
        BY <2>1, <3>5 DEF MakeBaseOutcome
    <2>2. CASE at' # "threw" \/ mode # "make_base"
      BY <1>1, <1>3, <2>2, OutcomeOpen DEF Ended
    <2> QED
      BY <2>1, <2>2
  <1>11. at' \in {"handler", "opening", "threw"}
    BY <1>1
  <1> QED
    BY <1>1, <1>2, <1>9, <1>10, <1>11, MainGoesOn

\* The name of the file is where the input says.
LEMMA FileIsNamed ==
    ASSUME ReaderFollowsInput, parsing = "done"
    PROVE  /\ FileEnds \in {"read", "threw", "undefined"}
           /\ FileEnds = "read" <=> NamesFile
           /\ FileEnds = "undefined" <=> ~HasKey("serialization_settings")
  <1>1. /\ "serialization_settings" \in DOMAIN settings <=> HasKey("serialization_settings")
        /\ HasKey("serialization_settings") =>
                settings["serialization_settings"] = requests.dict["serialization_settings"].dict
    BY SettingsAreKept DEF SettingKeys
  <1> QED
    BY <1>1 DEF FileEnds, NamesFile

\* A process whose input names no file.
LEMMA FileNotOpened == ProgramInvariant /\ NoFile => ProgramInvariant'
  <1> SUFFICES ASSUME ProgramInvariant, NoFile PROVE ProgramInvariant'
    OBVIOUS
  <1>1. /\ at = "opening" /\ FileEnds # "read" /\ at' = FileEnds
        /\ UNCHANGED <<session, started, readerVars>> /\ UNCHANGED store /\ nodes' = nodes
    BY DEF NoFile, KeepReader, KeepRest, store
  <1>2. parsing = "done" /\ mode \in {"make_base", "process_requests"}
    BY <1>1 DEF ProgramInvariant, MainFollowsSession, Ended
  <1>3. /\ FileEnds \in {"read", "threw", "undefined"}
        /\ FileEnds = "read" <=> NamesFile
        /\ FileEnds = "undefined" <=> ~HasKey("serialization_settings")
    BY <1>2, FileIsNamed DEF ProgramInvariant
  <1>4. /\ HasKey("serialization_settings")' <=> HasKey("serialization_settings")
        /\ Acceptable' <=> Acceptable
    BY <1>1, InputSays
  <1>5. ~Acceptable
    BY <1>1, <1>3 DEF Acceptable
  <1>6. MakeBaseOutcome'
    BY <1>1, <1>3, <1>4, <1>5 DEF MakeBaseOutcome
  <1>7. at' \in {"threw", "undefined"} /\ MainFollowsCatalogue'
    BY <1>1, <1>3 DEF MainFollowsCatalogue
  <1> QED
    BY <1>1, <1>2, <1>6, <1>7, MainGoesOn

\* Where main opens the file there is nothing left in the input that can fail.
LEMMA OpeningAccepts ==
    ASSUME ProgramInvariant, at \in {"opening", "writing"}, mode = "make_base", FileEnds = "read"
    PROVE  Acceptable
  <1>1. parsing = "done"
    BY DEF ProgramInvariant, MainFollowsSession, Ended
  <1>2. /\ RouterInvariant /\ base = [stops |-> stops, buses |-> buses] /\ building = "ready"
        /\ HasKey("routing_settings") => RoutingIsWhole
        /\ HasKey("render_settings") => RenderFits
    BY DEF ProgramInvariant, MainFollowsCatalogue
  <1>3. WellFormed(requests)
    BY <1>1, ReadingIsSorted DEF ProgramInvariant, RequestsAreSorted
  <1>4. DeclaresBase(requests)
    BY BaseIsDeclared DEF ProgramInvariant
  <1>5. /\ StopsAreDeclared
        /\ \A bus \in LastBuses :
            RoadsAreKnown(bus.stops) /\ (bus.is_roundtrip \/ RoadsAreKnown(Reverse(bus.stops)))
    BY <1>1, <1>2, <1>4, BuiltIsDeclared DEF ProgramInvariant
  <1>6. NamesFile
    BY <1>1, FileIsNamed DEF ProgramInvariant
  <1> QED
    BY <1>2, <1>3, <1>5, <1>6 DEF Acceptable

\* The file is emptied, behind the last check of the input.
LEMMA FileOpened == ProgramInvariant /\ OpenForWriting => ProgramInvariant'
  <1> SUFFICES ASSUME ProgramInvariant, OpenForWriting PROVE ProgramInvariant'
    OBVIOUS
  <1>1. /\ at = "opening" /\ FileEnds = "read" /\ mode = "make_base" /\ at' = "writing"
        /\ files' = WithFile(files, EmptyMessage)
        /\ saved' = [name \in DOMAIN saved \ {DatabaseFile} |-> saved[name]]
        /\ UNCHANGED <<populateVars, routerVars>>
        /\ UNCHANGED <<session, started, readerVars>> /\ nodes' = nodes
    BY DEF OpenForWriting, KeepCatalogue, KeepRouter, KeepReader, KeepRest
  <1>2. parsing = "done" /\ Running /\ nodes = << >>
    BY <1>1 DEF ProgramInvariant, MainFollowsSession, Ended, Running
  <1>3. MainFollowsSession'
    BY <1>1, <1>2, SessionKept DEF ProgramInvariant, Ended
  <1>4. /\ stops' = stops /\ buses' = buses /\ mode' = mode /\ FileEnds' = FileEnds
        /\ HasKey("routing_settings")' <=> HasKey("routing_settings")
        /\ HasKey("render_settings")' <=> HasKey("render_settings")
        /\ RoutingIsWhole' <=> RoutingIsWhole
        /\ RenderFits' <=> RenderFits
    BY <1>1, InputSays
  <1>5. /\ RouterInvariant /\ base = [stops |-> stops, buses |-> buses] /\ building = "ready"
        /\ HasKey("routing_settings") => RoutingIsWhole
        /\ HasKey("render_settings") => RenderFits
        /\ stage = "populated"
    BY <1>1 DEF ProgramInvariant, MainFollowsCatalogue
  <1>6. RouterInvariant' /\ base' = base /\ building' = building /\ stage' = stage
    BY <1>1, <1>5, RouterKept DEF populateVars, routerVars
  <1>7. MainFollowsCatalogue'
    BY <1>1, <1>4, <1>5, <1>6 DEF MainFollowsCatalogue
  <1>8. FilesHoldBases'
    <2>1. FilesHoldBases
      BY DEF ProgramInvariant
    <2>2. DOMAIN saved' = DOMAIN saved \ {DatabaseFile}
          /\ \A name \in DOMAIN saved' : saved'[name] = saved[name]
      BY <1>1
    <2>3. CASE DatabaseFile \in FileName
      <3>1. /\ DOMAIN files' = DOMAIN files \cup {DatabaseFile}
            /\ files'[DatabaseFile] = EmptyMessage
            /\ \A name \in DOMAIN files \ {DatabaseFile} : files'[name] = files[name]
        BY <1>1, <2>3 DEF WithFile
      <3>2. DOMAIN saved' \subseteq DOMAIN files' /\ DOMAIN files' \subseteq FileName
        BY <2>1, <2>2, <2>3, <3>1 DEF FilesHoldBases
      <3>3. \A name \in DOMAIN files' \ DOMAIN saved' : files'[name] = EmptyMessage
        BY <2>1, <2>2, <3>1 DEF FilesHoldBases
      <3>4. \A name \in DOMAIN saved' : files'[name] = files[name] /\ saved'[name] = saved[name] /\ name \in DOMAIN saved
        BY <2>1, <2>2, <3>1 DEF FilesHoldBases
      <3> QED
        BY <2>1, <3>2, <3>3, <3>4 DEF FilesHoldBases
    <2>4. CASE DatabaseFile \notin FileName
      <3>1. files' = files
        BY <1>1, <2>4 DEF WithFile
      <3>2. DOMAIN saved' = DOMAIN saved
        BY <2>1, <2>2, <2>4 DEF FilesHoldBases
      <3> QED
        BY <2>1, <2>2, <3>1, <3>2 DEF FilesHoldBases
    <2> QED
      BY <2>3, <2>4
  <1>9. MainFollowsFile' /\ LoadingFollowsFile' /\ MakeBaseOutcome'
    BY <1>1, NothingWritten, NoAnswerYet, OutcomeOpen DEF Ended
  <1> QED
    BY <1>1, <1>3, <1>7, <1>8, <1>9, ReaderKept DEF ProgramInvariant

\* A bus of a populated catalogue is as it was requested, but for its stops.
LEMMA RequestedBus ==
    ASSUME PopulateInvariant, stage = "populated"
    PROVE  /\ Len(base.buses) \in Nat /\ DOMAIN base.buses = 1 .. Len(base.buses)
           /\ BusPtrs(db) = 1 .. Len(base.buses)
           /\ \A p \in BusPtrs(db) :
                /\ db.buses[p].name = base.buses[p].name
                /\ db.buses[p].is_roundtrip = base.buses[p].is_roundtrip
                /\ base.buses[p].name \in BusName
  <1>1. /\ Len(base.buses) \in Nat /\ DOMAIN base.buses = 1 .. Len(base.buses)
        /\ \A p \in DOMAIN base.buses : IsBusRequest(base.buses[p])
    BY DEF PopulateInvariant, IsBase
  <1>2. Len(db.buses) = Len(base.buses) /\ \A p \in BusPtrs(db) : db.buses[p] = BusAt(p)
    BY DEF PopulateInvariant, BusesFollowRequests
  <1>3. DOMAIN db.buses = 1 .. Len(db.buses)
    BY DEF PopulateInvariant, PopulateTypeOK
  <1>4. BusPtrs(db) = 1 .. Len(base.buses)
    BY <1>1, <1>2, <1>3 DEF BusPtrs
  <1>5. ASSUME NEW p \in BusPtrs(db)
        PROVE  /\ db.buses[p].name = base.buses[p].name
               /\ db.buses[p].is_roundtrip = base.buses[p].is_roundtrip
               /\ base.buses[p].name \in BusName
    <2>1. db.buses[p] = BusAt(p) /\ IsBusRequest(base.buses[p])
      BY <1>1, <1>2, <1>4
    <2>2. BusAt(p).name = base.buses[p].name /\ BusAt(p).is_roundtrip = base.buses[p].is_roundtrip
      BY DEF BusAt
    <2> QED
      BY <2>1, <2>2 DEF IsBusRequest
  <1> QED
    BY <1>1, <1>4, <1>5

\* The last of the buses of a name that are requested is the one its name leads to.
LEMMA LastIsHeld ==
    ASSUME PopulateInvariant, stage = "populated", NEW ptr \in GetBusesHolder(db)
    PROVE  /\ ptr \in DOMAIN base.buses /\ db.buses[ptr].name = base.buses[ptr].name
           /\ db.buses[ptr].name \in BusName /\ db.bus_names[db.buses[ptr].name] = ptr
           /\ LineOf(db.buses[ptr]) = LineOf(base.buses[ptr])
           /\ LastNamed(base.buses, db.buses[ptr].name) = base.buses[ptr]
  <1>1. /\ Len(base.buses) \in Nat /\ DOMAIN base.buses = 1 .. Len(base.buses)
        /\ BusPtrs(db) = DOMAIN base.buses
    BY RequestedBus
  <1>2. \A p \in DOMAIN base.buses :
            db.buses[p].name = base.buses[p].name /\ db.buses[p].is_roundtrip = base.buses[p].is_roundtrip
    BY RequestedBus
  <1>3. PICK name \in BusName : ptr = db.bus_names[name] /\ ptr # Null
    BY DEF GetBusesHolder
  <1>4. /\ ptr \in BusPtrs(db) /\ db.buses[ptr].name = name
        /\ \A p \in BusPtrs(db) : db.buses[p].name = name => p <= ptr
    BY <1>3 DEF PopulateInvariant, NamesLeadToLastBuses
  <1> DEFINE same == {i \in DOMAIN base.buses : base.buses[i].name = name}
  <1>5. ptr \in same /\ \A i \in same : i \in Int /\ i <= ptr
    BY <1>1, <1>2, <1>4 DEF BusPtrs
  <1> HIDE DEF same
  <1>6. Max(same) = ptr
    <2>1. \A x \in same : (\A y \in same : x >= y) => x = ptr
      BY <1>5
    <2>2. \A y \in same : ptr >= y
      BY <1>5
    <2>3. ptr \in same
      BY <1>5
    <2> QED
      BY <2>1, <2>2, <2>3 DEF Max
  <1>7. LastNamed(base.buses, name) = base.buses[ptr]
    BY <1>6 DEF LastNamed, same
  <1>8. ptr \in DOMAIN base.buses
    BY <1>1, <1>4 DEF BusPtrs
  <1> QED
    BY <1>2, <1>3, <1>4, <1>7, <1>8 DEF LineOf

\* The lines of a populated catalogue are the last requests of their names.
LEMMA LinesAreLast ==
    ASSUME PopulateInvariant, stage = "populated"
    PROVE  {LineOf(db.buses[ptr]) : ptr \in GetBusesHolder(db)} = LastLines(base.buses)
  <1>1. /\ DOMAIN base.buses = BusPtrs(db)
        /\ \A p \in BusPtrs(db) : db.buses[p].name = base.buses[p].name /\ base.buses[p].name \in BusName
    BY RequestedBus
  <1> DEFINE names == {bus.name : bus \in Range(base.buses)}
  <1>2. \A ptr \in GetBusesHolder(db) : db.buses[ptr].name \in names
    BY LastIsHeld DEF Range
  <1>3. ASSUME NEW name \in names
        PROVE  \E ptr \in GetBusesHolder(db) : db.buses[ptr].name = name
    <2>1. PICK p \in BusPtrs(db) : db.buses[p].name = name /\ name \in BusName
      BY <1>1 DEF Range
    <2>2. db.bus_names[name] # Null /\ db.buses[db.bus_names[name]].name = name
      BY <2>1 DEF PopulateInvariant, NamesLeadToLastBuses
    <2> QED
      BY <2>1, <2>2 DEF GetBusesHolder
  <1>4. LastLines(base.buses) = {LineOf(LastNamed(base.buses, name)) : name \in names}
    BY DEF LastLines, LineOf
  <1>5. \A ptr \in GetBusesHolder(db) : LineOf(db.buses[ptr]) = LineOf(LastNamed(base.buses, db.buses[ptr].name))
    BY LastIsHeld
  <1> HIDE DEF names
  <1> QED
    BY <1>2, <1>3, <1>4, <1>5

\* What is written holds the lines of the requests, one for each name.
LEMMA MessageHoldsLines ==
    ASSUME PopulateInvariant, stage = "populated"
    PROVE  /\ {LineOf(bus) : bus \in Message(renderer).bus} = LastLines(base.buses)
           /\ \A bus \in Message(renderer).bus : bus.name \in BusName
           /\ \A bus, other \in Message(renderer).bus : bus.name = other.name => bus = other
           /\ Message(renderer).map_settings = ConvertSettings(renderer)
  <1>1. /\ Message(renderer).bus = {ConvertBus(db.buses[ptr]) : ptr \in GetBusesHolder(db)}
        /\ Message(renderer).map_settings = ConvertSettings(renderer)
    BY DEF Message
  <1>2. \A bus : ConvertBus(bus).name = bus.name /\ LineOf(ConvertBus(bus)) = LineOf(bus)
    BY DEF ConvertBus, LineOf
  <1>3. \A ptr \in GetBusesHolder(db) :
            db.buses[ptr].name \in BusName /\ db.bus_names[db.buses[ptr].name] = ptr
    BY LastIsHeld
  <1>4. {LineOf(bus) : bus \in Message(renderer).bus} = {LineOf(db.buses[ptr]) : ptr \in GetBusesHolder(db)}
    BY <1>1, <1>2
  <1>5. {LineOf(bus) : bus \in Message(renderer).bus} = LastLines(base.buses)
    BY <1>4, LinesAreLast
  <1>6. \A bus \in Message(renderer).bus : bus.name \in BusName
    BY <1>1, <1>2, <1>3
  <1>7. ASSUME NEW bus \in Message(renderer).bus, NEW other \in Message(renderer).bus, bus.name = other.name
        PROVE  bus = other
    <2>1. PICK p \in GetBusesHolder(db) : bus = ConvertBus(db.buses[p])
      BY <1>1
    <2>2. PICK q \in GetBusesHolder(db) : other = ConvertBus(db.buses[q])
      BY <1>1
    <2>3. p = q
      BY <1>2, <1>3, <1>7, <2>1, <2>2
    <2> QED
      BY <2>1, <2>2, <2>3
  <1> QED
    BY <1>1, <1>5, <1>6, <1>7

\* Serialize, with which make_base returns.
LEMMA BaseWritten == ProgramInvariant /\ Serialize => ProgramInvariant'
  <1> SUFFICES ASSUME ProgramInvariant, Serialize PROVE ProgramInvariant'
    OBVIOUS
  <1> DEFINE given == [settings |-> renderer, base |-> base]
  <1>1. /\ at = "writing" /\ at' = "returned" /\ renderer' = renderer /\ nodes' = nodes
        /\ files' = WithFile(files, Message(renderer)) /\ saved' = WithFile(saved, given)
        /\ UNCHANGED <<populateVars, routerVars>>
        /\ UNCHANGED <<session, started, readerVars>>
    BY DEF Serialize, KeepCatalogue, KeepRouter, KeepReader, KeepRest
  <1>2. parsing = "done" /\ Running /\ nodes = << >>
    BY <1>1 DEF ProgramInvariant, MainFollowsSession, Ended, Running
  <1>3. MainFollowsSession'
    BY <1>1, <1>2, SessionKept DEF ProgramInvariant, Ended
  <1>4. /\ RouterInvariant /\ stage = "populated" /\ mode = "make_base" /\ FileEnds = "read"
    BY <1>1 DEF ProgramInvariant, MainFollowsCatalogue
  <1>5. /\ mode' = mode /\ FileEnds' = FileEnds /\ DatabaseFile' = DatabaseFile /\ parsing' = parsing
        /\ Acceptable' <=> Acceptable
    BY <1>1, InputSays
  <1>6. PopulateInvariant /\ PopulateInvariant' /\ stage' = "populated"
    BY <1>1, <1>4, PopulateKept DEF RouterInvariant, populateVars
  <1>7. Message(renderer)' = Message(renderer)
    <2>1. db' = db /\ graph' = graph
      BY <1>1 DEF populateVars, routerVars
    <2> QED
      BY <1>1, <2>1 DEF Message, GetStopId, ConvertAdjacent, ConvertBus, ConvertGraph
  <1> DEFINE message == Message(renderer)
  <1>8. /\ {LineOf(bus) : bus \in message.bus} = LastLines(base.buses)
        /\ \A bus \in message.bus : bus.name \in BusName
        /\ \A bus, other \in message.bus : bus.name = other.name => bus = other
        /\ message.map_settings = ConvertSettings(renderer)
    BY <1>4, <1>6, MessageHoldsLines
  <1>9. given.settings = renderer /\ given.base = base
    OBVIOUS
  <1>10. DatabaseFile \in FileName =>
            /\ DOMAIN files' = DOMAIN files \cup {DatabaseFile} /\ DOMAIN saved' = DOMAIN saved \cup {DatabaseFile}
            /\ files'[DatabaseFile] = message /\ saved'[DatabaseFile] = given
            /\ \A name \in DOMAIN files \ {DatabaseFile} : files'[name] = files[name]
            /\ \A name \in DOMAIN saved \ {DatabaseFile} : saved'[name] = saved[name]
    BY <1>1 DEF WithFile
  <1>11. FilesHoldBases'
    <2>1. FilesHoldBases
      BY DEF ProgramInvariant
    <2>2. CASE DatabaseFile \in FileName
      <3> HIDE DEF message, given
      <3>1. DOMAIN saved' \subseteq DOMAIN files' /\ DOMAIN files' \subseteq FileName
        BY <1>10, <2>1, <2>2 DEF FilesHoldBases
      <3>2. \A name \in DOMAIN files' \ DOMAIN saved' : files'[name] = EmptyMessage
        BY <1>10, <2>1, <2>2 DEF FilesHoldBases
      <3>3. ASSUME NEW name \in DOMAIN saved'
            PROVE  /\ {LineOf(bus) : bus \in files'[name].bus} = LastLines(saved'[name].base.buses)
                   /\ \A bus \in files'[name].bus : bus.name \in BusName
                   /\ \A bus, other \in files'[name].bus : bus.name = other.name => bus = other
                   /\ files'[name].map_settings = ConvertSettings(saved'[name].settings)
        <4>1. CASE name = DatabaseFile
          <5>1. files'[name] = message /\ saved'[name] = given
            BY <1>10, <2>2, <4>1
          <5> QED
            BY <1>8, <1>9, <5>1
        <4>2. CASE name # DatabaseFile
          <5>1. name \in DOMAIN saved /\ files'[name] = files[name] /\ saved'[name] = saved[name]
            BY <1>10, <2>1, <2>2, <3>3, <4>2 DEF FilesHoldBases
          <5> QED
            BY <2>1, <5>1 DEF FilesHoldBases
        <4> QED
          BY <4>1, <4>2
      <3> QED
        BY <3>1, <3>2, <3>3 DEF FilesHoldBases
    <2>3. CASE DatabaseFile \notin FileName
      BY <1>1, <2>1, <2>3, FilesKept DEF WithFile, store
    <2> QED
      BY <2>2, <2>3
  <1>12. MainFollowsFile'
    BY <1>2, <1>4, <1>5, <1>6, <1>7, <1>10 DEF MainFollowsFile
  <1>13. MakeBaseOutcome'
    BY <1>1, <1>4, <1>5, OpeningAccepts DEF MakeBaseOutcome
  <1>14. MainFollowsCatalogue' /\ LoadingFollowsFile'
    BY <1>1, <1>2, NoAnswerYet DEF MainFollowsCatalogue
  <1> QED
    BY <1>1, <1>3, <1>11, <1>12, <1>13, <1>14, ReaderKept DEF ProgramInvariant

-----------------------------------------------------------------------------
(* process_requests *)

\* The message that Deserialize reads, with the lines of a base and one for each name.
LEMMA LoadedHoldsLines ==
    ASSUME FilesHoldBases
    PROVE  /\ \A bus \in Loaded.bus : bus.name \in BusName
           /\ \A bus, other \in Loaded.bus : bus.name = other.name => bus = other
           /\ {LineOf(bus) : bus \in Loaded.bus} =
                IF IsWhole THEN LastLines(saved[DatabaseFile].base.buses) ELSE {}
  <1>1. EmptyMessage.bus = {}
    BY DEF EmptyMessage
  <1>2. CASE IsWhole
    BY <1>2 DEF FilesHoldBases, IsWhole, Loaded
  <1>3. CASE ~IsWhole
    <2>1. Loaded = EmptyMessage
      BY <1>3 DEF FilesHoldBases, IsWhole, Loaded
    <2> QED
      BY <1>1, <1>3, <2>1
  <1> QED
    BY <1>2, <1>3

\* The message is the same until the next process.
LEMMA LoadedKept ==
    ASSUME UNCHANGED <<files, settings>>
    PROVE  Loaded' = Loaded
  BY DEF Loaded, DatabaseFile

\* A sequence without elements has elements of any kind.
LEMMA NoElements ==
    ASSUME NEW S, NEW s \in Seq(S), DOMAIN s = {}
    PROVE  s \in Seq({})
  <1>1. Len(s) = 0
    <2>1. Len(s) \in Nat /\ DOMAIN s = 1 .. Len(s)
      OBVIOUS
    <2>2. 1 \notin 1 .. Len(s)
      BY <2>1
    <2> QED
      BY <2>1, <2>2
  <1> QED
    BY <1>1

\* Deserialize begins, over an empty catalogue.
LEMMA FileRead == ProgramInvariant /\ OpenForReading => ProgramInvariant'
  <1> SUFFICES ASSUME ProgramInvariant, OpenForReading PROVE ProgramInvariant'
    OBVIOUS
  <1>1. /\ at = "opening" /\ FileEnds = "read" /\ mode = "process_requests"
        /\ at' \in {"loading", "undefined"} /\ unread' = Loaded.bus /\ files' = files
        /\ UNCHANGED <<populateVars, routerVars>> /\ UNCHANGED store /\ nodes' = nodes
        /\ UNCHANGED <<session, started, readerVars>>
    BY DEF OpenForReading, KeepCatalogue, KeepRouter, KeepReader, KeepRest, store
  <1>2. parsing = "done" /\ Running /\ nodes = << >>
    BY <1>1 DEF ProgramInvariant, MainFollowsSession, Ended, Running
  <1>3. MainFollowsSession'
    BY <1>1, <1>2, SessionKept DEF ProgramInvariant, Ended
  <1>4. /\ mode' = mode /\ FileEnds' = FileEnds /\ settings' = settings
    BY <1>1, InputSays
  <1>5. PopulateInvariant /\ stage = "populated" /\ base = EmptyBase
    BY <1>1 DEF ProgramInvariant, MainFollowsCatalogue, RouterInvariant
  <1>6. LoadingFollowsFile'
    <2>1. db' = db /\ Loaded' = Loaded
      BY <1>1, <1>4, LoadedKept DEF populateVars
    <2>2. Len(base.buses) = 0
      BY <1>5 DEF EmptyBase
    <2>3. BusPtrs(db) = {}
      BY <1>5, <2>2, RequestedBus
    <2>4. db.buses \in Seq({}) /\ DOMAIN db.bus_names = BusName /\ DOMAIN db = DOMAIN EmptyCatalogue
      <3>1. db.buses \in Seq(Bus) /\ DOMAIN db.bus_names = BusName /\ DOMAIN db = DOMAIN EmptyCatalogue
        BY <1>5 DEF PopulateInvariant, PopulateTypeOK
      <3>5. db.buses \in Seq({})
        BY <2>3, <3>1, NoElements DEF BusPtrs
      <3> QED
        BY <3>1, <3>5
    <2>5. \A name \in BusName : db.bus_names[name] = Null
      BY <1>5, <2>3 DEF PopulateInvariant, NamesLeadToLastBuses
    <2>6. unread' = Loaded' .bus
      BY <1>1, <2>1
    <2>7. Loaded'.bus \ unread' = {} /\ {Added(bus) : bus \in {}} = {}
      BY <2>6
    <2>8. {Added(bus) : bus \in (Loaded'.bus \ unread')} = {}
      BY <2>7
    <2> QED
      BY <1>1, <1>4, <2>1, <2>4, <2>5, <2>6, <2>7, <2>8 DEF LoadingFollowsFile, Answering
  <1>7. MainFollowsFile' /\ MakeBaseOutcome' /\ MainFollowsCatalogue'
    BY <1>1, <1>4, NothingWritten, OutcomeOpen DEF MainFollowsCatalogue
  <1> QED
    BY <1>1, <1>3, <1>6, <1>7, ReaderKept, FilesKept DEF ProgramInvariant

\* Deserialize adds a bus, under a name no other bus of the file has.
LEMMA BusLoaded == ProgramInvariant /\ LoadBus => ProgramInvariant'
  <1> SUFFICES ASSUME ProgramInvariant, LoadBus PROVE ProgramInvariant'
    OBVIOUS
  <1>1. PICK bus \in unread :
            /\ db' = AddBus(db, Added(bus)) /\ unread' = unread \ {bus}
            /\ at = "loading" /\ at' = at /\ files' = files /\ nodes' = nodes
            /\ UNCHANGED store /\ UNCHANGED <<session, started, readerVars>>
    BY DEF LoadBus, Added, KeepReader, KeepRest, store
  <1>2. parsing = "done" /\ Running /\ nodes = << >>
    BY <1>1 DEF ProgramInvariant, MainFollowsSession, Ended, Running
  <1>3. /\ mode' = mode /\ FileEnds' = FileEnds /\ settings' = settings
    BY <1>1, InputSays
  <1> DEFINE read == Loaded.bus \ unread
  <1>4. /\ mode = "process_requests" /\ FileEnds = "read" /\ unread \subseteq Loaded.bus
        /\ DOMAIN db = DOMAIN EmptyCatalogue /\ DOMAIN db.bus_names = BusName
        /\ db.buses \in Seq({Added(b) : b \in read})
        /\ \A b \in read : db.bus_names[b.name] # Null
        /\ \A name \in BusName : db.bus_names[name] # Null =>
                db.bus_names[name] \in BusPtrs(db) /\ db.buses[db.bus_names[name]].name = name
    BY <1>1 DEF ProgramInvariant, LoadingFollowsFile
  <1>5. MainFollowsSession'
    BY <1>1, <1>2, <1>4, SessionKept DEF ProgramInvariant
  <1>6. LoadingFollowsFile'
    <2> DEFINE new == Len(db.buses) + 1
    <2>1. Loaded' = Loaded
      BY <1>1, <1>3, LoadedKept
    <2>2. Loaded'.bus \ unread' = read \cup {bus} /\ unread' \subseteq Loaded'.bus
      BY <1>1, <1>4, <2>1
    <2>3. /\ DOMAIN db' = DOMAIN EmptyCatalogue /\ db'.buses = Append(db.buses, Added(bus))
          /\ db'.bus_names = [db.bus_names EXCEPT ![bus.name] = new]
      <3>1. LET more == AddBus(db, Added(bus))
            IN  /\ DOMAIN more = DOMAIN EmptyCatalogue /\ more.buses = Append(db.buses, Added(bus))
                /\ more.bus_names = [db.bus_names EXCEPT ![Added(bus).name] = Len(db.buses) + 1]
        BY <1>4, AddBusFields
      <3>2. Added(bus).name = bus.name
        BY DEF Added
      <3> QED
        BY <1>1, <3>1, <3>2
    <2>4. bus.name \in BusName /\ Added(bus).name = bus.name
      BY <1>1, <1>4, LoadedHoldsLines DEF ProgramInvariant, Added
    <2>5. db'.buses \in Seq({Added(b) : b \in (Loaded'.bus \ unread')})
      <3>1. {Added(b) : b \in (Loaded'.bus \ unread')} = {Added(b) : b \in read} \cup {Added(bus)}
        BY <2>2
      <3>2. \A S, s, e : s \in Seq(S) => Append(s, e) \in Seq(S \cup {e})
        OBVIOUS
      <3> HIDE DEF read
      <3>3. Append(db.buses, Added(bus)) \in Seq({Added(b) : b \in read} \cup {Added(bus)})
        BY <1>4, <3>2
      <3> QED
        BY <2>3, <3>1, <3>3
    <2>6. /\ BusPtrs(db) = 1 .. Len(db.buses) /\ Len(db.buses) \in Nat
          /\ BusPtrs(db') = 1 .. new
          /\ \A ptr \in BusPtrs(db) : db'.buses[ptr] = db.buses[ptr]
          /\ db'.buses[new] = Added(bus)
      <3> HIDE DEF read
      <3> QED
        BY <1>4, <2>3 DEF BusPtrs
    <2>7. new # Null
      BY <2>6, PopulateAssumption
    <2>8. /\ DOMAIN db'.bus_names = BusName /\ db'.bus_names[bus.name] = new
          /\ \A name \in BusName \ {bus.name} : db'.bus_names[name] = db.bus_names[name]
      BY <1>4, <2>3, <2>4
    <2> HIDE DEF new
    <2>9. \A b \in (Loaded'.bus \ unread') : db'.bus_names[b.name] # Null
      <3>1. ASSUME NEW b \in read \cup {bus} PROVE db'.bus_names[b.name] # Null
        <4>1. CASE b.name = bus.name
          BY <2>7, <2>8, <4>1
        <4>2. CASE b.name # bus.name
          <5>1. b \in read /\ b \in Loaded.bus
            BY <3>1, <4>2
          <5>2. b.name \in BusName
            BY <5>1, LoadedHoldsLines DEF ProgramInvariant
          <5> QED
            BY <1>4, <2>8, <4>2, <5>1, <5>2
        <4> QED
          BY <4>1, <4>2
      <3> QED
        BY <2>2, <3>1
    <2>10. ASSUME NEW name \in BusName, db'.bus_names[name] # Null
           PROVE  db'.bus_names[name] \in BusPtrs(db') /\ db'.buses[db'.bus_names[name]].name = name
      <3>1. new \in BusPtrs(db') /\ BusPtrs(db) \subseteq BusPtrs(db')
        BY <2>6 DEF new
      <3>2. CASE name = bus.name
        BY <2>4, <2>6, <2>8, <3>1, <3>2
      <3>3. CASE name # bus.name
        BY <1>4, <2>6, <2>8, <2>10, <3>1, <3>3
      <3> QED
        BY <3>2, <3>3
    <2> QED
      BY <1>1, <1>3, <1>4, <2>2, <2>3, <2>5, <2>8, <2>9, <2>10 DEF LoadingFollowsFile, Answering
  <1>7. MainFollowsFile' /\ MakeBaseOutcome' /\ MainFollowsCatalogue'
    BY <1>1, NothingWritten, OutcomeOpen DEF MainFollowsCatalogue, Ended
  <1> QED
    BY <1>1, <1>5, <1>6, <1>7, ReaderKept, FilesKept DEF ProgramInvariant

\* What LoadBus has added is the lines of the file.
LEMMA LoadedLines ==
    ASSUME ProgramInvariant, at = "loading", unread = {}
    PROVE  {LineOf(db.buses[ptr]) : ptr \in GetBusesHolder(db)} = {LineOf(bus) : bus \in Loaded.bus}
  <1>1. /\ db.buses \in Seq({Added(b) : b \in Loaded.bus})
        /\ \A b \in Loaded.bus : db.bus_names[b.name] # Null
        /\ \A name \in BusName : db.bus_names[name] # Null =>
                db.bus_names[name] \in BusPtrs(db) /\ db.buses[db.bus_names[name]].name = name
    <2>1. Loaded.bus \ unread = Loaded.bus
      OBVIOUS
    <2>2. /\ db.buses \in Seq({Added(b) : b \in (Loaded.bus \ unread)})
          /\ \A b \in (Loaded.bus \ unread) : db.bus_names[b.name] # Null
          /\ \A name \in BusName : db.bus_names[name] # Null =>
                db.bus_names[name] \in BusPtrs(db) /\ db.buses[db.bus_names[name]].name = name
      BY DEF ProgramInvariant, LoadingFollowsFile
    <2> QED
      BY <2>1, <2>2
  <1>2. /\ \A bus \in Loaded.bus : bus.name \in BusName
        /\ \A bus, other \in Loaded.bus : bus.name = other.name => bus = other
    BY LoadedHoldsLines DEF ProgramInvariant
  <1>3. \A b : Added(b).name = b.name /\ LineOf(Added(b)) = LineOf(b)
    BY DEF Added, LineOf
  <1>4. ASSUME NEW ptr \in BusPtrs(db)
        PROVE  \E b \in Loaded.bus : db.buses[ptr] = Added(b)
    BY <1>1 DEF BusPtrs
  <1>5. \A ptr \in GetBusesHolder(db) : ptr \in BusPtrs(db)
    BY <1>1 DEF GetBusesHolder
  <1>6. ASSUME NEW bus \in Loaded.bus
        PROVE  \E ptr \in GetBusesHolder(db) : LineOf(db.buses[ptr]) = LineOf(bus)
    <2> DEFINE ptr == db.bus_names[bus.name]
    <2>1. ptr \in GetBusesHolder(db) /\ ptr \in BusPtrs(db) /\ db.buses[ptr].name = bus.name
      BY <1>1, <1>2 DEF GetBusesHolder
    <2>2. PICK b \in Loaded.bus : db.buses[ptr] = Added(b)
      BY <1>4, <2>1
    <2>3. b = bus
      BY <1>2, <1>3, <2>1, <2>2
    <2> QED
      BY <1>3, <2>1, <2>2, <2>3
  <1>7. \A ptr \in GetBusesHolder(db) : \E bus \in Loaded.bus : LineOf(db.buses[ptr]) = LineOf(bus)
    BY <1>3, <1>4, <1>5
  <1> QED
    BY <1>6, <1>7

\* Deserialize ends: the lines and the settings are those of the file.
LEMMA SettingsLoaded == ProgramInvariant /\ LoadSettings => ProgramInvariant'
  <1> SUFFICES ASSUME ProgramInvariant, LoadSettings PROVE ProgramInvariant'
    OBVIOUS
  <1> DEFINE message == Loaded.map_settings
  <1>1. /\ at = "loading" /\ unread = {} /\ files' = files /\ nodes' = nodes
        /\ at' = CASE ConvertBackEnds(message) = "read"  -> "searching"
                   [] ConvertBackEnds(message) = "threw" -> "threw"
                   [] OTHER                              -> "undefined"
        /\ ConvertBackEnds(message) = "read" => renderer' = ConvertBack(message)
        /\ UNCHANGED <<populateVars, routerVars>>
        /\ UNCHANGED store /\ UNCHANGED <<session, started, readerVars>>
    BY DEF LoadSettings, KeepCatalogue, KeepRouter, KeepReader, KeepRest, store
  <1>2. /\ parsing = "done" /\ Running /\ nodes = << >> /\ mode = "process_requests" /\ FileEnds = "read"
    BY <1>1 DEF ProgramInvariant, MainFollowsSession, LoadingFollowsFile, Ended, Running
  <1>3. /\ mode' = mode /\ FileEnds' = FileEnds /\ settings' = settings
    BY <1>1, InputSays
  <1>4. at' \in {"searching", "threw", "undefined"} /\ (at' = "searching" <=> ConvertBackEnds(message) = "read")
    BY <1>1
  <1>5. MainFollowsSession'
    BY <1>1, <1>2, <1>4, SessionKept DEF ProgramInvariant, Ended
  <1>6. LoadingFollowsFile'
    <2>1. Loaded' = Loaded /\ db' = db
      BY <1>1, <1>3, LoadedKept DEF populateVars
    <2>2. CASE at' = "searching"
      <3>1. ConvertBackEnds(message) = "read" /\ renderer' = ConvertBack(message)
        BY <1>1, <1>4, <2>2
      <3>2. {LineOf(db.buses[ptr]) : ptr \in GetBusesHolder(db)} = {LineOf(bus) : bus \in Loaded.bus}
        BY <1>1, LoadedLines
      <3> HIDE DEF message
      <3>3. message = Loaded.map_settings
        BY DEF message
      <3> QED
        BY <1>2, <1>3, <2>1, <2>2, <3>1, <3>2, <3>3 DEF LoadingFollowsFile
    <2>3. CASE at' # "searching"
      BY <1>1, <1>2, <1>4, <2>3, NoAnswerYet
    <2> QED
      BY <2>2, <2>3
  <1>7. MainFollowsFile' /\ MakeBaseOutcome' /\ MainFollowsCatalogue'
    BY <1>1, <1>2, <1>3, <1>4, NothingWritten, OutcomeOpen DEF MainFollowsCatalogue
  <1> QED
    BY <1>1, <1>5, <1>6, <1>7, ReaderKept, FilesKept DEF ProgramInvariant

\* An answer is given from what has been loaded.
LEMMA SearchGoesOn ==
    ASSUME ProgramInvariant, at = "searching", at' \in {"searching", "returned", "threw", "undefined"},
           renderer' = renderer, files' = files, UNCHANGED <<populateVars, routerVars>>,
           UNCHANGED store, UNCHANGED <<session, started, readerVars>>
    PROVE  ProgramInvariant'
  <1>1. /\ parsing = "done" /\ Running /\ mode = "process_requests" /\ FileEnds = "read"
    BY DEF ProgramInvariant, MainFollowsSession, LoadingFollowsFile, Ended, Running
  <1>2. /\ mode' = mode /\ FileEnds' = FileEnds /\ settings' = settings
    BY InputSays
  <1>3. MainFollowsSession'
    BY <1>1, SessionKept DEF ProgramInvariant, Ended
  <1>4. LoadingFollowsFile'
    <2>1. Loaded' = Loaded /\ db' = db
      BY <1>2, LoadedKept DEF populateVars
    <2>2. Answering
      BY DEF Answering
    <2> QED
      BY <1>1, <1>2, <2>1, <2>2 DEF ProgramInvariant, LoadingFollowsFile
  <1>5. MainFollowsFile' /\ MakeBaseOutcome' /\ MainFollowsCatalogue'
    BY <1>1, <1>2, NothingWritten, OutcomeOpen DEF MainFollowsCatalogue
  <1> QED
    BY <1>3, <1>4, <1>5, ReaderKept, FilesKept DEF ProgramInvariant

\* A response leaves the catalogue and the settings as they are.
LEMMA Responded == ProgramInvariant /\ Respond => ProgramInvariant'
  <1> SUFFICES ASSUME ProgramInvariant, Respond PROVE ProgramInvariant'
    OBVIOUS
  <1>1. /\ at = "searching" /\ at' \in {"searching", "threw", "undefined"}
        /\ renderer' = renderer /\ files' = files
        /\ UNCHANGED <<populateVars, routerVars>>
        /\ UNCHANGED store /\ UNCHANGED <<session, started, readerVars>>
    BY DEF Respond, KeepCatalogue, KeepRouter, KeepReader, KeepRest, store
  <1> QED
    BY <1>1, SearchGoesOn

LEMMA ResponsesPrinted == ProgramInvariant /\ PrintResponses => ProgramInvariant'
  <1> SUFFICES ASSUME ProgramInvariant, PrintResponses PROVE ProgramInvariant'
    OBVIOUS
  <1>1. /\ at = "searching" /\ at' = "returned" /\ renderer' = renderer /\ files' = files
        /\ UNCHANGED <<populateVars, routerVars>>
        /\ UNCHANGED store /\ UNCHANGED <<session, started, readerVars>>
    BY DEF PrintResponses, KeepCatalogue, KeepRouter, KeepReader, KeepRest, store
  <1> QED
    BY <1>1, SearchGoesOn

\* A step of another kind leaves all as it is.
LEMMA NothingDone == ProgramInvariant /\ UNCHANGED programVars => ProgramInvariant'
  <1> SUFFICES ASSUME ProgramInvariant, UNCHANGED programVars PROVE ProgramInvariant'
    OBVIOUS
  <1>1. /\ UNCHANGED <<session, started, readerVars>> /\ UNCHANGED <<populateVars, routerVars>>
        /\ UNCHANGED store /\ files' = files /\ saved' = saved
        /\ at' = at /\ renderer' = renderer /\ unread' = unread /\ nodes' = nodes
    BY DEF programVars, memory, vars, store
  <1>2. /\ mode' = mode /\ FileEnds' = FileEnds /\ DatabaseFile' = DatabaseFile
        /\ \A key : HasKey(key)' <=> HasKey(key)
        /\ requests' = requests /\ parsing' = parsing /\ session' = session /\ started' = started
        /\ stops' = stops /\ buses' = buses /\ settings' = settings
        /\ Acceptable' <=> Acceptable
        /\ RoadsAreNatural' <=> RoadsAreNatural
        /\ RoutingIsWhole' <=> RoutingIsWhole
        /\ RenderFits' <=> RenderFits
    BY <1>1, InputSays
  <1>3. /\ base' = base /\ db' = db /\ stage' = stage /\ index' = index /\ undeclared' = undeclared
        /\ building' = building /\ pending' = pending /\ stop_to_transfer' = stop_to_transfer
        /\ graph' = graph /\ id_to_edge' = id_to_edge /\ edges' = edges /\ answer' = answer
    BY <1>1 DEF populateVars, routerVars
  <1>4. Message(renderer)' = Message(renderer)
    BY <1>1, <1>3 DEF Message, GetStopId, ConvertAdjacent, ConvertBus, ConvertGraph
  <1>5. Loaded' = Loaded
    BY <1>1, <1>2, LoadedKept
  <1>6. MainFollowsSession'
    BY <1>1, <1>2 DEF ProgramInvariant, MainFollowsSession
  <1>7. MainFollowsCatalogue'
    <2>1. Forgotten' <=> Forgotten
      BY <1>3 DEF Forgotten
    <2>2. RouterInvariant => RouterInvariant'
      BY <1>1, RouterKept
    <2> QED
      BY <1>1, <1>2, <1>3, <2>1, <2>2 DEF ProgramInvariant, MainFollowsCatalogue
  <1>8. MainFollowsFile'
    <2>1. PopulateInvariant => PopulateInvariant'
      BY <1>1, PopulateKept
    <2> QED
      BY <1>1, <1>2, <1>3, <1>4, <2>1 DEF ProgramInvariant, MainFollowsFile
  <1>9. LoadingFollowsFile'
    <2>1. Answering' <=> Answering
      BY <1>1 DEF Answering
    <2> QED
      BY <1>1, <1>2, <1>3, <1>5, <2>1 DEF ProgramInvariant, LoadingFollowsFile
  <1>10. MakeBaseOutcome'
    BY <1>1, <1>2 DEF ProgramInvariant, MakeBaseOutcome
  <1> QED
    BY <1>1, <1>6, <1>7, <1>8, <1>9, <1>10, ReaderKept, FilesKept DEF ProgramInvariant

\* Every step of a session.
LEMMA ProgramStep == ProgramInvariant /\ [ProgramNext]_programVars => ProgramInvariant'
  <1> SUFFICES ASSUME ProgramInvariant, [ProgramNext]_programVars PROVE ProgramInvariant'
    OBVIOUS
  <1>1. CASE Start \/ Kill
    BY <1>1, Started, Killed
  <1>2. CASE ReadInput \/ PrintUsage \/ BeginPopulate \/ ContinuePopulate \/ SkipPopulate
    BY <1>2, InputRead, UsagePrinted, PopulateBegun, PopulateGoesOn, PopulateSkipped
  <1>3. CASE TakeSettings \/ MakeHandler \/ NoFile \/ OpenForWriting \/ Serialize
    BY <1>3, SettingsTaken, HandlerMade, FileNotOpened, FileOpened, BaseWritten
  <1>4. CASE OpenForReading \/ LoadBus \/ LoadSettings \/ Respond \/ PrintResponses
    BY <1>4, FileRead, BusLoaded, SettingsLoaded, Responded, ResponsesPrinted
  <1>5. CASE UNCHANGED programVars
    BY <1>5, NothingDone
  <1> QED
    BY <1>1, <1>2, <1>3, <1>4, <1>5 DEF ProgramNext, MainNext

\* The inductive invariant of the program.
THEOREM ProgramInvariance == ProgramSpec => []ProgramInvariant
  BY SessionBegins, ProgramStep, PTL DEF ProgramSpec

-----------------------------------------------------------------------------
(* What follows from it. *)

\* The lists that JsonReader hands out are the requests of their types, all and in
\* their order, if and only if the input is what it should be (json_reader.cpp:86-134,
\* 261).
THEOREM ReadRequestsAreSorted == ProgramSpec => []RequestsAreSorted
  <1>1. ProgramInvariant => RequestsAreSorted
    BY ReadingIsSorted DEF ProgramInvariant
  <1> QED
    BY <1>1, ProgramInvariance, PTL

\* make_base returns if and only if it can make a base of its input, whatever the
\* requests, the settings and the processes before it were (main.cpp:32-37,
\* json_reader.cpp:12-49, 136-175, router.cpp:26-72).
THEOREM MakeBaseEnds == ProgramSpec => []MakeBaseOutcome
  <1>1. ProgramInvariant => MakeBaseOutcome
    BY DEF ProgramInvariant
  <1> QED
    BY <1>1, ProgramInvariance, PTL

\* Files are opened, and written to, where there is nothing left that can fail.
LEMMA FilesChange ==
    ASSUME ProgramInvariant, ProgramNext
    PROVE  files' # files => mode = "make_base" /\ Acceptable
  <1>1. CASE OpenForWriting
    BY <1>1, OpeningAccepts DEF OpenForWriting
  <1>2. CASE Serialize
    <2>1. at = "writing"
      BY <1>2 DEF Serialize
    <2>2. mode = "make_base" /\ FileEnds = "read"
      BY <2>1 DEF ProgramInvariant, MainFollowsCatalogue
    <2> QED
      BY <2>1, <2>2, OpeningAccepts
  <1>3. CASE Start \/ Kill
    BY <1>3 DEF Start, Kill, store
  <1>4. CASE ReadInput \/ PrintUsage \/ BeginPopulate \/ ContinuePopulate \/ SkipPopulate \/ TakeSettings
             \/ MakeHandler \/ NoFile \/ OpenForReading \/ LoadBus \/ LoadSettings \/ Respond \/ PrintResponses
    BY <1>4 DEF ReadInput, PrintUsage, BeginPopulate, ContinuePopulate, SkipPopulate, TakeSettings,
                MakeHandler, NoFile, OpenForReading, LoadBus, LoadSettings, Respond, PrintResponses
  <1> QED
    BY <1>1, <1>2, <1>3, <1>4 DEF ProgramNext, MainNext

\* No file is opened for writing before everything in the input has been accepted
\* (main.cpp:32-37).
THEOREM FilesStayWhole == ProgramSpec => FilesAreWhole
  <1>1. ProgramInvariant /\ [ProgramNext]_programVars =>
            [files' # files => mode = "make_base" /\ Acceptable]_programVars
    BY FilesChange
  <1> QED
    BY <1>1, ProgramInvariance, PTL DEF ProgramSpec, FilesAreWhole

-----------------------------------------------------------------------------
(* The lines. *)

\* The id of a stop leads back to its name.
LEMMA IdLeadsBack ==
    ASSUME PopulateInvariant, NEW ptr \in GetStopsHolder(db)
    PROVE  /\ GetStopId(db.stops[ptr]) \in Int
           /\ db.stops[GetStopId(db.stops[ptr]) + 1] = db.stops[ptr]
  <1> DEFINE name  == db.stops[ptr]
             named == {p \in StopPtrs(db) : db.stops[p] = name}
  <1>1. ptr \in named
    BY HeldByItsName
  <1>2. named \subseteq Nat
    BY DEF PopulateInvariant, PopulateTypeOK, StopPtrs
  <1>3. PICK least \in named : \A p \in named : least <= p
    <2> HIDE DEF named
    <2> QED
      BY <1>1, <1>2, LeastElement
  <1>4. Min(named) = least
    <2> HIDE DEF named
    <2>1. least \in Int /\ \A p \in named : p \in Int /\ least <= p
      BY <1>2, <1>3
    <2> QED
      BY <2>1, MinIsLeast
  <1>5. FindByName(db, name) = least
    BY <1>1, <1>4 DEF FindByName
  <1>6. least \in Nat /\ db.stops[least] = name
    BY <1>2, <1>3
  <1>7. GetStopId(name) = least - 1
    BY <1>5 DEF GetStopId
  <1> HIDE DEF name
  <1>8. (least - 1) + 1 = least /\ least - 1 \in Int
    BY <1>6
  <1> QED
    BY <1>6, <1>7, <1>8 DEF name

\* Two stops with names have two ids.
LEMMA IdsDiffer ==
    ASSUME PopulateInvariant, NEW s \in GetStopsHolder(db), NEW t \in GetStopsHolder(db),
           GetStopId(db.stops[s]) = GetStopId(db.stops[t])
    PROVE  s = t
  <1>1. db.stops[s] = db.stops[t]
    BY IdLeadsBack
  <1> QED
    BY <1>1, HeldByItsName

LEMMA StopsAreCounted ==
    ASSUME PopulateInvariant
    PROVE  Cardinality(Message(renderer).stop) = Cardinality(GetStopsHolder(db))
  <1> DEFINE S  == GetStopsHolder(db)
             T  == Message(renderer).stop
             id == [ptr \in S |-> GetStopId(db.stops[ptr])]
  <1>1. T = {GetStopId(db.stops[ptr]) : ptr \in S}
    BY DEF Message
  <1>2. IsFiniteSet(S)
    <2>1. S \subseteq 1 .. Len(db.stops) /\ Len(db.stops) \in Int
      BY DEF PopulateInvariant, PopulateTypeOK, StopPtrs
    <2>2. IsFiniteSet(1 .. Len(db.stops))
      BY <2>1, FS_Interval
    <2> QED
      BY <2>1, <2>2, FS_Subset
  <1>3. \A s, t \in S : id[s] = id[t] => s = t
    BY IdsDiffer
  <1>4. id \in Surjection(S, T) /\ id \in Injection(S, T)
    <2>1. id \in [S -> T] /\ \A t \in T : \E s \in S : id[s] = t
      BY <1>1
    <2> HIDE DEF id, S, T
    <2> QED
      BY <1>3, <2>1 DEF Surjection, Injection, IsInjective
  <1> HIDE DEF S, T, id
  <1>5. Cardinality(T) = Cardinality(S)
    BY <1>2, <1>4, FS_Surjection
  <1> QED
    BY <1>5 DEF S, T

\* A line of the file leads by its ids to the names of its stops.
LEMMA LinesOfFile ==
    ASSUME PopulateInvariant, stage = "populated", NEW ptr \in GetBusesHolder(db)
    PROVE  LET file == Message(renderer)
           IN  \E bus \in file.bus :
                    /\ bus.name = db.buses[ptr].name
                    /\ DOMAIN bus.stop_id = DOMAIN db.buses[ptr].stops
                    /\ \A i \in DOMAIN bus.stop_id :
                        /\ bus.stop_id[i] \in file.stop
                        /\ db.stops[bus.stop_id[i] + 1] = db.stops[db.buses[ptr].stops[i]]
  <1> DEFINE bus == ConvertBus(db.buses[ptr])
  <1>1. /\ Message(renderer).bus = {ConvertBus(db.buses[p]) : p \in GetBusesHolder(db)}
        /\ Message(renderer).stop = {GetStopId(db.stops[p]) : p \in GetStopsHolder(db)}
    BY DEF Message
  <1>2. bus \in Message(renderer).bus
    BY <1>1
  <1>3. /\ bus.name = db.buses[ptr].name /\ DOMAIN bus.stop_id = DOMAIN db.buses[ptr].stops
        /\ \A i \in DOMAIN bus.stop_id : bus.stop_id[i] = GetStopId(db.stops[db.buses[ptr].stops[i]])
    BY DEF ConvertBus
  <1>4. \A i \in DOMAIN db.buses[ptr].stops : db.buses[ptr].stops[i] \in GetStopsHolder(db)
    BY LineStops
  <1>5. \A i \in DOMAIN bus.stop_id :
            /\ bus.stop_id[i] \in Message(renderer).stop
            /\ db.stops[bus.stop_id[i] + 1] = db.stops[db.buses[ptr].stops[i]]
    BY <1>1, <1>3, <1>4, IdLeadsBack
  <1> QED
    BY <1>2, <1>3, <1>5

\* The file of make_base and the catalogue of process_requests have the same lines.
LEMMA LinesFollow == ProgramInvariant => LinesSurvive
  <1> SUFFICES ASSUME ProgramInvariant PROVE LinesSurvive
    OBVIOUS
  <1>1. ASSUME at = "returned", mode = "make_base", DatabaseFile \in FileName
        PROVE  LET file == files[DatabaseFile]
               IN  /\ Cardinality(file.stop) = Cardinality(GetStopsHolder(db))
                   /\ \A ptr \in GetBusesHolder(db) :
                        \E bus \in file.bus :
                            /\ bus.name = db.buses[ptr].name
                            /\ DOMAIN bus.stop_id = DOMAIN db.buses[ptr].stops
                            /\ \A i \in DOMAIN bus.stop_id :
                                /\ bus.stop_id[i] \in file.stop
                                /\ db.stops[bus.stop_id[i] + 1] = db.stops[db.buses[ptr].stops[i]]
    <2>1. PopulateInvariant /\ stage = "populated" /\ files[DatabaseFile] = Message(renderer)
      BY <1>1 DEF ProgramInvariant, MainFollowsFile
    <2> QED
      BY <2>1, StopsAreCounted, LinesOfFile
  <1>2. ASSUME Answering
        PROVE  {[name |-> db.buses[ptr].name, is_roundtrip |-> db.buses[ptr].is_roundtrip] : ptr \in GetBusesHolder(db)}
                    = IF IsWhole THEN LastLines(saved[DatabaseFile].base.buses) ELSE {}
    <2>1. {LineOf(db.buses[ptr]) : ptr \in GetBusesHolder(db)} = {LineOf(bus) : bus \in Loaded.bus}
      BY <1>2 DEF ProgramInvariant, LoadingFollowsFile
    <2>2. {LineOf(bus) : bus \in Loaded.bus} = IF IsWhole THEN LastLines(saved[DatabaseFile].base.buses) ELSE {}
      BY LoadedHoldsLines DEF ProgramInvariant
    <2> QED
      BY <2>1, <2>2 DEF LineOf
  <1> QED
    BY <1>1, <1>2 DEF LinesSurvive

\* Lines survive the way through a file, the kills of processes and the files of others
\* (serialization.cpp:32-48, 209-265).
THEOREM SavedLinesSurvive == ProgramSpec => []LinesSurvive
  BY LinesFollow, ProgramInvariance, PTL

-----------------------------------------------------------------------------
(* Colors, character by character. *)

\* The separator behind a position of a text: the next comma, or its end.
NextSep(text, n) == {i \in n + 1 .. Len(text) : text[i] = ","} \cup {Len(text) + 1}

SepTurn(text, f) == [n \in Nat |-> IF n = 0 THEN 0 ELSE Min(NextSep(text, f[n - 1]))]

Commas(text) == {i \in DOMAIN text : text[i] = ","}

\* The first separator behind a position.
LEMMA NextSepIs ==
    ASSUME NEW S, NEW text \in Seq(S), NEW n \in Nat
    PROVE  /\ Min(NextSep(text, n)) \in NextSep(text, n)
           /\ Min(NextSep(text, n)) \in 1 .. Len(text) + 1
           /\ \A i \in NextSep(text, n) : Min(NextSep(text, n)) <= i
  <1>1. Len(text) \in Nat
    OBVIOUS
  <1>2. /\ NextSep(text, n) \subseteq 1 .. Len(text) + 1 /\ NextSep(text, n) # {}
    <2>1. \A i \in n + 1 .. Len(text) : i \in 1 .. Len(text) + 1
      BY <1>1
    <2>2. Len(text) + 1 \in 1 .. Len(text) + 1
      BY <1>1
    <2> QED
      BY <2>1, <2>2 DEF NextSep
  <1>3. NextSep(text, n) \subseteq Nat
    BY <1>1, <1>2
  <1>4. PICK least \in NextSep(text, n) : \A i \in NextSep(text, n) : least <= i
    BY <1>2, <1>3, LeastElement
  <1>5. least \in Int /\ \A i \in NextSep(text, n) : i \in Int /\ least <= i
    BY <1>3, <1>4
  <1>6. Min(NextSep(text, n)) = least
    BY <1>5, MinIsLeast
  <1> QED
    BY <1>2, <1>4, <1>6

\* Steps from 0 to numbers.
LEMMA StepsFromZero ==
    ASSUME NEW next \in [Nat -> Nat]
    PROVE  \E f \in [Nat -> Nat] : f = [n \in Nat |-> IF n = 0 THEN 0 ELSE next[f[n - 1]]]
  <1>1. PICK same \in Steps(Nat) : same = [n \in Nat |-> next]
    BY DEF Steps
  <1>2. PICK f \in [Nat -> Nat] : IsRun(f, 0, same)
    BY RunExists
  <1>3. f = [n \in Nat |-> IF n = 0 THEN 0 ELSE next[f[n - 1]]]
    BY <1>1, <1>2 DEF IsRun
  <1> QED
    BY <1>3

\* A text of characters.
LEMMA TextOfCharacters ==
    ASSUME NEW text \in Seq(ColorChars)
    PROVE  text \in Seq(Character)
  <1>1. ColorChars \subseteq Character
    BY DEF Character
  <1> QED
    BY <1>1, SeqMonotonic

\* The words of a text, by its separators.
LEMMA WordsAre ==
    ASSUME NEW text \in Seq(ColorChars)
    PROVE  \E sep \in [Nat -> Nat] :
              /\ sep[0] = 0
              /\ \A n \in Nat : sep[n + 1] = Min(NextSep(text, sep[n]))
              /\ Words[text] = [n \in 1 .. Cardinality(Commas(text)) + 1 |->
                                    SubSeq(text, sep[n - 1] + 1, sep[n] - 1)]
  <1>3. \E f : f = SepTurn(text, f)
    <2> DEFINE step == [n \in Nat |-> Min(NextSep(text, n))]
    <2>1. step \in [Nat -> Nat]
      <3>1. Len(text) \in Nat
        OBVIOUS
      <3>2. \A n \in Nat : Min(NextSep(text, n)) \in Nat
        BY <3>1, NextSepIs
      <3> QED
        BY <3>2
    <2>2. PICK next \in [Nat -> Nat] : next = step
      BY <2>1
    <2>3. PICK f \in [Nat -> Nat] : f = [n \in Nat |-> IF n = 0 THEN 0 ELSE next[f[n - 1]]]
      BY StepsFromZero
    <2>4. \A n \in Nat : n # 0 => next[f[n - 1]] = Min(NextSep(text, f[n - 1]))
      <3>1. \A n \in Nat : n # 0 => n - 1 \in Nat
        OBVIOUS
      <3>2. \A n \in Nat : f[n] \in Nat /\ next[f[n]] = Min(NextSep(text, f[n]))
        BY <2>2
      <3> QED
        BY <3>1, <3>2
    <2>7. f = SepTurn(text, f)
      BY <2>3, <2>4 DEF SepTurn
    <2> QED
      BY <2>7
  <1>4. PICK sep : sep = CHOOSE g : g = SepTurn(text, g)
    OBVIOUS
  <1>5. sep = SepTurn(text, sep)
    BY <1>3, <1>4
  <1>6. /\ sep[0] = 0
        /\ \A n \in Nat : sep[n + 1] = Min(NextSep(text, sep[n]))
        /\ sep = [n \in Nat |-> IF n = 0 THEN 0 ELSE Min(NextSep(text, sep[n - 1]))]
    <2>1. \A n \in Nat : n + 1 \in Nat /\ n + 1 # 0 /\ (n + 1) - 1 = n
      OBVIOUS
    <2>2. sep = [n \in Nat |-> IF n = 0 THEN 0 ELSE Min(NextSep(text, sep[n - 1]))]
      BY <1>5 DEF SepTurn
    <2> QED
      BY <2>1, <2>2
  <1>7. sep \in [Nat -> Nat]
    <2> DEFINE N == {n \in Nat : sep[n] \in Nat}
    <2>1. 0 \in N
      BY <1>6
    <2>2. ASSUME NEW n \in Nat, n \in N PROVE n + 1 \in N
      <3>1. Len(text) \in Nat
        OBVIOUS
      <3>2. PICK before \in Nat : before = sep[n]
        BY <2>2
      <3>3. Min(NextSep(text, before)) \in 1 .. Len(text) + 1
        BY NextSepIs
      <3>4. 1 .. Len(text) + 1 \subseteq Nat
        BY <3>1
      <3> HIDE DEF N
      <3>5. sep[n + 1] \in Nat
        BY <1>6, <3>2, <3>3, <3>4
      <3> QED
        BY <3>5 DEF N
    <2> HIDE DEF N
    <2>3. \A n \in Nat : n \in N
      BY <2>1, <2>2, SetInduction
    <2> QED
      BY <1>6, <2>3 DEF N
  <1>9. text \in Seq(Character)
    BY TextOfCharacters
  <1>8. Words[text] = [n \in 1 .. Cardinality(Commas(text)) + 1 |-> SubSeq(text, sep[n - 1] + 1, sep[n] - 1)]
    <2> DEFINE Turned(g) == [n \in Nat |->
                    IF n = 0 THEN 0
                    ELSE Min({i \in g[n - 1] + 1 .. Len(text) : text[i] = ","} \cup {Len(text) + 1})]
    <2>1. \A g : SepTurn(text, g) = Turned(g)
      BY DEF SepTurn, NextSep
    <2>2. sep = CHOOSE g : g = Turned(g)
      BY <1>4, <2>1
    <2>3. Words[text] = LET s == CHOOSE g : g = Turned(g)
                        IN  [n \in 1 .. Cardinality({i \in DOMAIN text : text[i] = ","}) + 1 |->
                                SubSeq(text, s[n - 1] + 1, s[n] - 1)]
      BY <1>9 DEF Words
    <2> HIDE DEF Turned
    <2> QED
      BY <2>2, <2>3 DEF Commas
  <1> QED
    BY <1>6, <1>7, <1>8

\* The least of a set that has one element.
LEMMA MinOfOne ==
    ASSUME NEW n \in Int
    PROVE  Min({n}) = n
  BY MinIsLeast

LEMMA MaxOfOne ==
    ASSUME NEW n \in Int
    PROVE  Max({n}) = n
  BY DEF Max

\* The ten digits.
LEMMA TenDigits ==
    /\ DOMAIN Digit = 1 .. 10
    /\ \A n \in 0 .. 9 :
        /\ IsDigit(Digit[n + 1])
        /\ Digit[n + 1] # "," /\ Digit[n + 1] # "(" /\ Digit[n + 1] # ")" /\ Digit[n + 1] # "."
    /\ \A m, n \in 0 .. 9 : Digit[m + 1] = Digit[n + 1] => m = n
    /\ \A c : IsDigit(c) => \E n \in 0 .. 9 : c = Digit[n + 1]
    /\ ~IsDigit(",") /\ ~IsDigit(")") /\ ~IsDigit(".")
  <1>1. DOMAIN Digit = 1 .. 10 /\ Len(Digit) = 10
    BY DEF Digit
  <1>2. 0 .. 9 = {0, 1, 2, 3, 4, 5, 6, 7, 8, 9} /\ 1 .. 10 = {1, 2, 3, 4, 5, 6, 7, 8, 9, 10}
    OBVIOUS
  <1>3. /\ Digit[1] = "0" /\ Digit[2] = "1" /\ Digit[3] = "2" /\ Digit[4] = "3" /\ Digit[5] = "4"
        /\ Digit[6] = "5" /\ Digit[7] = "6" /\ Digit[8] = "7" /\ Digit[9] = "8" /\ Digit[10] = "9"
    BY DEF Digit
  <1>4. \A c : IsDigit(c) <=> \E i \in 1 .. 10 : c = Digit[i]
    BY <1>1 DEF IsDigit, Contains
  <1>5. \A n \in 0 .. 9 :
        /\ Digit[n + 1] # "," /\ Digit[n + 1] # "(" /\ Digit[n + 1] # ")" /\ Digit[n + 1] # "."
    <2>1. \A i \in 1 .. 10 :
            Digit[i] \in {"0", "1", "2", "3", "4", "5", "6", "7", "8", "9"}
      BY <1>2, <1>3
    <2>3. \A c \in {"0", "1", "2", "3", "4", "5", "6", "7", "8", "9"} :
            c # "," /\ c # "(" /\ c # ")" /\ c # "."
      OBVIOUS
    <2>2. \A n \in 0 .. 9 : n + 1 \in 1 .. 10
      OBVIOUS
    <2> QED
      BY <2>1, <2>2, <2>3
  <1>6. \A m, n \in 1 .. 10 : Digit[m] = Digit[n] => m = n
    BY <1>2, <1>3
  <1>7. \A n \in 0 .. 9 : n + 1 \in 1 .. 10
    OBVIOUS
  <1>8. \A i \in 1 .. 10 : i - 1 \in 0 .. 9 /\ (i - 1) + 1 = i
    OBVIOUS
  <1>9. \A m, n \in 0 .. 9 : Digit[m + 1] = Digit[n + 1] => m = n
    <2>1. \A m, n \in 0 .. 9 : m + 1 = n + 1 => m = n
      OBVIOUS
    <2> QED
      BY <1>6, <1>7, <2>1
  <1>10. ~IsDigit(",") /\ ~IsDigit(")") /\ ~IsDigit(".")
    BY <1>2, <1>3, <1>4
  <1>11. \A c : IsDigit(c) => \E n \in 0 .. 9 : c = Digit[n + 1]
    BY <1>4, <1>8
  <1>12. \A n \in 0 .. 9 : IsDigit(Digit[n + 1])
    BY <1>4, <1>7
  <1> QED
    BY <1>1, <1>5, <1>9, <1>10, <1>11, <1>12

\* Where a digit stands among the ten.
DigitAt(c) ==
    LET at_c == {i \in 1 .. Len(Digit) : Digit[i] = c}
    IN  IF at_c # {} THEN Min(at_c) ELSE 0

LEMMA ValueOfDigit ==
    ASSUME NEW n \in 0 .. 9
    PROVE  DigitAt(Digit[n + 1]) = n + 1
  <1>1. Len(Digit) = 10
    BY DEF Digit
  <1>2. {i \in 1 .. 10 : Digit[i] = Digit[n + 1]} = {n + 1}
    <2>1. \A i \in 1 .. 10 : i - 1 \in 0 .. 9 /\ (i - 1) + 1 = i
      OBVIOUS
    <2>2. \A i \in 1 .. 10 : Digit[i] = Digit[n + 1] => i - 1 = n
      BY <2>1, TenDigits
    <2>3. n + 1 \in 1 .. 10 /\ \A i \in 1 .. 10 : i - 1 = n => i = n + 1
      OBVIOUS
    <2> QED
      BY <2>2, <2>3
  <1> QED
    BY <1>1, <1>2, MinOfOne DEF DigitAt

\* Words of one character.
LEMMA OneCharacter ==
    ASSUME NEW d
    PROVE  /\ Append(<<d>>, ")") = <<d, ")">> /\ SubSeq(<<d>>, 1, 1) = <<d>>
           /\ Len(<<d, ")">>) = 2 /\ <<d, ")">>[1] = d /\ <<d, ")">>[2] = ")"
  <1>1. PICK S : S = {d, ")"}
    OBVIOUS
  <1>2. <<d>> \in Seq(S) /\ <<d, ")">> \in Seq(S) /\ d \in S /\ ")" \in S
    BY <1>1
  <1>3. /\ Len(<<d, ")">>) = 2 /\ <<d, ")">>[1] = d /\ <<d, ")">>[2] = ")"
        /\ Len(<<d>>) = 1 /\ <<d>>[1] = d
    OBVIOUS
  <1>4. Append(<<d>>, ")") = <<d, ")">>
    <2>1. Append(<<d>>, ")") \in Seq(S) /\ Len(Append(<<d>>, ")")) = 2
      BY <1>2
    <2>2. \A i \in 1 .. 2 : Append(<<d>>, ")")[i] = <<d, ")">>[i]
      <3>1. 1 .. 2 = {1, 2} /\ Append(<<d>>, ")")[1] = d /\ Append(<<d>>, ")")[2] = ")"
        OBVIOUS
      <3> QED
        BY <1>3, <3>1
    <2> QED
      BY <1>2, <1>3, <2>1, <2>2, SeqEqual
  <1>5. SubSeq(<<d>>, 1, 1) = <<d>>
    <2>1. SubSeq(<<d>>, 1, 1) \in Seq(S) /\ Len(SubSeq(<<d>>, 1, 1)) = 1 /\ SubSeq(<<d>>, 1, 1)[1] = d
      BY <1>2
    <2>2. \A i \in 1 .. 1 : SubSeq(<<d>>, 1, 1)[i] = <<d>>[i]
      BY <1>3, <2>1
    <2> QED
      BY <1>2, <1>3, <2>1, <2>2, SeqEqual
  <1> QED
    BY <1>3, <1>4, <1>5

\* A word of one digit is its number.
LEMMA StoiOfDigit ==
    ASSUME NEW n \in 0 .. 9
    PROVE  Stoi[<<Digit[n + 1]>>] = n
  <1>1. PICK d : d = Digit[n + 1]
    BY TenDigits
  <1>2. IsDigit(d) /\ ~IsDigit(")") /\ DigitAt(d) = n + 1
    BY <1>1, TenDigits, ValueOfDigit
  <1>3. SelectInSeq(<<d, ")">>, LAMBDA c : ~IsDigit(c)) = 2
    <2>1. {i \in 1 .. 2 : ~IsDigit(<<d, ")">>[i])} = {2}
      <3>1. 1 .. 2 = {1, 2}
        OBVIOUS
      <3> QED
        BY <1>2, <3>1, OneCharacter
    <2> QED
      BY <2>1, MinOfOne, OneCharacter DEF SelectInSeq
  <1> DEFINE Turn(g) == [s \in SUBSET {1} |->
                IF s = {} THEN 0 ELSE 10 * g[s \ {Max(s)}] + DigitAt(<<d>>[Max(s)]) - 1]
             Number(word) == FoldLeft(LAMBDA m, c : 10 * m + SelectInSeq(Digit, LAMBDA e : e = c) - 1, 0, word)
  <1>5. Number(<<d>>) = (CHOOSE g : g = Turn(g))[{1}]
    <2>1. DOMAIN <<d>> = {1}
      OBVIOUS
    <2> QED
      BY <2>1 DEF FoldLeft, MapThenFoldSet, SelectInSeq, DigitAt
  <1>6. Max({1}) = 1 /\ {1} \ {1} = {} /\ <<d>>[1] = d
    BY MaxOfOne
  <1>7. \A g : Turn(g)[{}] = 0
    OBVIOUS
  <1>8. \A g : g[{}] = 0 => Turn(g)[{1}] = n
    <2>1. 10 * 0 + (n + 1) - 1 = n
      OBVIOUS
    <2>2. \A g : Turn(g)[{1}] = 10 * g[{}] + DigitAt(d) - 1
      BY <1>6
    <2> HIDE DEF Turn
    <2> QED
      BY <1>2, <2>1, <2>2
  <1>9. \E g : g = Turn(g)
    <2> DEFINE f == [s \in SUBSET {1} |-> IF s = {} THEN 0 ELSE n]
    <2>1. SUBSET {1} = {{}, {1}}
      OBVIOUS
    <2>2. f[{}] = 0 /\ f[{1}] = n
      OBVIOUS
    <2>3. \A s \in SUBSET {1} : f[s] = Turn(f)[s]
      <3>1. PICK h : h = f
        OBVIOUS
      <3>2. Turn(h)[{}] = 0 /\ Turn(h)[{1}] = n
        <4>1. h[{}] = 0
          BY <2>2, <3>1
        <4> HIDE DEF f, Turn
        <4> QED
          BY <1>7, <1>8, <4>1
      <3> HIDE DEF f, Turn
      <3> QED
        BY <2>1, <2>2, <3>1, <3>2
    <2>4. f = Turn(f)
      BY <2>3
    <2> QED
      BY <2>4
  <1>10. PICK g : g = CHOOSE h : h = Turn(h)
    OBVIOUS
  <1>11. g = Turn(g)
    BY <1>9, <1>10
  <1>12. g[{1}] = n
    <2> HIDE DEF Turn
    <2> QED
      BY <1>7, <1>8, <1>11
  <1>13. Stoi[<<d>>] = Number(<<d>>)
    <2>1. Stoi[<<d>>] = Number(SubSeq(<<d>>, 1, SelectInSeq(Append(<<d>>, ")"), LAMBDA c : ~IsDigit(c)) - 1))
      <3>1. n + 1 \in 1 .. 10
        OBVIOUS
      <3>2. PICK i \in 1 .. 10 : d = Digit[i]
        BY <1>1, <3>1
      <3>3. d \in Character
        BY <3>2, Zenon DEF ColorChars, Character
      <3>4. <<d>> \in Seq(Character)
        BY <3>3
      <3> QED
        BY <3>4, OneCharacter DEF Stoi
    <2>2. Append(<<d>>, ")") = <<d, ")">> /\ SubSeq(<<d>>, 1, 1) = <<d>>
      BY OneCharacter
    <2>3. SelectInSeq(Append(<<d>>, ")"), LAMBDA c : ~IsDigit(c)) = 2
      BY <1>3, <2>2
    <2>4. 2 - 1 = 1
      OBVIOUS
    <2> HIDE DEF Number
    <2> QED
      BY <2>1, <2>2, <2>3, <2>4
  <1> QED
    BY <1>1, <1>5, <1>10, <1>12, <1>13

\* Pieces of a text: none, and one character.
LEMMA Pieces ==
    ASSUME NEW S, NEW text \in Seq(S)
    PROVE  /\ \A a, b \in Nat : b < a => SubSeq(text, a, b) = << >>
           /\ \A i \in 1 .. Len(text) : SubSeq(text, i, i) = <<text[i]>>
  <1>1. ASSUME NEW a \in Nat, NEW b \in Nat, b < a PROVE SubSeq(text, a, b) = << >>
    BY <1>1
  <1>2. ASSUME NEW i \in 1 .. Len(text) PROVE SubSeq(text, i, i) = <<text[i]>>
    <2>1. SubSeq(text, i, i) \in Seq(S) /\ Len(SubSeq(text, i, i)) = 1 /\ SubSeq(text, i, i)[1] = text[i]
      OBVIOUS
    <2>2. <<text[i]>> \in Seq(S) /\ Len(<<text[i]>>) = 1 /\ <<text[i]>>[1] = text[i]
      OBVIOUS
    <2>3. \A j \in 1 .. 1 : SubSeq(text, i, i)[j] = <<text[i]>>[j]
      BY <2>1, <2>2
    <2> QED
      BY <2>1, <2>2, <2>3, SeqEqual
  <1> QED
    BY <1>1, <1>2

\* The words of a text are a sequence.
LEMMA WordsAreSequence ==
    ASSUME NEW text \in Seq(ColorChars)
    PROVE  /\ Cardinality(Commas(text)) \in Nat
           /\ Words[text] \in Seq(Seq(ColorChars)) /\ Len(Words[text]) = Cardinality(Commas(text)) + 1
  <1>1. Cardinality(Commas(text)) \in Nat
    <2>1. DOMAIN text = 1 .. Len(text) /\ Len(text) \in Int /\ 1 \in Int
      OBVIOUS
    <2>2. Commas(text) \subseteq DOMAIN text
      BY DEF Commas
    <2>3. IsFiniteSet(1 .. Len(text))
      BY <2>1, FS_Interval
    <2>4. IsFiniteSet(Commas(text))
      BY <2>1, <2>2, <2>3, FS_Subset
    <2> QED
      BY <2>4, FS_CardinalityType
  <1>2. PICK sep \in [Nat -> Nat] :
              /\ sep[0] = 0
              /\ \A n \in Nat : sep[n + 1] = Min(NextSep(text, sep[n]))
              /\ Words[text] = [n \in 1 .. Cardinality(Commas(text)) + 1 |->
                                    SubSeq(text, sep[n - 1] + 1, sep[n] - 1)]
    BY WordsAre
  <1>3. PICK m \in Nat : m = Cardinality(Commas(text)) + 1
    BY <1>1
  <1>4. ASSUME NEW n \in 1 .. m PROVE SubSeq(text, sep[n - 1] + 1, sep[n] - 1) \in Seq(ColorChars)
    <2>1. n - 1 \in Nat /\ (n - 1) + 1 = n
      OBVIOUS
    <2>2. PICK a \in Nat : a = sep[n - 1]
      BY <2>1
    <2>3. PICK b \in 1 .. Len(text) + 1 : b = sep[n]
      BY <1>2, <2>1, <2>2, NextSepIs
    <2>4. Len(text) \in Nat /\ a + 1 \in Nat \ {0} /\ b - 1 \in Nat /\ b - 1 <= Len(text)
      OBVIOUS
    <2>5. ASSUME NEW i \in Nat, NEW k \in Nat, i >= 1, k <= Len(text)
          PROVE  SubSeq(text, i, k) \in Seq(ColorChars)
      <3>1. \A j \in i .. k : text[j] \in ColorChars
        <4>1. \A j \in i .. k : j \in 1 .. Len(text)
          BY <2>5
        <4> QED
          BY <4>1
      <3> QED
        BY <3>1, SubSeqProperties
    <2>6. SubSeq(text, a + 1, b - 1) \in Seq(ColorChars)
      BY <2>4, <2>5
    <2> QED
      BY <2>2, <2>3, <2>6
  <1>5. PICK w \in [1 .. m -> Seq(ColorChars)] : w = Words[text]
    BY <1>2, <1>3, <1>4
  <1>6. w \in Seq(Seq(ColorChars)) /\ Len(w) = m
    BY FunctionIsSequence
  <1> QED
    BY <1>1, <1>3, <1>5, <1>6

\* Words between separators that have just room for them.
LEMMA ThreeFit ==
    ASSUME NEW a \in Nat, NEW b \in Nat, NEW c \in Nat,
           0 + 2 <= a, a + 2 <= b, b + 2 <= c, c <= 6
    PROVE  a = 2 /\ b = 4 /\ c = 6
  OBVIOUS

LEMMA ThirdFits ==
    ASSUME NEW n \in Nat, NEW c \in Nat, c <= n + 1, n <= 5
    PROVE  c <= 6 /\ (c = 6 => n = 5)
  OBVIOUS

LEMMA FourthFits ==
    ASSUME NEW n \in Nat, NEW c \in Nat, NEW d \in Nat, c + 2 <= d, d <= n + 1, n <= 7
    PROVE  c <= 6 /\ (c = 6 => d = 8 /\ n = 7)
  OBVIOUS

\* In a text that has hardly room for them, words have one digit each.
LEMMA ShortWords ==
    ASSUME NEW text \in Seq(ColorChars), NEW m \in {3, 4}, Len(text) <= 2 * m - 1,
           WordsEnd(Words[text]) = "read", Len(Words[text]) >= m
    PROVE  \A k \in 1 .. m : Stoi[Words[text][k]] \in 0 .. 9
  <1>1. PICK sep \in [Nat -> Nat] :
              /\ sep[0] = 0
              /\ \A n \in Nat : sep[n + 1] = Min(NextSep(text, sep[n]))
              /\ Words[text] = [n \in 1 .. Cardinality(Commas(text)) + 1 |->
                                    SubSeq(text, sep[n - 1] + 1, sep[n] - 1)]
    BY WordsAre
  <1>2. PICK words \in Seq(Seq(ColorChars)) : words = Words[text]
    BY WordsAreSequence
  <1>3. m \in Nat /\ Len(text) \in Nat /\ Len(words) \in Nat /\ m <= Len(words)
    <2>1. Len(text) \in Nat
      OBVIOUS
    <2>2. Len(words) \in Nat
      OBVIOUS
    <2>3. m \in Nat
      OBVIOUS
    <2> QED
      BY <1>2, <2>1, <2>2, <2>3
  <1>4. \A k \in 1 .. m : k \in 1 .. Len(words) /\ k - 1 \in Nat /\ k \in Nat
    BY <1>3
  <1>5. \A k \in 1 .. m : words[k] = SubSeq(text, sep[k - 1] + 1, sep[k] - 1)
    <2>1. Len(words) = Cardinality(Commas(text)) + 1
      BY <1>2, WordsAreSequence
    <2> QED
      BY <1>1, <1>2, <1>4, <2>1
  <1>6. \A k \in 1 .. m : words[k] # << >> /\ IsDigit(words[k][1])
    <2>1. \A word \in Range(words) : word # << >> /\ IsDigit(word[1])
      BY <1>2 DEF WordsEnd
    <2>2. \A k \in 1 .. m : words[k] \in Range(words)
      <3>1. DOMAIN words = 1 .. Len(words)
        OBVIOUS
      <3> QED
        BY <1>4, <3>1 DEF Range
    <2> QED
      BY <2>1, <2>2
  <1>7. \A k \in 1 .. m : sep[k - 1] \in Nat /\ sep[k] \in Nat /\ sep[k] <= Len(text) + 1
    <2> TAKE k \in 1 .. m
    <2>1. PICK before \in Nat : before = sep[k - 1]
      BY <1>4
    <2>2. (k - 1) + 1 = k /\ k - 1 \in Nat
      BY <1>4
    <2>3. sep[k] = Min(NextSep(text, before))
      BY <1>1, <2>1, <2>2
    <2>4. Min(NextSep(text, before)) \in 1 .. Len(text) + 1
      BY NextSepIs
    <2> QED
      BY <1>3, <1>4, <2>1, <2>3, <2>4
  <1>8. \A k \in 1 .. m : sep[k - 1] + 2 <= sep[k]
    <2> TAKE k \in 1 .. m
    <2>1. PICK a \in Nat, b \in Nat : a = sep[k - 1] /\ b = sep[k]
      BY <1>7
    <2>2. SUFFICES ASSUME ~(a + 2 <= b) PROVE FALSE
      BY <2>1
    <2>3. CASE b = 0
      <3>1. SubSeq(text, a + 1, b - 1) = << >>
        BY <2>1, <2>3
      <3> QED
        BY <1>5, <1>6, <2>1, <3>1
    <2>4. CASE b # 0
      <3>1. a + 1 \in Nat /\ b - 1 \in Nat /\ b - 1 < a + 1
        BY <2>2, <2>4
      <3>2. SubSeq(text, a + 1, b - 1) = << >>
        BY <3>1, Pieces
      <3> QED
        BY <1>5, <1>6, <2>1, <3>2
    <2> QED
      BY <2>3, <2>4
  <1>9. \A k \in 1 .. m : sep[k - 1] + 1 = 2 * k - 1 /\ sep[k] - 1 = 2 * k - 1 /\ 2 * k - 1 \in 1 .. Len(text)
    <2>1. CASE m = 3
      <3>1. PICK a \in Nat, b \in Nat, c \in Nat : a = sep[1] /\ b = sep[2] /\ c = sep[3]
        OBVIOUS
      <3>2. 1 .. 3 = {1, 2, 3}
        OBVIOUS
      <3>3. 0 + 2 <= a /\ a + 2 <= b /\ b + 2 <= c /\ c <= Len(text) + 1 /\ Len(text) <= 5
        BY <1>1, <1>7, <1>8, <2>1, <3>1, <3>2
      <3>4. a = 2 /\ b = 4 /\ c = 6 /\ Len(text) = 5
        BY <1>3, <3>3, ThreeFit, ThirdFits
      <3>5. /\ 1 - 1 = 0 /\ 2 - 1 = 1 /\ 3 - 1 = 2
            /\ 0 + 1 = 2 * 1 - 1 /\ 2 - 1 = 2 * 1 - 1 /\ 2 + 1 = 2 * 2 - 1 /\ 4 - 1 = 2 * 2 - 1
            /\ 4 + 1 = 2 * 3 - 1 /\ 6 - 1 = 2 * 3 - 1
            /\ 2 * 1 - 1 \in 1 .. 5 /\ 2 * 2 - 1 \in 1 .. 5 /\ 2 * 3 - 1 \in 1 .. 5
        OBVIOUS
      <3>6. ASSUME NEW k \in {1, 2, 3}
            PROVE  sep[k - 1] + 1 = 2 * k - 1 /\ sep[k] - 1 = 2 * k - 1 /\ 2 * k - 1 \in 1 .. Len(text)
        BY <1>1, <3>1, <3>4, <3>5
      <3> QED
        BY <2>1, <3>2, <3>6
    <2>2. CASE m = 4
      <3>1. PICK a \in Nat, b \in Nat, c \in Nat, d \in Nat : a = sep[1] /\ b = sep[2] /\ c = sep[3] /\ d = sep[4]
        OBVIOUS
      <3>2. 1 .. 4 = {1, 2, 3, 4}
        OBVIOUS
      <3>3. 0 + 2 <= a /\ a + 2 <= b /\ b + 2 <= c /\ c + 2 <= d /\ d <= Len(text) + 1 /\ Len(text) <= 7
        BY <1>1, <1>7, <1>8, <2>2, <3>1, <3>2
      <3>4. a = 2 /\ b = 4 /\ c = 6 /\ d = 8 /\ Len(text) = 7
        <4>1. PICK n \in Nat : n = Len(text)
          BY <1>3
        <4>2. c <= 6 /\ (c = 6 => d = 8 /\ n = 7)
          BY <3>3, <4>1, FourthFits
        <4>3. 0 + 2 <= a /\ a + 2 <= b /\ b + 2 <= c
          BY <3>3
        <4>4. a = 2 /\ b = 4 /\ c = 6
          BY <4>2, <4>3, ThreeFit
        <4> QED
          BY <4>1, <4>2, <4>4
      <3>5. /\ 1 - 1 = 0 /\ 2 - 1 = 1 /\ 3 - 1 = 2 /\ 4 - 1 = 3
            /\ 0 + 1 = 2 * 1 - 1 /\ 2 - 1 = 2 * 1 - 1 /\ 2 + 1 = 2 * 2 - 1 /\ 4 - 1 = 2 * 2 - 1
            /\ 4 + 1 = 2 * 3 - 1 /\ 6 - 1 = 2 * 3 - 1 /\ 6 + 1 = 2 * 4 - 1 /\ 8 - 1 = 2 * 4 - 1
            /\ 2 * 1 - 1 \in 1 .. 7 /\ 2 * 2 - 1 \in 1 .. 7 /\ 2 * 3 - 1 \in 1 .. 7 /\ 2 * 4 - 1 \in 1 .. 7
        OBVIOUS
      <3>6. ASSUME NEW k \in {1, 2, 3, 4}
            PROVE  sep[k - 1] + 1 = 2 * k - 1 /\ sep[k] - 1 = 2 * k - 1 /\ 2 * k - 1 \in 1 .. Len(text)
        BY <1>1, <3>1, <3>4, <3>5
      <3> QED
        BY <2>2, <3>2, <3>6
    <2> QED
      BY <2>1, <2>2
  <1> TAKE k \in 1 .. m
  <1>10. words[k] = <<text[2 * k - 1]>>
    BY <1>5, <1>9, Pieces
  <1>11. PICK n \in 0 .. 9 : text[2 * k - 1] = Digit[n + 1]
    <2>1. <<text[2 * k - 1]>>[1] = text[2 * k - 1]
      OBVIOUS
    <2> QED
      BY <1>6, <1>10, <2>1, TenDigits
  <1> QED
    BY <1>2, <1>10, <1>11, StoiOfDigit

-----------------------------------------------------------------------------
(* The names of colors. *)

\* The digits of a number, and the one digit of a small one.
LEMMA DecimalIs ==
    ASSUME NEW n \in 0 .. 255
    PROVE  /\ Decimal(n) \in Seq(ColorChars)
           /\ n < 10 => Decimal(n) = <<Digit[n + 1]>>
  <1> DEFINE hundreds == IF n >= 100 THEN <<Digit[(n \div 100) + 1]>> ELSE << >>
             tens     == IF n >= 10 THEN <<Digit[((n \div 10) % 10) + 1]>> ELSE << >>
             ones     == <<Digit[(n % 10) + 1]>>
  <1>1. \A i \in 1 .. 10 : <<Digit[i]>> \in Seq(ColorChars)
    <2>1. \A i \in 1 .. 10 : Digit[i] \in ColorChars
      BY DEF ColorChars
    <2> QED
      BY <2>1
  <1>2. << >> \in Seq(ColorChars)
    OBVIOUS
  <1>3. hundreds \in Seq(ColorChars)
    <2>1. n >= 100 => (n \div 100) + 1 \in 1 .. 10
      OBVIOUS
    <2> QED
      BY <1>1, <1>2, <2>1
  <1>4. tens \in Seq(ColorChars)
    <2>1. ((n \div 10) % 10) + 1 \in 1 .. 10
      OBVIOUS
    <2> QED
      BY <1>1, <1>2, <2>1
  <1>5. ones \in Seq(ColorChars)
    <2>1. (n % 10) + 1 \in 1 .. 10
      OBVIOUS
    <2> QED
      BY <1>1, <2>1
  <1>6. Decimal(n) = hundreds \o tens \o ones
    BY DEF Decimal
  <1>7. Decimal(n) \in Seq(ColorChars)
    <2> HIDE DEF hundreds, tens, ones
    <2> QED
      BY <1>3, <1>4, <1>5, <1>6, ConcatProperties
  <1>8. n < 10 => Decimal(n) = <<Digit[n + 1]>>
    <2>1. SUFFICES ASSUME n < 10 PROVE Decimal(n) = <<Digit[n + 1]>>
      OBVIOUS
    <2>2. hundreds = << >> /\ tens = << >>
      BY <2>1
    <2>3. ones = <<Digit[n + 1]>>
      <3>1. n % 10 = n
        BY <2>1
      <3> QED
        BY <3>1
    <2> HIDE DEF hundreds, tens, ones
    <2>4. << >> \o << >> \o ones = ones
      BY <1>5, ConcatEmptySeq
    <2> QED
      BY <1>6, <2>2, <2>3, <2>4
  <1> QED
    BY <1>7, <1>8

\* An opacity.
LEMMA OpacityIs ==
    ASSUME NEW hundredths \in 0 .. 100
    PROVE  /\ Opacity(hundredths) \in Seq(ColorChars)
           /\ \A n \in {0, 1} : hundredths = 100 * n => Opacity(hundredths) = <<Digit[n + 1]>>
  <1>1. ASSUME NEW n \in {0, 1}, hundredths = 100 * n
        PROVE  Opacity(hundredths) \in Seq(ColorChars) /\ Opacity(hundredths) = <<Digit[n + 1]>>
    <2>1. n \in 0 .. 255 /\ n < 10 /\ hundredths \in {0, 100} /\ hundredths \div 100 = n
      BY <1>1
    <2>2. Opacity(hundredths) = Decimal(n)
      BY <2>1 DEF Opacity
    <2> QED
      BY <2>1, <2>2, DecimalIs
  <1>3. CASE hundredths \notin {0, 100}
    <2> DEFINE front == <<"0", ".", Digit[(hundredths \div 10) + 1]>>
               back  == IF hundredths % 10 = 0 THEN << >> ELSE <<Digit[(hundredths % 10) + 1]>>
    <2>1. hundredths % 100 # 0
      BY <1>3
    <2>2. Opacity(hundredths) = front \o back
      BY <1>3, <2>1 DEF Opacity
    <2>3. "0" \in ColorChars /\ "." \in ColorChars
      <3>1. "0" = Digit[1] /\ 1 \in 1 .. 10
        BY DEF Digit
      <3> QED
        BY <3>1 DEF ColorChars
    <2>4. \A i \in 1 .. 10 : Digit[i] \in ColorChars
      BY DEF ColorChars
    <2>5. (hundredths \div 10) + 1 \in 1 .. 10 /\ (hundredths % 10) + 1 \in 1 .. 10
      BY <1>3
    <2>6. front \in Seq(ColorChars)
      BY <2>3, <2>4, <2>5
    <2>7. back \in Seq(ColorChars)
      BY <2>4, <2>5
    <2> HIDE DEF front, back
    <2> QED
      BY <1>3, <2>2, <2>6, <2>7, ConcatProperties
  <1>4. CASE hundredths \in {0, 100}
    <2>1. PICK n \in {0, 1} : hundredths = 100 * n
      <3>1. 0 = 100 * 0 /\ 100 = 100 * 1
        OBVIOUS
      <3> QED
        BY <1>4, <3>1
    <2> QED
      BY <1>1, <2>1
  <1>5. \A n \in {0, 1} : hundredths = 100 * n => Opacity(hundredths) = <<Digit[n + 1]>>
    BY <1>1
  <1> QED
    BY <1>3, <1>4, <1>5

\* A sequence of one member.
LEMMA OneIsSequence ==
    ASSUME NEW S, NEW e \in S
    PROVE  <<e>> \in Seq(S)
  OBVIOUS

\* Sequences of one member each, one behind the other.
LEMMA JoinOne ==
    ASSUME NEW S, NEW s \in Seq(S), NEW e \in S, NEW m \in Nat, m = Len(s) + 1
    PROVE  /\ s \o <<e>> \in Seq(S) /\ Len(s \o <<e>>) = m /\ (s \o <<e>>)[m] = e
           /\ \A i \in 1 .. m : i # m => (s \o <<e>>)[i] = s[i]
  <1>1. <<e>> \in Seq(S) /\ Len(<<e>>) = 1 /\ <<e>>[1] = e
    OBVIOUS
  <1>2. m \in 1 .. Len(s) + 1 /\ m > Len(s) /\ m - Len(s) = 1
    OBVIOUS
  <1>3. \A i \in 1 .. m : i # m => i \in 1 .. Len(s) + 1 /\ i <= Len(s)
    OBVIOUS
  <1> QED
    BY <1>1, <1>2, <1>3, ConcatProperties

LEMMA FiveJoined ==
    ASSUME NEW u, NEW v, NEW w, NEW x, NEW y
    PROVE  LET t == <<u>> \o <<v>> \o <<w>> \o <<x>> \o <<y>>
           IN  Len(t) = 5 /\ t[1] = u /\ t[2] = v /\ t[3] = w /\ t[4] = x /\ t[5] = y
  <1>1. PICK S : S = {u, v, w, x, y}
    OBVIOUS
  <1>2. u \in S /\ v \in S /\ w \in S /\ x \in S /\ y \in S
    BY <1>1
  <1>3. <<u>> \in Seq(S) /\ Len(<<u>>) = 1 /\ <<u>>[1] = u
    <2>1. <<u>> \in Seq(S)
      BY <1>2
    <2> QED
      BY <2>1
  <1>4. /\ <<u>> \o <<v>> \in Seq(S) /\ Len(<<u>> \o <<v>>) = 2
        /\ (<<u>> \o <<v>>)[1] = u
        /\ (<<u>> \o <<v>>)[2] = v
    <2>1. PICK s \in Seq(S) : s = <<u>>
      BY <1>3
    <2>2. PICK m \in Nat : m = 2
      OBVIOUS
    <2>3. m = Len(s) + 1
      BY <1>3, <2>1, <2>2
    <2>4. /\ s \o <<v>> \in Seq(S) /\ Len(s \o <<v>>) = m /\ (s \o <<v>>)[m] = v
          /\ \A i \in 1 .. m : i # m => (s \o <<v>>)[i] = s[i]
      BY <1>2, <2>3, JoinOne
    <2>5. 1 \in 1 .. 2 /\ 1 # 2
      OBVIOUS
    <2> QED
      BY <1>3, <2>1, <2>2, <2>4, <2>5
  <1>5. /\ <<u>> \o <<v>> \o <<w>> \in Seq(S) /\ Len(<<u>> \o <<v>> \o <<w>>) = 3
        /\ (<<u>> \o <<v>> \o <<w>>)[1] = u
        /\ (<<u>> \o <<v>> \o <<w>>)[2] = v
        /\ (<<u>> \o <<v>> \o <<w>>)[3] = w
    <2>1. PICK s \in Seq(S) : s = <<u>> \o <<v>>
      BY <1>4
    <2>2. PICK m \in Nat : m = 3
      OBVIOUS
    <2>3. m = Len(s) + 1
      BY <1>4, <2>1, <2>2
    <2>4. /\ s \o <<w>> \in Seq(S) /\ Len(s \o <<w>>) = m /\ (s \o <<w>>)[m] = w
          /\ \A i \in 1 .. m : i # m => (s \o <<w>>)[i] = s[i]
      BY <1>2, <2>3, JoinOne
    <2>5. 1 \in 1 .. 3 /\ 1 # 3 /\ 2 \in 1 .. 3 /\ 2 # 3
      OBVIOUS
    <2> QED
      BY <1>4, <2>1, <2>2, <2>4, <2>5
  <1>6. /\ <<u>> \o <<v>> \o <<w>> \o <<x>> \in Seq(S) /\ Len(<<u>> \o <<v>> \o <<w>> \o <<x>>) = 4
        /\ (<<u>> \o <<v>> \o <<w>> \o <<x>>)[1] = u
        /\ (<<u>> \o <<v>> \o <<w>> \o <<x>>)[2] = v
        /\ (<<u>> \o <<v>> \o <<w>> \o <<x>>)[3] = w
        /\ (<<u>> \o <<v>> \o <<w>> \o <<x>>)[4] = x
    <2>1. PICK s \in Seq(S) : s = <<u>> \o <<v>> \o <<w>>
      BY <1>5
    <2>2. PICK m \in Nat : m = 4
      OBVIOUS
    <2>3. m = Len(s) + 1
      BY <1>5, <2>1, <2>2
    <2>4. /\ s \o <<x>> \in Seq(S) /\ Len(s \o <<x>>) = m /\ (s \o <<x>>)[m] = x
          /\ \A i \in 1 .. m : i # m => (s \o <<x>>)[i] = s[i]
      BY <1>2, <2>3, JoinOne
    <2>5. 1 \in 1 .. 4 /\ 1 # 4 /\ 2 \in 1 .. 4 /\ 2 # 4 /\ 3 \in 1 .. 4 /\ 3 # 4
      OBVIOUS
    <2> QED
      BY <1>5, <2>1, <2>2, <2>4, <2>5
  <1>7. /\ <<u>> \o <<v>> \o <<w>> \o <<x>> \o <<y>> \in Seq(S) /\ Len(<<u>> \o <<v>> \o <<w>> \o <<x>> \o <<y>>) = 5
        /\ (<<u>> \o <<v>> \o <<w>> \o <<x>> \o <<y>>)[1] = u
        /\ (<<u>> \o <<v>> \o <<w>> \o <<x>> \o <<y>>)[2] = v
        /\ (<<u>> \o <<v>> \o <<w>> \o <<x>> \o <<y>>)[3] = w
        /\ (<<u>> \o <<v>> \o <<w>> \o <<x>> \o <<y>>)[4] = x
        /\ (<<u>> \o <<v>> \o <<w>> \o <<x>> \o <<y>>)[5] = y
    <2>1. PICK s \in Seq(S) : s = <<u>> \o <<v>> \o <<w>> \o <<x>>
      BY <1>6
    <2>2. PICK m \in Nat : m = 5
      OBVIOUS
    <2>3. m = Len(s) + 1
      BY <1>6, <2>1, <2>2
    <2>4. /\ s \o <<y>> \in Seq(S) /\ Len(s \o <<y>>) = m /\ (s \o <<y>>)[m] = y
          /\ \A i \in 1 .. m : i # m => (s \o <<y>>)[i] = s[i]
      BY <1>2, <2>3, JoinOne
    <2>5. 1 \in 1 .. 5 /\ 1 # 5 /\ 2 \in 1 .. 5 /\ 2 # 5 /\ 3 \in 1 .. 5 /\ 3 # 5 /\ 4 \in 1 .. 5 /\ 4 # 5
      OBVIOUS
    <2> QED
      BY <1>6, <2>1, <2>2, <2>4, <2>5
  <1> QED
    BY <1>7

\* The numbers of a color, and their digits where each has one.
LEMMA RgbIs ==
    ASSUME NEW rgb \in [1 .. 3 -> 0 .. 255]
    PROVE  /\ Rgb(rgb) \in Seq(ColorChars)
           /\ (\A i \in 1 .. 3 : rgb[i] < 10) =>
                /\ Len(Rgb(rgb)) = 5 /\ Rgb(rgb)[2] = "," /\ Rgb(rgb)[4] = ","
                /\ Rgb(rgb)[1] = Digit[rgb[1] + 1]
                /\ Rgb(rgb)[3] = Digit[rgb[2] + 1]
                /\ Rgb(rgb)[5] = Digit[rgb[3] + 1]
  <1>1. /\ rgb[1] \in 0 .. 255 /\ rgb[2] \in 0 .. 255 /\ rgb[3] \in 0 .. 255
        /\ 1 \in 1 .. 3 /\ 2 \in 1 .. 3 /\ 3 \in 1 .. 3
    OBVIOUS
  <1>2. PICK a \in Seq(ColorChars), b \in Seq(ColorChars), c \in Seq(ColorChars) :
            a = Decimal(rgb[1]) /\ b = Decimal(rgb[2]) /\ c = Decimal(rgb[3])
    BY <1>1, DecimalIs
  <1>3. <<",">> \in Seq(ColorChars)
    <2>1. "," \in ColorChars
      BY DEF ColorChars
    <2> QED
      BY <2>1, OneIsSequence
  <1>4. Rgb(rgb) = a \o <<",">> \o b \o <<",">> \o c
    BY <1>2 DEF Rgb
  <1>5. Rgb(rgb) \in Seq(ColorChars)
    <2>1. a \o <<",">> \in Seq(ColorChars)
      BY <1>3, ConcatProperties
    <2>2. (a \o <<",">>) \o b \in Seq(ColorChars)
      BY <2>1, ConcatProperties
    <2>3. ((a \o <<",">>) \o b) \o <<",">> \in Seq(ColorChars)
      BY <1>3, <2>2, ConcatProperties
    <2>4. (((a \o <<",">>) \o b) \o <<",">>) \o c \in Seq(ColorChars)
      BY <2>3, ConcatProperties
    <2> QED
      BY <1>4, <2>4
  <1>6. ASSUME \A i \in 1 .. 3 : rgb[i] < 10
        PROVE  /\ Len(Rgb(rgb)) = 5 /\ Rgb(rgb)[2] = "," /\ Rgb(rgb)[4] = ","
               /\ Rgb(rgb)[1] = Digit[rgb[1] + 1]
               /\ Rgb(rgb)[3] = Digit[rgb[2] + 1]
               /\ Rgb(rgb)[5] = Digit[rgb[3] + 1]
    <2>1. PICK x, y, z : x = Digit[rgb[1] + 1] /\ y = Digit[rgb[2] + 1] /\ z = Digit[rgb[3] + 1]
      OBVIOUS
    <2>2. a = <<x>> /\ b = <<y>> /\ c = <<z>>
      BY <1>1, <1>2, <1>6, <2>1, DecimalIs
    <2>3. PICK comma : comma = ","
      OBVIOUS
    <2>4. LET t == <<x>> \o <<comma>> \o <<y>> \o <<comma>> \o <<z>>
          IN  Len(t) = 5 /\ t[1] = x /\ t[2] = comma /\ t[3] = y /\ t[4] = comma /\ t[5] = z
      BY FiveJoined
    <2> QED
      BY <1>4, <2>1, <2>2, <2>3, <2>4
  <1> QED
    BY <1>5, <1>6

\* What stands behind the parenthesis of a name, up to three times its place.
LEMMA InsideIs ==
    ASSUME NEW S, NEW name \in Seq(S), NEW b \in {4, 5}, b <= Len(name), name[b] = "(",
           \A i \in 1 .. b - 1 : name[i] # "("
    PROVE  /\ Inside(name) \in Seq(S) /\ Len(Inside(name)) <= 2 * b - 3
           /\ Len(name) >= 3 * b - 3 =>
                /\ Len(Inside(name)) = 2 * b - 3
                /\ \A i \in 1 .. 2 * b - 3 : Inside(name)[i] = name[b + i]
  <1>1. b \in Nat /\ Len(name) \in Nat /\ b \in 1 .. Len(name)
    OBVIOUS
  <1>2. SelectInSeq(name, LAMBDA c : c = "(") = b
    <2> DEFINE at_parenthesis == {i \in 1 .. Len(name) : name[i] = "("}
    <2>1. b \in at_parenthesis /\ b \in Int
      BY <1>1
    <2>2. \A i \in at_parenthesis : i \in Int /\ b <= i
      BY <1>1
    <2>3. Min(at_parenthesis) = b
      BY <2>1, <2>2, MinIsLeast
    <2> QED
      BY <2>1, <2>3 DEF SelectInSeq
  <1>3. PICK end \in Nat : end = IF 3 * b - 3 < Len(name) THEN 3 * b - 3 ELSE Len(name)
    BY <1>1
  <1>4. Inside(name) = SubSeq(name, b + 1, end)
    <2>1. b + (b + (b - 1) - 2) = 3 * b - 3
      BY <1>1
    <2> QED
      BY <1>2, <1>3, <2>1 DEF Inside
  <1>5. end <= Len(name) /\ end <= 3 * b - 3 /\ (Len(name) >= 3 * b - 3 => end = 3 * b - 3)
    BY <1>1, <1>3
  <1>6. \A i \in b + 1 .. end : name[i] \in S
    <2>1. \A i \in b + 1 .. end : i \in 1 .. Len(name)
      BY <1>1, <1>5
    <2> QED
      BY <2>1
  <1>7. /\ SubSeq(name, b + 1, end) \in Seq(S)
        /\ Len(SubSeq(name, b + 1, end)) = IF b + 1 <= end THEN end - (b + 1) + 1 ELSE 0
        /\ \A i \in 1 .. end - (b + 1) + 1 : SubSeq(name, b + 1, end)[i] = name[(b + 1) + i - 1]
    BY <1>1, <1>6, SubSeqProperties
  <1>8. Len(Inside(name)) <= 2 * b - 3
    BY <1>1, <1>4, <1>5, <1>7
  <1>9. ASSUME Len(name) >= 3 * b - 3
        PROVE  /\ Len(Inside(name)) = 2 * b - 3
               /\ \A i \in 1 .. 2 * b - 3 : Inside(name)[i] = name[b + i]
    <2>1. end - (b + 1) + 1 = 2 * b - 3 /\ b + 1 <= end
      BY <1>1, <1>5, <1>9
    <2>2. \A i \in 1 .. 2 * b - 3 : (b + 1) + i - 1 = b + i
      BY <1>1
    <2> QED
      BY <1>4, <1>7, <2>1, <2>2
  <1> QED
    BY <1>4, <1>7, <1>8, <1>9

\* A name begins with "rgb" if it has these characters in front.
LEMMA BeginsWithRgb ==
    ASSUME NEW S, NEW name \in Seq(S), Len(name) >= 3, name[1] = "r", name[2] = "g", name[3] = "b"
    PROVE  IsRgb(name)
  <1>1. PICK r, g, b : r = "r" /\ g = "g" /\ b = "b"
    OBVIOUS
  <1>2. PICK rgb : rgb = <<r, g, b>>
    OBVIOUS
  <1>3. Len(rgb) = 3 /\ rgb[1] = r /\ rgb[2] = g /\ rgb[3] = b /\ 1 .. 3 = {1, 2, 3}
    BY <1>2
  <1>4. /\ SubSeq(name, 1, 3) \in Seq(S) /\ Len(SubSeq(name, 1, 3)) = 3
        /\ \A i \in 1 .. 3 : SubSeq(name, 1, 3)[i] = name[i]
    <2>1. \A i \in 1 .. 3 : name[i] \in S /\ 1 + i - 1 = i
      OBVIOUS
    <2> QED
      BY <2>1, SubSeqProperties
  <1>5. rgb \in Seq(S)
    <2>1. name[1] \in S /\ name[2] \in S /\ name[3] \in S
      OBVIOUS
    <2> QED
      BY <1>1, <1>2, <2>1
  <1>6. SubSeq(name, 1, 3) = rgb
    BY <1>1, <1>3, <1>4, <1>5, SeqEqual
  <1>7. SubSeq(rgb, 1, 3) = rgb
    <2>1. /\ SubSeq(rgb, 1, 3) \in Seq(S) /\ Len(SubSeq(rgb, 1, 3)) = 3
          /\ \A i \in 1 .. 3 : SubSeq(rgb, 1, 3)[i] = rgb[i]
      <3>1. \A i \in 1 .. 3 : rgb[i] \in S
        <4>1. \A i \in 1 .. Len(rgb) : rgb[i] \in S
          BY <1>5
        <4> QED
          BY <1>3, <4>1
      <3>2. \A i \in 1 .. 3 : 1 + i - 1 = i
        OBVIOUS
      <3> QED
        BY <3>1, <3>2, SubSeqProperties
    <2> QED
      BY <1>3, <1>5, <2>1, SeqEqual
  <1>8. IsPrefix(rgb, name)
    BY <1>3, <1>6, <1>7 DEF IsPrefix
  <1> QED
    BY <1>1, <1>2, <1>8 DEF IsRgb

\* Something between a front and a last character.
LEMMA Framed ==
    ASSUME NEW S, NEW front \in Seq(S), NEW middle \in Seq(S), NEW c \in S
    PROVE  LET name == front \o middle \o <<c>>
           IN  /\ name \in Seq(S) /\ Len(name) = Len(front) + Len(middle) + 1
               /\ \A i \in 1 .. Len(front) : name[i] = front[i]
               /\ \A i \in 1 .. Len(middle) : name[Len(front) + i] = middle[i]
  <1>1. PICK m \in Nat, n \in Nat : m = Len(front) /\ n = Len(middle)
    OBVIOUS
  <1>2. PICK most \in Seq(S) : most = front \o middle
    BY ConcatProperties
  <1>3. Len(most) = m + n /\ \A i \in 1 .. m + n : most[i] = IF i <= m THEN front[i] ELSE middle[i - m]
    BY <1>1, <1>2, ConcatProperties
  <1>4. <<c>> \in Seq(S) /\ Len(<<c>>) = 1
    OBVIOUS
  <1>5. /\ most \o <<c>> \in Seq(S) /\ Len(most \o <<c>>) = m + n + 1
        /\ \A i \in 1 .. m + n + 1 : (most \o <<c>>)[i] = IF i <= m + n THEN most[i] ELSE <<c>>[i - (m + n)]
    BY <1>3, <1>4, ConcatProperties
  <1>6. \A i \in 1 .. m : i \in 1 .. m + n /\ i <= m + n /\ i \in 1 .. m + n + 1
    OBVIOUS
  <1>7. \A i \in 1 .. n :
            /\ m + i \in 1 .. m + n /\ m + i <= m + n /\ m + i \in 1 .. m + n + 1
            /\ ~(m + i <= m) /\ (m + i) - m = i
    OBVIOUS
  <1>8. \A i \in 1 .. m : (most \o <<c>>)[i] = front[i]
    BY <1>3, <1>5, <1>6
  <1>9. \A i \in 1 .. n : (most \o <<c>>)[m + i] = middle[i]
    BY <1>3, <1>5, <1>7
  <1> QED
    BY <1>1, <1>2, <1>5, <1>8, <1>9

\* "rgb(" or "rgba(".
IsFront(front, b) ==
    /\ Len(front) = b
    /\ front[1] = "r" /\ front[2] = "g" /\ front[3] = "b" /\ front[b] = "("
    /\ b = 5 => front[4] = "a"

\* A piece is taken of a name, all the text if it is as long as that.
TakesPiece(name, text, most) ==
    /\ IsRgb(name) /\ Inside(name) \in Seq(ColorChars) /\ Len(Inside(name)) <= most
    /\ Len(text) = most =>
            Len(Inside(name)) = most /\ \A i \in 1 .. most : Inside(name)[i] = text[i]

\* The piece that is taken of the name of a color, which is all there is between the
\* parentheses if it is no longer than that piece.
LEMMA NameInside ==
    ASSUME NEW front \in Seq(ColorChars), NEW middle \in Seq(ColorChars), NEW c \in ColorChars,
           NEW b \in {4, 5}, IsFront(front, b), NEW most, most = 2 * b - 3,
           NEW name, name = front \o middle \o <<c>>
    PROVE  TakesPiece(name, middle, most)
  <1>1. b = Len(front)
    BY DEF IsFront
  <1>2. PICK n \in Nat : n = Len(middle)
    OBVIOUS
  <1>3. name \in Seq(ColorChars)
    BY Framed
  <1>4. /\ Len(name) = b + n + 1
        /\ \A i \in 1 .. b : name[i] = front[i]
        /\ \A i \in 1 .. n : name[b + i] = middle[i]
    BY <1>1, <1>2, Framed
  <1>5. b >= 4 /\ Len(name) >= 3 /\ b <= Len(name) /\ 1 \in 1 .. b /\ 2 \in 1 .. b /\ 3 \in 1 .. b /\ b \in 1 .. b
    BY <1>4
  <1>6. name[1] = "r" /\ name[2] = "g" /\ name[3] = "b" /\ name[b] = "("
    BY <1>1, <1>4, <1>5 DEF IsFront
  <1>7. IsRgb(name)
    BY <1>3, <1>5, <1>6, BeginsWithRgb
  <1>8. \A i \in 1 .. b - 1 : name[i] # "("
    <2>1. b = 5 => 4 \in 1 .. b /\ name[4] = "a"
      BY <1>1, <1>4 DEF IsFront
    <2>2. \A i \in 1 .. b - 1 : i \in {1, 2, 3} \/ (i = 4 /\ b = 5)
      OBVIOUS
    <2>3. "r" # "(" /\ "g" # "(" /\ "b" # "(" /\ "a" # "("
      OBVIOUS
    <2> QED
      BY <1>6, <2>1, <2>2, <2>3
  <1>9. /\ Inside(name) \in Seq(ColorChars) /\ Len(Inside(name)) <= 2 * b - 3
        /\ Len(name) >= 3 * b - 3 =>
                /\ Len(Inside(name)) = 2 * b - 3
                /\ \A i \in 1 .. 2 * b - 3 : Inside(name)[i] = name[b + i]
    BY <1>3, <1>5, <1>6, <1>8, InsideIs
  <1>10. n = 2 * b - 3 => Len(name) >= 3 * b - 3
    BY <1>4
  <1>11. n = 2 * b - 3 => \A i \in 1 .. 2 * b - 3 : Inside(name)[i] = middle[i]
    BY <1>4, <1>9, <1>10
  <1> QED
    BY <1>1, <1>2, <1>3, <1>7, <1>9, <1>10, <1>11 DEF TakesPiece

LEMMA TwoAndThree == Cardinality({2, 4}) = 2 /\ Cardinality({2, 4, 6}) = 3
  <1>1. IsFiniteSet({2}) /\ Cardinality({2}) = 1
    BY FS_Singleton
  <1>2. IsFiniteSet({2} \cup {4}) /\ Cardinality({2} \cup {4}) = 1 + 1
    <2>1. 4 \notin {2}
      OBVIOUS
    <2> QED
      BY <1>1, <2>1, FS_AddElement
  <1>3. {2} \cup {4} = {2, 4}
    OBVIOUS
  <1>4. Cardinality({2, 4} \cup {6}) = 2 + 1
    <2>1. 6 \notin {2, 4}
      OBVIOUS
    <2>2. IsFiniteSet({2, 4}) /\ Cardinality({2, 4}) = 2
      BY <1>2, <1>3
    <2> QED
      BY <2>1, <2>2, FS_AddElement
  <1>5. {2, 4} \cup {6} = {2, 4, 6}
    OBVIOUS
  <1> QED
    BY <1>2, <1>3, <1>4, <1>5

\* Digits with commas between them.
AreDigits(text, m, digits) ==
    /\ digits \in [1 .. m -> 0 .. 9]
    /\ \A k \in 1 .. m : text[2 * k - 1] = Digit[digits[k] + 1]
    /\ \A k \in 1 .. m - 1 : text[2 * k] = ","

\* Words that are read as these digits.
AreRead(words, m, digits) ==
    /\ Len(words) = m /\ WordsEnd(words) = "read"
    /\ \A k \in 1 .. m : Stoi[words[k]] = digits[k]

\* Three or four digits with commas between them are that many words.
LEMMA WordsOfDigits ==
    ASSUME NEW text \in Seq(ColorChars), NEW m \in {3, 4}, Len(text) = 2 * m - 1,
           NEW digits, AreDigits(text, m, digits), NEW words, words = Words[text]
    PROVE  AreRead(words, m, digits)
  <1>1. PICK sep \in [Nat -> Nat] :
              /\ sep[0] = 0
              /\ \A n \in Nat : sep[n + 1] = Min(NextSep(text, sep[n]))
              /\ Words[text] = [n \in 1 .. Cardinality(Commas(text)) + 1 |->
                                    SubSeq(text, sep[n - 1] + 1, sep[n] - 1)]
    BY WordsAre
  <1>2. \A k \in 1 .. m : IsDigit(text[2 * k - 1]) /\ text[2 * k - 1] # ","
    <2> TAKE k \in 1 .. m
    <2>1. PICK n \in 0 .. 9 : n = digits[k]
      BY DEF AreDigits
    <2>2. text[2 * k - 1] = Digit[n + 1]
      BY <2>1 DEF AreDigits
    <2> QED
      BY <2>2, TenDigits
  <1>3. \A i \in 1 .. Len(text) :
            \/ \E k \in 1 .. m : i = 2 * k - 1
            \/ \E k \in 1 .. m - 1 : i = 2 * k
    <2> TAKE i \in 1 .. Len(text)
    <2>1. CASE m = 3
      <3>1. i \in {1, 2, 3, 4, 5}
        BY <2>1
      <3>2. /\ 1 = 2 * 1 - 1 /\ 3 = 2 * 2 - 1 /\ 5 = 2 * 3 - 1 /\ 2 = 2 * 1 /\ 4 = 2 * 2
            /\ 1 \in 1 .. 3 /\ 2 \in 1 .. 3 /\ 3 \in 1 .. 3 /\ 1 \in 1 .. 3 - 1 /\ 2 \in 1 .. 3 - 1
        OBVIOUS
      <3> QED
        BY <2>1, <3>1, <3>2
    <2>2. CASE m = 4
      <3>1. i \in {1, 2, 3, 4, 5, 6, 7}
        BY <2>2
      <3>2. /\ 1 = 2 * 1 - 1 /\ 3 = 2 * 2 - 1 /\ 5 = 2 * 3 - 1 /\ 7 = 2 * 4 - 1
            /\ 2 = 2 * 1 /\ 4 = 2 * 2 /\ 6 = 2 * 3
            /\ 1 \in 1 .. 4 /\ 2 \in 1 .. 4 /\ 3 \in 1 .. 4 /\ 4 \in 1 .. 4
            /\ 1 \in 1 .. 4 - 1 /\ 2 \in 1 .. 4 - 1 /\ 3 \in 1 .. 4 - 1
        OBVIOUS
      <3> QED
        BY <2>2, <3>1, <3>2
    <2> QED
      BY <2>1, <2>2
  <1>4. Cardinality(Commas(text)) + 1 = m
    <2>1. Commas(text) = {2 * k : k \in 1 .. m - 1}
      <3>1. DOMAIN text = 1 .. Len(text)
        OBVIOUS
      <3>2. \A k \in 1 .. m - 1 : 2 * k \in 1 .. Len(text)
        OBVIOUS
      <3>3. \A k \in 1 .. m - 1 : 2 * k \in Commas(text)
        BY <3>1, <3>2 DEF Commas, AreDigits
      <3>4. \A i \in Commas(text) : \E k \in 1 .. m - 1 : i = 2 * k
        BY <1>2, <1>3, <3>1 DEF Commas
      <3> QED
        BY <3>3, <3>4
    <2>2. CASE m = 3
      <3>1. 1 .. m - 1 = {1, 2} /\ 2 * 1 = 2 /\ 2 * 2 = 4
        BY <2>2
      <3>2. Commas(text) = {2, 4}
        BY <2>1, <3>1
      <3> QED
        BY <2>2, <3>2, TwoAndThree
    <2>3. CASE m = 4
      <3>1. 1 .. m - 1 = {1, 2, 3} /\ 2 * 1 = 2 /\ 2 * 2 = 4 /\ 2 * 3 = 6
        BY <2>3
      <3>2. Commas(text) = {2, 4, 6}
        BY <2>1, <3>1
      <3> QED
        BY <2>3, <3>2, TwoAndThree
    <2> QED
      BY <2>2, <2>3
  <1>5. \A k \in 1 .. m : Min(NextSep(text, 2 * k - 2)) = 2 * k
    <2> TAKE k \in 1 .. m
    <2>1. 2 * k \in NextSep(text, 2 * k - 2)
      <3>1. CASE k = m
        <4>1. 2 * k = Len(text) + 1
          BY <3>1
        <4> QED
          BY <4>1 DEF NextSep
      <3>2. CASE k # m
        <4>1. k \in 1 .. m - 1 /\ 2 * k \in (2 * k - 2) + 1 .. Len(text)
          BY <3>2
        <4> QED
          BY <4>1 DEF NextSep, AreDigits
      <3> QED
        BY <3>1, <3>2
    <2>2. \A i \in NextSep(text, 2 * k - 2) : i \in Int /\ 2 * k <= i
      <3> TAKE i \in NextSep(text, 2 * k - 2)
      <3>1. CASE i = Len(text) + 1
        BY <3>1
      <3>2. CASE i \in (2 * k - 2) + 1 .. Len(text) /\ text[i] = ","
        <4>1. i # 2 * k - 1
          BY <1>2, <3>2
        <4>2. PICK a \in Int : a = (2 * k - 2) + 1
          OBVIOUS
        <4>3. i \in a .. Len(text)
          BY <3>2, <4>2
        <4> QED
          BY <4>1, <4>2, <4>3
      <3> QED
        BY <3>1, <3>2 DEF NextSep
    <2>3. 2 * k \in Int
      OBVIOUS
    <2> QED
      BY <2>1, <2>2, <2>3, MinIsLeast
  <1>6. \A k \in 0 .. m : sep[k] = 2 * k
    <2>1. \A n \in Nat : n + 1 \in 1 .. m /\ sep[n] = 2 * n => sep[n + 1] = 2 * (n + 1)
      <3> TAKE n \in Nat
      <3>1. PICK k \in Int : k = n + 1
        OBVIOUS
      <3>2. 2 * k - 2 = 2 * n
        BY <3>1
      <3>3. k \in 1 .. m => Min(NextSep(text, 2 * n)) = 2 * k
        BY <1>5, <3>2
      <3>4. sep[n + 1] = Min(NextSep(text, sep[n]))
        BY <1>1
      <3> QED
        BY <3>1, <3>3, <3>4
    <2>2. /\ 0 \in Nat /\ 1 \in Nat /\ 2 \in Nat /\ 3 \in Nat
          /\ 0 + 1 = 1 /\ 1 + 1 = 2 /\ 2 + 1 = 3 /\ 3 + 1 = 4 /\ 2 * 0 = 0
          /\ 1 \in 1 .. m /\ 2 \in 1 .. m /\ 3 \in 1 .. m /\ (m = 4 => 4 \in 1 .. m)
      OBVIOUS
    <2>3. sep[0] = 2 * 0
      BY <1>1
    <2>4. sep[1] = 2 * 1
      BY <2>1, <2>2, <2>3
    <2>5. sep[2] = 2 * 2
      BY <2>1, <2>2, <2>4
    <2>6. sep[3] = 2 * 3
      BY <2>1, <2>2, <2>5
    <2>7. m = 4 => sep[4] = 2 * 4
      BY <2>1, <2>2, <2>6
    <2> TAKE k \in 0 .. m
    <2>8. k \in {0, 1, 2, 3} \/ (k = 4 /\ m = 4)
      OBVIOUS
    <2> QED
      BY <2>3, <2>4, <2>5, <2>6, <2>7, <2>8
  <1>7. words \in Seq(Seq(ColorChars)) /\ words = Words[text]
    BY WordsAreSequence
  <1>8. Len(words) = m
    BY <1>4, <1>7, WordsAreSequence
  <1>9. \A k \in 1 .. m : words[k] = <<Digit[digits[k] + 1]>>
    <2> TAKE k \in 1 .. m
    <2>1. k - 1 \in 0 .. m /\ k \in 0 .. m /\ 2 * (k - 1) + 1 = 2 * k - 1 /\ 2 * k - 1 \in 1 .. Len(text)
      OBVIOUS
    <2>2. words[k] = SubSeq(text, sep[k - 1] + 1, sep[k] - 1)
      BY <1>1, <1>4, <1>7
    <2>3. words[k] = SubSeq(text, 2 * k - 1, 2 * k - 1)
      BY <1>6, <2>1, <2>2
    <2>4. text[2 * k - 1] = Digit[digits[k] + 1]
      BY DEF AreDigits
    <2> QED
      BY <2>1, <2>3, <2>4, Pieces
  <1>10. \A k \in 1 .. m : words[k] # << >> /\ IsDigit(words[k][1]) /\ Stoi[words[k]] = digits[k]
    <2> TAKE k \in 1 .. m
    <2>1. PICK n \in 0 .. 9 : n = digits[k]
      BY DEF AreDigits
    <2>2. PICK d : d = Digit[n + 1]
      OBVIOUS
    <2>3. words[k] = <<d>> /\ IsDigit(d)
      BY <1>9, <2>1, <2>2, TenDigits
    <2>4. Stoi[words[k]] = n
      BY <1>9, <2>1, StoiOfDigit
    <2> QED
      BY <2>1, <2>3, <2>4
  <1>11. WordsEnd(words) = "read"
    <2>1. \A word \in Range(words) : \E k \in 1 .. m : word = words[k]
      <3>1. DOMAIN words = 1 .. m
        BY <1>8
      <3> QED
        BY <3>1 DEF Range
    <2>2. ~(Len(words) < 3)
      BY <1>8
    <2> QED
      BY <1>10, <2>1, <2>2 DEF WordsEnd
  <1> QED
    BY <1>8, <1>10, <1>11 DEF AreRead

-----------------------------------------------------------------------------
(* Colors that come back. *)

LEMMA WordReturns ==
    ASSUME NEW word
    PROVE  LoadColor(PrintColor([word |-> word])) = [word |-> word] <=> IsShort([word |-> word])
  <1>1. PICK color : color = [word |-> word]
    OBVIOUS
  <1>2. DOMAIN color = {"word"} /\ color.word = word /\ "rgb" \notin DOMAIN color
    BY <1>1
  <1>3. PrintColor(color) = word
    BY <1>2 DEF PrintColor
  <1>4. IsShort(color) <=> ~IsRgb(word)
    BY <1>2 DEF IsShort
  <1>5. \A words : ColorOf(words) # color
    <2> TAKE words
    <2>1. "rgb" \in DOMAIN ColorOf(words)
      BY DEF ColorOf
    <2> QED
      BY <1>2, <2>1
  <1>6. LoadColor(word) = IF IsRgb(word) THEN ColorOf(Words[Inside(word)]) ELSE color
    BY <1>1 DEF LoadColor
  <1> QED
    BY <1>1, <1>3, <1>4, <1>5, <1>6

\* The characters in front of the numbers.
LEMMA Fronts ==
    /\ <<"r", "g", "b", "(">> \in Seq(ColorChars) /\ <<"r", "g", "b", "a", "(">> \in Seq(ColorChars)
    /\ "," \in ColorChars /\ ")" \in ColorChars
  <1>1. PICK r, g, b, a, p : r = "r" /\ g = "g" /\ b = "b" /\ a = "a" /\ p = "("
    OBVIOUS
  <1>2. r \in ColorChars /\ g \in ColorChars /\ b \in ColorChars /\ a \in ColorChars /\ p \in ColorChars
    BY <1>1 DEF ColorChars
  <1>3. <<r, g, b, p>> \in Seq(ColorChars) /\ <<r, g, b, a, p>> \in Seq(ColorChars)
    BY <1>2
  <1>4. "," \in ColorChars /\ ")" \in ColorChars
    BY DEF ColorChars
  <1> QED
    BY <1>1, <1>3, <1>4

LEMMA RgbReturns ==
    ASSUME NEW rgb \in [1 .. 3 -> 0 .. 255], ReadColor(PrintColor([rgb |-> rgb])) = "read"
    PROVE  LoadColor(PrintColor([rgb |-> rgb])) = [rgb |-> rgb] <=> IsShort([rgb |-> rgb])
  <1>1. PICK color : color = [rgb |-> rgb]
    OBVIOUS
  <1>2. DOMAIN color = {"rgb"} /\ color.rgb = rgb
    BY <1>1
  <1>3. "word" \notin DOMAIN color /\ "opacity" \notin DOMAIN color /\ "rgb" \in DOMAIN color
    BY <1>2
  <1>4. PICK front \in Seq(ColorChars) : front = <<"r", "g", "b", "(">>
    BY Fronts
  <1>5. Len(front) = 4 /\ front[1] = "r" /\ front[2] = "g" /\ front[3] = "b" /\ front[4] = "("
    BY <1>4
  <1>6. PICK name : name = front \o Rgb(rgb) \o <<")">>
    OBVIOUS
  <1>7. PrintColor(color) = name
    BY <1>2, <1>3, <1>4, <1>6 DEF PrintColor
  <1>8. /\ IsRgb(name) /\ Inside(name) \in Seq(ColorChars) /\ Len(Inside(name)) <= 5
        /\ Len(Rgb(rgb)) = 5 =>
                Len(Inside(name)) = 5 /\ \A i \in 1 .. 5 : Inside(name)[i] = Rgb(rgb)[i]
    <2>1. PICK b \in {4, 5} : b = 4
      OBVIOUS
    <2>2. Rgb(rgb) \in Seq(ColorChars)
      BY RgbIs
    <2>3. IsFront(front, b)
      BY <1>5, <2>1 DEF IsFront
    <2>4. PICK p \in ColorChars : p = ")"
      BY Fronts
    <2>5. PICK middle \in Seq(ColorChars) : middle = Rgb(rgb)
      BY <2>2
    <2>6. PICK most : most = 2 * b - 3
      OBVIOUS
    <2>7. name = front \o middle \o <<p>>
      BY <1>6, <2>4, <2>5
    <2>9. TakesPiece(name, middle, most)
      BY <2>3, <2>6, <2>7, NameInside
    <2>8. most = 5
      BY <2>1, <2>6
    <2> QED
      BY <2>5, <2>8, <2>9 DEF TakesPiece
  <1>9. PICK text \in Seq(ColorChars) : text = Inside(name)
    BY <1>8
  <1>10. PICK words : words = Words[text]
    OBVIOUS
  <1>11. LoadColor(name) = ColorOf(words) /\ WordsEnd(words) = "read"
    BY <1>1, <1>7, <1>8, <1>9, <1>10 DEF LoadColor, ReadColor
  <1>12. IsShort(color) <=> \A i \in 1 .. 3 : rgb[i] < 10
    BY <1>2, <1>3 DEF IsShort
  <1>13. ASSUME ColorOf(words) = color PROVE IsShort(color)
    <2>1. \A k \in 1 .. 3 : Stoi[words[k]] \in 0 .. 9
      <3>1. Len(words) >= 3
        <4>1. ~(Len(words) < 3)
          BY <1>11 DEF WordsEnd
        <4>2. Len(words) \in Nat
          BY <1>10, WordsAreSequence
        <4> QED
          BY <4>1, <4>2
      <3>2. PICK m \in {3, 4} : m = 3
        OBVIOUS
      <3>3. Len(text) <= 2 * m - 1 /\ Len(words) >= m
        BY <1>8, <1>9, <3>1, <3>2
      <3>4. \A k \in 1 .. m : Stoi[words[k]] \in 0 .. 9
        BY <1>10, <1>11, <3>3, ShortWords
      <3> QED
        BY <3>2, <3>4
    <2>2. ColorOf(words).rgb = [i \in 1 .. 3 |-> Stoi[words[i]] % 256]
      BY DEF ColorOf
    <2>3. \A i \in 1 .. 3 : rgb[i] = Stoi[words[i]] % 256
      BY <1>2, <1>13, <2>2
    <2>4. \A n \in 0 .. 9 : n % 256 < 10
      OBVIOUS
    <2> QED
      BY <1>12, <2>1, <2>3, <2>4
  <1>14. ASSUME IsShort(color) PROVE ColorOf(words) = color
    <2>1. \A i \in 1 .. 3 : rgb[i] < 10
      BY <1>12, <1>14
    <2>2. rgb \in [1 .. 3 -> 0 .. 9]
      <3>1. \A n \in 0 .. 255 : n < 10 => n \in 0 .. 9
        OBVIOUS
      <3> QED
        BY <2>1, <3>1
    <2>3. /\ Len(text) = 5 /\ text[2] = "," /\ text[4] = ","
          /\ text[1] = Digit[rgb[1] + 1] /\ text[3] = Digit[rgb[2] + 1] /\ text[5] = Digit[rgb[3] + 1]
      <3>1. 1 \in 1 .. 5 /\ 2 \in 1 .. 5 /\ 3 \in 1 .. 5 /\ 4 \in 1 .. 5 /\ 5 \in 1 .. 5
        OBVIOUS
      <3> QED
        BY <1>8, <1>9, <2>1, <3>1, RgbIs
    <2>4. AreDigits(text, 3, rgb)
      <3>1. /\ 1 .. 3 = {1, 2, 3} /\ 1 .. 3 - 1 = {1, 2}
            /\ 2 * 1 - 1 = 1 /\ 2 * 2 - 1 = 3 /\ 2 * 3 - 1 = 5 /\ 2 * 1 = 2 /\ 2 * 2 = 4
        OBVIOUS
      <3>2. \A k \in {1, 2, 3} : text[2 * k - 1] = Digit[rgb[k] + 1]
        BY <2>3, <3>1
      <3>3. \A k \in {1, 2} : text[2 * k] = ","
        BY <2>3, <3>1
      <3> QED
        BY <2>2, <3>1, <3>2, <3>3 DEF AreDigits
    <2>5. Len(words) = 3 /\ \A k \in 1 .. 3 : Stoi[words[k]] = rgb[k]
      <3>1. PICK m \in {3, 4} : m = 3
        OBVIOUS
      <3>2. Len(text) = 2 * m - 1
        <4>1. 2 * m - 1 = 5
          BY <3>1
        <4> QED
          BY <2>3, <4>1
      <3>3. Len(words) = m /\ \A k \in 1 .. m : Stoi[words[k]] = rgb[k]
        <4>1. AreDigits(text, m, rgb)
          BY <2>4, <3>1
        <4>2. AreRead(words, m, rgb)
          BY <1>10, <3>2, <4>1, WordsOfDigits
        <4> QED
          BY <4>2 DEF AreRead
      <3> QED
        BY <3>1, <3>3
    <2>6. [i \in 1 .. 3 |-> Stoi[words[i]] % 256] = rgb
      <3>1. \A n \in 0 .. 255 : n % 256 = n
        OBVIOUS
      <3> QED
        BY <2>5, <3>1
    <2> QED
      BY <1>1, <2>5, <2>6 DEF ColorOf
  <1> QED
    BY <1>1, <1>7, <1>11, <1>13, <1>14

\* A number that fits into a byte stays as it is.
LEMMA ByteIsKept == \A k \in 0 .. 255 : k % 256 = k
  OBVIOUS

\* Four sequences in a row, joined from either end.
JoinsAlike(s, t, u, v) == ((s \o t) \o u) \o v = s \o ((t \o u) \o v)

LEMMA FourInRow ==
    ASSUME NEW S, NEW s \in Seq(S), NEW t \in Seq(S), NEW u \in Seq(S), NEW v \in Seq(S)
    PROVE  JoinsAlike(s, t, u, v)
  <1>1. PICK w \in Seq(S) : w = t \o u
    BY ConcatProperties
  <1>2. (s \o t) \o u = s \o w
    BY <1>1, ConcatAssociative
  <1>3. (s \o w) \o v = s \o (w \o v)
    <2> HIDE <1>1, <1>2
    <2> QED
      BY ConcatAssociative
  <1> QED
    BY <1>1, <1>2, <1>3 DEF JoinsAlike

LEMMA RgbaReturns ==
    ASSUME NEW rgb \in [1 .. 3 -> 0 .. 255], NEW opacity \in 0 .. 100,
           ReadColor(PrintColor([rgb |-> rgb, opacity |-> opacity])) = "read"
    PROVE  LoadColor(PrintColor([rgb |-> rgb, opacity |-> opacity])) = [rgb |-> rgb, opacity |-> opacity]
            <=> IsShort([rgb |-> rgb, opacity |-> opacity])
  <1>1. PICK color : color = [rgb |-> rgb, opacity |-> opacity]
    OBVIOUS
  <1>2. DOMAIN color = {"rgb", "opacity"} /\ color.rgb = rgb /\ color.opacity = opacity
    BY <1>1
  <1>3. "word" \notin DOMAIN color /\ "opacity" \in DOMAIN color /\ "rgb" \in DOMAIN color
    BY <1>2
  <1>4. PICK front \in Seq(ColorChars) : front = <<"r", "g", "b", "a", "(">>
    BY Fronts
  <1>5. /\ Len(front) = 5 /\ front[1] = "r" /\ front[2] = "g" /\ front[3] = "b"
        /\ front[4] = "a" /\ front[5] = "("
    BY <1>4
  <1>6. PICK numbers \in Seq(ColorChars), digits \in Seq(ColorChars) :
            numbers = Rgb(rgb) /\ digits = Opacity(opacity)
    BY RgbIs, OpacityIs
  <1>7. PICK comma \in ColorChars, p \in ColorChars : comma = "," /\ p = ")"
    BY Fronts
  <1>8. PICK middle \in Seq(ColorChars) : middle = numbers \o <<comma>> \o digits
    <2>1. <<comma>> \in Seq(ColorChars)
      BY OneIsSequence
    <2>2. numbers \o <<comma>> \in Seq(ColorChars)
      BY <2>1, ConcatProperties
    <2> QED
      BY <2>2, ConcatProperties
  <1>9. PICK name : name = front \o middle \o <<p>>
    OBVIOUS
  <1>10. PrintColor(color) = name
    <2>1. PrintColor(color) = front \o numbers \o <<comma>> \o digits \o <<p>>
      BY <1>2, <1>3, <1>4, <1>6, <1>7 DEF PrintColor
    <2>2. <<comma>> \in Seq(ColorChars)
      BY OneIsSequence
    <2>3. ((front \o numbers) \o <<comma>>) \o digits = front \o ((numbers \o <<comma>>) \o digits)
      <3>1. PICK c \in Seq(ColorChars) : c = <<comma>>
        BY <2>2
      <3>2. JoinsAlike(front, numbers, c, digits)
        BY FourInRow
      <3> QED
        BY <3>1, <3>2 DEF JoinsAlike
    <2> QED
      BY <1>8, <1>9, <2>1, <2>3
  <1>11. TakesPiece(name, middle, 7)
    <2>1. PICK b \in {4, 5} : b = 5
      OBVIOUS
    <2>2. IsFront(front, b)
      BY <1>5, <2>1 DEF IsFront
    <2>3. PICK most : most = 2 * b - 3
      OBVIOUS
    <2>4. TakesPiece(name, middle, most)
      BY <1>9, <2>2, <2>3, NameInside
    <2>5. most = 7
      BY <2>1, <2>3
    <2> QED
      BY <2>4, <2>5
  <1>12. PICK text \in Seq(ColorChars) : text = Inside(name)
    BY <1>11 DEF TakesPiece
  <1>13. PICK words : words = Words[text]
    OBVIOUS
  <1>14. LoadColor(name) = ColorOf(words) /\ WordsEnd(words) = "read"
    BY <1>1, <1>10, <1>11, <1>12, <1>13 DEF LoadColor, ReadColor, TakesPiece
  <1>15. IsShort(color) <=> (\A i \in 1 .. 3 : rgb[i] < 10) /\ opacity \in {0, 100}
    BY <1>2, <1>3 DEF IsShort
  <1>16. ASSUME ColorOf(words) = color PROVE IsShort(color)
    <2>1. Len(words) # 3
      <3>1. "opacity" \in DOMAIN ColorOf(words)
        BY <1>3, <1>16
      <3>2. Len(words) = 3 => DOMAIN ColorOf(words) = {"rgb"}
        BY DEF ColorOf
      <3> QED
        BY <3>1, <3>2
    <2>2. \A k \in 1 .. 4 : Stoi[words[k]] \in 0 .. 9
      <3>1. Len(words) >= 4
        <4>1. ~(Len(words) < 3)
          BY <1>14 DEF WordsEnd
        <4>2. Len(words) \in Nat
          BY <1>13, WordsAreSequence
        <4>3. PICK n \in Nat : n = Len(words)
          BY <4>2
        <4>4. n # 3 /\ ~(n < 3)
          BY <2>1, <4>1, <4>3
        <4>5. n >= 4
          BY <4>4
        <4> QED
          BY <4>3, <4>5
      <3>2. PICK m \in {3, 4} : m = 4
        OBVIOUS
      <3>3. Len(text) <= 7
        BY <1>11, <1>12 DEF TakesPiece
      <3>4. 2 * m - 1 = 7
        BY <3>2
      <3>5. \A k \in 1 .. m : Stoi[words[k]] \in 0 .. 9
        BY <1>13, <1>14, <3>1, <3>2, <3>3, <3>4, ShortWords
      <3> QED
        BY <3>2, <3>5
    <2>3. /\ ColorOf(words).rgb = [i \in 1 .. 3 |-> Stoi[words[i]] % 256]
          /\ ColorOf(words).opacity = 100 * Stoi[words[4]]
      BY <2>1 DEF ColorOf
    <2>4. \A i \in 1 .. 3 : rgb[i] = Stoi[words[i]] % 256
      BY <1>2, <1>16, <2>3
    <2>5. \A i \in 1 .. 3 : rgb[i] < 10
      <3>1. \A n \in 0 .. 9 : n % 256 < 10
        OBVIOUS
      <3>2. \A i \in 1 .. 3 : i \in 1 .. 4
        OBVIOUS
      <3> QED
        BY <2>2, <2>4, <3>1, <3>2
    <2>6. opacity \in {0, 100}
      <3>1. PICK n \in 0 .. 9 : n = Stoi[words[4]]
        <4>1. 4 \in 1 .. 4
          OBVIOUS
        <4> QED
          BY <2>2, <4>1
      <3>2. opacity = 100 * n
        BY <1>2, <1>16, <2>3, <3>1
      <3> QED
        BY <3>2
    <2> QED
      BY <1>15, <2>5, <2>6
  <1>17. ASSUME IsShort(color) PROVE ColorOf(words) = color
    <2>1. (\A i \in 1 .. 3 : rgb[i] < 10) /\ opacity \in {0, 100}
      BY <1>15, <1>17
    <2>2. PICK n \in {0, 1} : opacity = 100 * n
      <3>1. 0 = 100 * 0 /\ 100 = 100 * 1
        OBVIOUS
      <3> QED
        BY <2>1, <3>1
    <2>3. PICK d : d = Digit[n + 1]
      OBVIOUS
    <2>4. digits = <<d>> /\ d \in ColorChars
      <3>1. digits = <<d>>
        BY <1>6, <2>2, <2>3, OpacityIs
      <3>2. <<d>> \in Seq(ColorChars) /\ <<d>>[1] = d
        BY <3>1
      <3> QED
        BY <3>1, <3>2
    <2>5. /\ Len(middle) = 7
          /\ \A i \in 1 .. 5 : middle[i] = numbers[i]
          /\ middle[6] = comma /\ middle[7] = d
      <3>1. Len(numbers) = 5
        BY <1>6, <2>1, RgbIs
      <3>2. PICK six \in Nat, seven \in Nat : six = 6 /\ seven = 7
        OBVIOUS
      <3>3. PICK most \in Seq(ColorChars) : most = numbers \o <<comma>>
        <4>1. <<comma>> \in Seq(ColorChars)
          BY OneIsSequence
        <4> QED
          BY <4>1, ConcatProperties
      <3>4. six = Len(numbers) + 1
        BY <3>1, <3>2
      <3>5. Len(most) = six /\ most[six] = comma /\ \A i \in 1 .. six : i # six => most[i] = numbers[i]
        BY <3>3, <3>4, JoinOne
      <3>6. seven = Len(most) + 1
        BY <3>2, <3>5
      <3>7. middle = most \o <<d>>
        BY <1>8, <2>4, <3>3
      <3>8. Len(middle) = seven /\ middle[seven] = d /\ \A i \in 1 .. seven : i # seven => middle[i] = most[i]
        BY <2>4, <3>6, <3>7, JoinOne
      <3>9. \A i \in 1 .. 5 : i \in 1 .. six /\ i # six /\ i \in 1 .. seven /\ i # seven
        BY <3>2
      <3>10. six \in 1 .. seven /\ six # seven
        BY <3>2
      <3>11. \A i \in 1 .. 5 : middle[i] = numbers[i]
        BY <3>5, <3>8, <3>9
      <3> QED
        BY <3>2, <3>5, <3>8, <3>10, <3>11
    <2>6. /\ Len(text) = 7 /\ text[2] = "," /\ text[4] = "," /\ text[6] = ","
          /\ text[1] = Digit[rgb[1] + 1] /\ text[3] = Digit[rgb[2] + 1] /\ text[5] = Digit[rgb[3] + 1]
          /\ text[7] = Digit[n + 1]
      <3>1. /\ 1 \in 1 .. 5 /\ 2 \in 1 .. 5 /\ 3 \in 1 .. 5 /\ 4 \in 1 .. 5 /\ 5 \in 1 .. 5
            /\ 1 \in 1 .. 7 /\ 2 \in 1 .. 7 /\ 3 \in 1 .. 7 /\ 4 \in 1 .. 7 /\ 5 \in 1 .. 7
            /\ 6 \in 1 .. 7 /\ 7 \in 1 .. 7
        OBVIOUS
      <3>2. Len(text) = 7 /\ \A i \in 1 .. 7 : text[i] = middle[i]
        BY <1>11, <1>12, <2>5 DEF TakesPiece
      <3>3. /\ numbers[2] = "," /\ numbers[4] = "," /\ numbers[1] = Digit[rgb[1] + 1]
            /\ numbers[3] = Digit[rgb[2] + 1] /\ numbers[5] = Digit[rgb[3] + 1]
        BY <1>6, <2>1, RgbIs
      <3> QED
        BY <1>7, <2>3, <2>5, <3>1, <3>2, <3>3
    <2>7. PICK four \in [1 .. 4 -> 0 .. 9] :
                four[1] = rgb[1] /\ four[2] = rgb[2] /\ four[3] = rgb[3] /\ four[4] = n
      <3>1. \A k \in 0 .. 255 : k < 10 => k \in 0 .. 9
        OBVIOUS
      <3>2. \A i \in 1 .. 3 : rgb[i] \in 0 .. 9
        BY <2>1, <3>1
      <3>3. 1 \in 1 .. 3 /\ 2 \in 1 .. 3 /\ 3 \in 1 .. 3 /\ n \in 0 .. 9 /\ 1 .. 4 = {1, 2, 3, 4}
        OBVIOUS
      <3>4. PICK f : f = [k \in 1 .. 4 |-> IF k = 4 THEN n ELSE rgb[k]]
        OBVIOUS
      <3>5. f[1] = rgb[1] /\ f[2] = rgb[2] /\ f[3] = rgb[3] /\ f[4] = n
        BY <3>3, <3>4
      <3>6. f \in [1 .. 4 -> 0 .. 9]
        BY <3>2, <3>3, <3>4
      <3> QED
        BY <3>5, <3>6
    <2>8. AreDigits(text, 4, four)
      <3>1. /\ 1 .. 4 = {1, 2, 3, 4} /\ 1 .. 4 - 1 = {1, 2, 3}
            /\ 2 * 1 - 1 = 1 /\ 2 * 2 - 1 = 3 /\ 2 * 3 - 1 = 5 /\ 2 * 4 - 1 = 7
            /\ 2 * 1 = 2 /\ 2 * 2 = 4 /\ 2 * 3 = 6
        OBVIOUS
      <3>2. \A k \in {1, 2, 3, 4} : text[2 * k - 1] = Digit[four[k] + 1]
        BY <2>6, <2>7, <3>1
      <3>3. \A k \in {1, 2, 3} : text[2 * k] = ","
        BY <2>6, <3>1
      <3> QED
        BY <2>7, <3>1, <3>2, <3>3 DEF AreDigits
    <2>9. Len(words) = 4 /\ \A k \in 1 .. 4 : Stoi[words[k]] = four[k]
      <3>1. PICK m \in {3, 4} : m = 4
        OBVIOUS
      <3>2. Len(text) = 2 * m - 1
        <4>1. 2 * m - 1 = 7
          BY <3>1
        <4> QED
          BY <2>6, <4>1
      <3>3. Len(words) = m /\ \A k \in 1 .. m : Stoi[words[k]] = four[k]
        <4>1. AreDigits(text, m, four)
          BY <2>8, <3>1
        <4>2. AreRead(words, m, four)
          BY <1>13, <3>2, <4>1, WordsOfDigits
        <4> QED
          BY <4>2 DEF AreRead
      <3> QED
        BY <3>1, <3>3
    <2>10. [i \in 1 .. 3 |-> Stoi[words[i]] % 256] = rgb
      <3>2. 1 \in 1 .. 4 /\ 2 \in 1 .. 4 /\ 3 \in 1 .. 4
        OBVIOUS
      <3>3. Stoi[words[1]] = rgb[1] /\ Stoi[words[2]] = rgb[2] /\ Stoi[words[3]] = rgb[3]
        BY <2>7, <2>9, <3>2
      <3>4. \A i \in 1 .. 3 : Stoi[words[i]] = rgb[i]
        <4>1. 1 .. 3 = {1, 2, 3}
          OBVIOUS
        <4> QED
          BY <3>3, <4>1
      <3>5. \A i \in 1 .. 3 : rgb[i] \in 0 .. 255
        OBVIOUS
      <3>6. \A i \in 1 .. 3 : Stoi[words[i]] % 256 = rgb[i]
        <4> TAKE i \in 1 .. 3
        <4>1. PICK k \in 0 .. 255 : k = rgb[i]
          BY <3>5
        <4>2. k % 256 = k
          BY ByteIsKept
        <4> QED
          BY <3>4, <4>1, <4>2
      <3>7. rgb = [i \in 1 .. 3 |-> rgb[i]]
        OBVIOUS
      <3> QED
        BY <3>6, <3>7
    <2>11. 100 * Stoi[words[4]] = opacity
      <3>1. 4 \in 1 .. 4
        OBVIOUS
      <3> QED
        BY <2>2, <2>7, <2>9, <3>1
    <2>12. Len(words) # 3
      BY <2>9
    <2> QED
      BY <1>1, <2>10, <2>11, <2>12 DEF ColorOf
  <1> QED
    BY <1>1, <1>10, <1>14, <1>16, <1>17

\* A color that is read at all comes back if and only if it is short.
LEMMA ColorReturns ==
    ASSUME NEW color, ColorIsWhole(color), ReadColor(PrintColor(color)) = "read"
    PROVE  LoadColor(PrintColor(color)) = color <=> IsShort(color)
  <1>1. CASE \E word : color = [word |-> word]
    BY <1>1, WordReturns
  <1>2. CASE \E rgb \in [1 .. 3 -> 0 .. 255] : color = [rgb |-> rgb]
    BY <1>2, RgbReturns
  <1>3. CASE \E rgb \in [1 .. 3 -> 0 .. 255] : \E opacity \in 0 .. 100 :
                color = [rgb |-> rgb, opacity |-> opacity]
    BY <1>3, RgbaReturns
  <1> QED
    BY <1>1, <1>2, <1>3 DEF ColorIsWhole

-----------------------------------------------------------------------------
(* Settings that come back. *)

\* An int comes back from uint32_t.
LEMMA FontSizeReturns ==
    ASSUME NEW n, FitsInt(n)
    PROVE  AsInt32(AsUint32(n)) = n
  <1>1. PICK half \in Nat : IntModulus = 2 * half /\ half > 0 /\ half = IntModulus \div 2
    BY SvgAssumption
  <1>2. n \in -half .. half - 1
    BY <1>1 DEF FitsInt
  <1>3. CASE n >= 0
    <2>1. n \in 0 .. 2 * half - 1 /\ n < half
      BY <1>2, <1>3
    <2>2. n % (2 * half) = n
      BY <1>1, <2>1
    <2> QED
      BY <1>1, <2>1, <2>2 DEF AsInt32, AsUint32
  <1>4. CASE n < 0
    <2>1. n % (2 * half) = n + 2 * half
      BY <1>1, <1>2, <1>4
    <2>2. ~(n + 2 * half < half) /\ (n + 2 * half) - 2 * half = n
      BY <1>1, <1>2, <1>4
    <2> QED
      BY <1>1, <2>1, <2>2 DEF AsInt32, AsUint32
  <1> QED
    BY <1>2, <1>3, <1>4

\* Where the conversion back ends well, every color has been read.
LEMMA EveryColorIsRead ==
    ASSUME NEW message, message.color_palette \in Seq(Range(message.color_palette)),
           ConvertBackEnds(message) = "read"
    PROVE  /\ ReadColor(message.underlayer_color) = "read"
           /\ \A i \in DOMAIN message.color_palette : ReadColor(message.color_palette[i]) = "read"
  <1>1. PICK first, palette : first = message.underlayer_color /\ palette = message.color_palette
    OBVIOUS
  <1>2. PICK S : S = Range(palette) \cup {first}
    OBVIOUS
  <1>3. palette \in Seq(Range(palette))
    BY <1>1
  <1>4. palette \in Seq(S) /\ <<first>> \in Seq(S) /\ Len(<<first>>) = 1 /\ <<first>>[1] = first
    BY <1>2, <1>3
  <1>5. PICK n \in Nat : n = Len(palette) /\ DOMAIN palette = 1 .. n
    BY <1>4
  <1>6. PICK colors \in Seq(S) : colors = <<first>> \o palette
    BY <1>4, ConcatProperties
  <1>7. /\ DOMAIN colors = 1 .. 1 + n
        /\ \A i \in 1 .. 1 + n : colors[i] = IF i <= 1 THEN first ELSE palette[i - 1]
    BY <1>4, <1>5, <1>6, ConcatProperties
  <1>8. PICK reads : reads = [i \in DOMAIN colors |-> ReadColor(colors[i])]
    OBVIOUS
  <1>9. ReadsEnd(reads) = "read"
    BY <1>1, <1>6, <1>8 DEF ConvertBackEnds
  <1>10. \A i \in 1 .. 1 + n : reads[i] = "read"
    <2>1. PICK stops_at : stops_at = {i \in DOMAIN reads : reads[i] # "read"}
      OBVIOUS
    <2>2. stops_at \subseteq Nat
      BY <1>7, <1>8, <2>1
    <2>3. ASSUME stops_at # {} PROVE FALSE
      <3>1. PICK least \in stops_at : \A i \in stops_at : least <= i
        BY <2>2, <2>3, LeastElement
      <3>2. least \in Int /\ \A i \in stops_at : i \in Int /\ least <= i
        BY <2>2, <3>1
      <3>3. Min(stops_at) = least
        BY <3>1, <3>2, MinIsLeast
      <3>4. ReadsEnd(reads) = reads[least]
        BY <2>1, <2>3, <3>3 DEF ReadsEnd
      <3> QED
        BY <1>9, <2>1, <3>1, <3>4
    <2> QED
      BY <1>7, <1>8, <2>1, <2>3
  <1>11. ReadColor(first) = "read"
    <2>1. 1 \in 1 .. 1 + n /\ 1 <= 1
      BY <1>5
    <2> QED
      BY <1>7, <1>8, <1>10, <2>1
  <1>12. \A i \in 1 .. n : ReadColor(palette[i]) = "read"
    <2> TAKE i \in 1 .. n
    <2>1. i + 1 \in 1 .. 1 + n /\ ~(i + 1 <= 1) /\ (i + 1) - 1 = i
      OBVIOUS
    <2> QED
      BY <1>7, <1>8, <1>10, <2>1
  <1> QED
    BY <1>1, <1>5, <1>11, <1>12

\* What SettingsSurvive says of settings that were kept and those that come back.
ComeBack(kept, back) ==
    /\ \A field \in DOMAIN kept \ {"underlayer", "palette"} : back[field] = kept[field]
    /\ back.underlayer.width = kept.underlayer.width
    /\ back.underlayer.color = kept.underlayer.color <=> IsShort(kept.underlayer.color)
    /\ Len(back.palette) = Len(kept.palette)
    /\ \A i \in DOMAIN kept.palette : back.palette[i] = kept.palette[i] <=> IsShort(kept.palette[i])

LEMMA SettingsComeBack ==
    ASSUME NEW kept, SettingsAreWhole(kept), ConvertBackEnds(ConvertSettings(kept)) = "read"
    PROVE  ComeBack(kept, ConvertBack(ConvertSettings(kept)))
  <1>1. PICK message : message = ConvertSettings(kept)
    OBVIOUS
  <1>2. PICK back : back = ConvertBack(message)
    OBVIOUS
  <1>3. PICK palette : palette = kept.palette
    OBVIOUS
  <1>4. PICK n \in Nat : n = Len(palette) /\ DOMAIN palette = 1 .. n
    <2>1. palette \in Seq(Range(palette))
      BY <1>3 DEF SettingsAreWhole
    <2> QED
      BY <2>1
  <1>5. /\ message.underlayer_color = PrintColor(kept.underlayer.color)
        /\ message.color_palette = [i \in 1 .. n |-> PrintColor(palette[i])]
    BY <1>1, <1>3, <1>4 DEF ConvertSettings
  <1>6. /\ message.color_palette \in Seq(Range(message.color_palette))
        /\ DOMAIN message.color_palette = 1 .. n
    <2>1. PICK printed : printed = message.color_palette
      OBVIOUS
    <2>2. DOMAIN printed = 1 .. n /\ printed \in [1 .. n -> Range(printed)]
      BY <1>5, <2>1 DEF Range
    <2>3. printed \in Seq(Range(printed))
      BY <2>2, FunctionIsSequence
    <2> QED
      BY <2>1, <2>2, <2>3
  <1>7. /\ ReadColor(PrintColor(kept.underlayer.color)) = "read"
        /\ \A i \in 1 .. n : ReadColor(PrintColor(palette[i])) = "read"
    <2>1. /\ ReadColor(message.underlayer_color) = "read"
          /\ \A i \in 1 .. n : ReadColor(message.color_palette[i]) = "read"
      BY <1>1, <1>6, EveryColorIsRead
    <2> QED
      BY <1>5, <2>1
  <1>8. back.underlayer.color = kept.underlayer.color <=> IsShort(kept.underlayer.color)
    <2>1. back.underlayer.color = LoadColor(PrintColor(kept.underlayer.color))
      BY <1>2, <1>5 DEF ConvertBack
    <2>2. ColorIsWhole(kept.underlayer.color)
      BY DEF SettingsAreWhole
    <2> QED
      BY <1>7, <2>1, <2>2, ColorReturns
  <1>9. back.palette = [i \in 1 .. n |-> LoadColor(PrintColor(palette[i]))]
    <2>1. back.palette = [i \in 1 .. n |-> LoadColor(message.color_palette[i])]
      BY <1>2, <1>6 DEF ConvertBack
    <2>2. \A i \in 1 .. n : message.color_palette[i] = PrintColor(palette[i])
      BY <1>5
    <2> QED
      BY <2>1, <2>2
  <1>10. \A i \in 1 .. n : back.palette[i] = palette[i] <=> IsShort(palette[i])
    <2> TAKE i \in 1 .. n
    <2>1. ColorIsWhole(palette[i])
      BY <1>3, <1>4 DEF SettingsAreWhole
    <2>2. back.palette[i] = LoadColor(PrintColor(palette[i]))
      BY <1>9
    <2> QED
      BY <1>7, <2>1, <2>2, ColorReturns
  <1>11. Len(back.palette) = n
    <2>1. PICK colors : colors = back.palette
      OBVIOUS
    <2>2. DOMAIN colors = 1 .. n /\ colors \in [1 .. n -> Range(colors)]
      BY <1>9, <2>1 DEF Range
    <2>3. Len(colors) = n
      BY <2>2, FunctionIsSequence
    <2> QED
      BY <2>1, <2>3
  <1>12. \A label : LabelIsWhole(label) =>
            [font_size |-> AsInt32(AsUint32(label.font_size)), offset |-> label.offset] = label
    BY FontSizeReturns DEF LabelIsWhole
  <1>13. back.bus_label = kept.bus_label
    <2>1. back.bus_label = [font_size |-> AsInt32(AsUint32(kept.bus_label.font_size)),
                            offset |-> kept.bus_label.offset]
      BY <1>1, <1>2 DEF ConvertBack, ConvertSettings
    <2> QED
      BY <1>12, <2>1 DEF SettingsAreWhole
  <1>14. back.stop_label = kept.stop_label
    <2>1. back.stop_label = [font_size |-> AsInt32(AsUint32(kept.stop_label.font_size)),
                             offset |-> kept.stop_label.offset]
      BY <1>1, <1>2 DEF ConvertBack, ConvertSettings
    <2> QED
      BY <1>12, <2>1 DEF SettingsAreWhole
  <1>15. /\ back.map_sizes = <<kept.map_sizes[1], kept.map_sizes[2]>>
         /\ back.padding = kept.padding /\ back.stop_radius = kept.stop_radius
         /\ back.line_width = kept.line_width /\ back.underlayer.width = kept.underlayer.width
    BY <1>1, <1>2 DEF ConvertBack, ConvertSettings
  <1>16. /\ kept.map_sizes = <<kept.map_sizes[1], kept.map_sizes[2]>>
         /\ DOMAIN kept = {"map_sizes", "padding", "stop_radius", "line_width",
                           "bus_label", "stop_label", "underlayer", "palette"}
    <2>1. PICK sizes, label, other, under :
                /\ sizes = <<kept.map_sizes[1], kept.map_sizes[2]>> /\ label = kept.bus_label
                /\ other = kept.stop_label /\ under = kept.underlayer
      OBVIOUS
    <2>2. kept = [map_sizes |-> sizes, padding |-> kept.padding,
                  stop_radius |-> kept.stop_radius, line_width |-> kept.line_width,
                  bus_label |-> label, stop_label |-> other,
                  underlayer |-> under, palette |-> palette]
      BY <1>3, <2>1 DEF SettingsAreWhole
    <2>3. kept.map_sizes = sizes
      BY <2>2
    <2>4. DOMAIN kept = {"map_sizes", "padding", "stop_radius", "line_width",
                         "bus_label", "stop_label", "underlayer", "palette"}
      BY <2>2
    <2> QED
      BY <2>1, <2>3, <2>4
  <1>17. \A field \in DOMAIN kept \ {"underlayer", "palette"} : back[field] = kept[field]
    BY <1>13, <1>14, <1>15, <1>16
  <1> QED
    BY <1>1, <1>2, <1>3, <1>4, <1>8, <1>10, <1>11, <1>15, <1>17 DEF ComeBack

\* The settings that GenerateMapSettings takes are whole.
LEMMA ColorTaken ==
    ASSUME NEW node, IsColor(node), DeclaresColor(node)
    PROVE  ColorIsWhole(ConvertToColor(node))
  <1>1. PICK color : color = ConvertToColor(node)
    OBVIOUS
  <1>2. CASE IsString(node)
    <2>1. color = [word |-> node.string]
      BY <1>1, <1>2 DEF ConvertToColor
    <2> QED
      BY <1>1, <2>1 DEF ColorIsWhole
  <1>3. CASE ~IsString(node)
    <2>1. IsArray(node) /\ Len(node.array) \in {3, 4}
      BY <1>3 DEF IsColor
    <2>2. PICK rgb : rgb = [i \in 1 .. 3 |-> node.array[i].int % 256]
      OBVIOUS
    <2>3. rgb \in [1 .. 3 -> 0 .. 255]
      <3>1. \A i \in 1 .. 3 : node.array[i].int \in Int
        BY <2>1 DEF DeclaresColor
      <3>2. \A n \in Int : n % 256 \in 0 .. 255
        OBVIOUS
      <3> QED
        BY <2>2, <3>1, <3>2
    <2>4. CASE Len(node.array) = 3
      <3>1. color = [rgb |-> rgb]
        BY <1>1, <1>3, <2>2, <2>4 DEF ConvertToColor
      <3> QED
        BY <1>1, <2>3, <3>1 DEF ColorIsWhole
    <2>5. CASE Len(node.array) = 4
      <3>1. PICK opacity \in 0 .. 100 : opacity = AsDouble(node.array[4])
        BY <2>1, <2>5 DEF DeclaresColor
      <3>2. Len(node.array) # 3
        BY <2>5
      <3>3. color = [rgb |-> rgb, opacity |-> opacity]
        BY <1>1, <1>3, <2>2, <3>1, <3>2 DEF ConvertToColor
      <3> QED
        BY <1>1, <2>3, <3>3 DEF ColorIsWhole
    <2> QED
      BY <2>1, <2>4, <2>5
  <1> QED
    BY <1>2, <1>3

\* Settings are whole if their members are.
LEMMA WholeByMembers ==
    ASSUME NEW width, NEW height, NEW padding, NEW stop_radius, NEW line_width,
           NEW label, NEW other, NEW under_width, NEW color, NEW palette,
           LabelIsWhole(label), LabelIsWhole(other), ColorIsWhole(color),
           palette \in Seq(Range(palette)), \A i \in DOMAIN palette : ColorIsWhole(palette[i]),
           NEW sizes, sizes = <<width, height>>,
           NEW under, under = [width |-> under_width, color |-> color],
           NEW kept,
           kept = [map_sizes |-> sizes, padding |-> padding, stop_radius |-> stop_radius,
                   line_width |-> line_width, bus_label |-> label, stop_label |-> other,
                   underlayer |-> under, palette |-> palette]
    PROVE  SettingsAreWhole(kept)
  <1>1. /\ kept.map_sizes = sizes /\ kept.padding = padding /\ kept.stop_radius = stop_radius
        /\ kept.line_width = line_width /\ kept.bus_label = label /\ kept.stop_label = other
        /\ kept.underlayer = under /\ kept.palette = palette
    OBVIOUS
  <1>2. sizes[1] = width /\ sizes[2] = height /\ under.width = under_width /\ under.color = color
    OBVIOUS
  <1>3. <<kept.map_sizes[1], kept.map_sizes[2]>> = sizes
    BY <1>1, <1>2
  <1>4. kept = [map_sizes |-> <<kept.map_sizes[1], kept.map_sizes[2]>>, padding |-> kept.padding,
                stop_radius |-> kept.stop_radius, line_width |-> kept.line_width,
                bus_label |-> kept.bus_label, stop_label |-> kept.stop_label,
                underlayer |-> kept.underlayer, palette |-> kept.palette]
    BY <1>1, <1>3
  <1>5. kept.underlayer = [width |-> kept.underlayer.width, color |-> kept.underlayer.color]
    BY <1>1, <1>2
  <1> QED
    BY <1>1, <1>2, <1>4, <1>5 DEF SettingsAreWhole

\* What the assumption says of the render settings of an input.
RenderIsDeclared(render) ==
    /\ \A key \in {"bus_label_font_size", "stop_label_font_size"} \cap DOMAIN render :
            IsInt(render[key]) => FitsInt(render[key].int)
    /\ "underlayer_color" \in DOMAIN render => DeclaresColor(render["underlayer_color"])
    /\ "color_palette" \in DOMAIN render /\ IsArray(render["color_palette"]) =>
            LET palette == render["color_palette"].array
            IN  palette \in Seq(Range(palette)) /\ \A color \in Range(palette) : DeclaresColor(color)

LEMMA SettingsTakenAreWhole ==
    ASSUME NEW render, RenderIsWhole(render), RenderIsDeclared(render)
    PROVE  SettingsAreWhole(GenerateMapSettings(render))
  <1>1. PICK kept : kept = GenerateMapSettings(render)
    OBVIOUS
  <1>2. PICK array : array = render.color_palette.array
    OBVIOUS
  <1>3. /\ array \in Seq(Range(array))
        /\ \A color \in Range(array) : IsColor(color) /\ DeclaresColor(color)
    BY <1>2 DEF RenderIsWhole, RenderIsDeclared
  <1>4. PICK n \in Nat : DOMAIN array = 1 .. n
    BY <1>3
  <1>5. PICK palette : palette = [i \in 1 .. n |-> ConvertToColor(array[i])]
    OBVIOUS
  <1>6. \A i \in 1 .. n : ColorIsWhole(palette[i])
    <2> TAKE i \in 1 .. n
    <2>1. array[i] \in Range(array)
      BY <1>4 DEF Range
    <2> QED
      BY <1>3, <1>5, <2>1, ColorTaken
  <1>7. palette \in Seq(Range(palette)) /\ DOMAIN palette = 1 .. n
    <2>1. palette \in [1 .. n -> Range(palette)]
      BY <1>5 DEF Range
    <2> QED
      BY <2>1, FunctionIsSequence
  <1>8. PICK label, other :
            /\ label = LabelOf(render.bus_label_offset, render.bus_label_font_size)
            /\ other = LabelOf(render.stop_label_offset, render.stop_label_font_size)
    OBVIOUS
  <1>9. LabelIsWhole(label) /\ LabelIsWhole(other)
    <2>1. /\ FitsInt(render["bus_label_font_size"].int)
          /\ FitsInt(render["stop_label_font_size"].int)
      BY DEF RenderIsWhole, RenderIsDeclared, LabelFits
    <2>2. \A offset, size : FitsInt(size.int) => LabelIsWhole(LabelOf(offset, size))
      BY DEF LabelIsWhole, LabelOf
    <2> QED
      BY <1>8, <2>1, <2>2
  <1>10. PICK color : color = ConvertToColor(render.underlayer_color)
    OBVIOUS
  <1>11. ColorIsWhole(color)
    BY <1>10, ColorTaken DEF RenderIsWhole, RenderIsDeclared
  <1>12. PICK under : under = [width |-> AsDouble(render.underlayer_width), color |-> color]
    OBVIOUS
  <1>13. PICK width, height, padding, stop_radius, line_width :
            /\ width = AsDouble(render.width) /\ height = AsDouble(render.height)
            /\ padding = AsDouble(render.padding) /\ stop_radius = AsDouble(render.stop_radius)
            /\ line_width = AsDouble(render.line_width)
    OBVIOUS
  <1>14. PICK sizes : sizes = <<width, height>>
    OBVIOUS
  <1>15. kept = [map_sizes |-> sizes, padding |-> padding, stop_radius |-> stop_radius,
                 line_width |-> line_width, bus_label |-> label, stop_label |-> other,
                 underlayer |-> under, palette |-> palette]
    BY <1>1, <1>2, <1>4, <1>5, <1>8, <1>10, <1>12, <1>13, <1>14 DEF GenerateMapSettings
  <1>16. SettingsAreWhole(kept)
    BY <1>6, <1>7, <1>9, <1>11, <1>12, <1>14, <1>15, WholeByMembers
  <1> QED
    BY <1>1, <1>16

LEMMA UninitializedAreWhole ==
    ASSUME NEW n \in Indeterminate
    PROVE  SettingsAreWhole(UninitializedSettings(n))
  <1>1. PICK label : label = [font_size |-> n, offset |-> <<0, 0>>]
    OBVIOUS
  <1>2. LabelIsWhole(label)
    <2>1. FitsInt(n)
      BY ProgramAssumption
    <2> QED
      BY <1>1, <2>1 DEF LabelIsWhole
  <1>3. PICK color : color = NoneColor
    OBVIOUS
  <1>4. ColorIsWhole(color)
    BY <1>3 DEF ColorIsWhole, NoneColor
  <1>5. PICK under, sizes, palette :
            under = [width |-> n, color |-> color] /\ sizes = <<0, 0>> /\ palette = << >>
    OBVIOUS
  <1>6. palette \in Seq(Range(palette)) /\ \A i \in DOMAIN palette : ColorIsWhole(palette[i])
    BY <1>5
  <1>7. UninitializedSettings(n) =
            [map_sizes |-> sizes, padding |-> n, stop_radius |-> n, line_width |-> n,
             bus_label |-> label, stop_label |-> label, underlayer |-> under, palette |-> palette]
    BY <1>1, <1>3, <1>5 DEF UninitializedSettings
  <1> QED
    BY <1>2, <1>4, <1>5, <1>6, <1>7, WholeByMembers

-----------------------------------------------------------------------------
(* The settings in memory and those that files were written from are whole. *)

\* What a process finds in its input.
LEMMA RenderDeclared ==
    ASSUME MainFollowsSession, at \notin {"idle", "killed"}, HasKey("render_settings"),
           IsDict(requests), IsDict(requests.dict["render_settings"])
    PROVE  RenderIsDeclared(requests.dict["render_settings"].dict)
  <1>1. /\ session \in Sessions /\ started \in 1 .. Len(session) /\ requests = session[started].input
    BY DEF MainFollowsSession
  <1>2. session \in Seq(Range(session))
    BY <1>1, ProgramAssumption
  <1>3. started \in DOMAIN session
    BY <1>1, <1>2
  <1>4. DeclaresRender(requests)
    BY <1>1, <1>3, ProgramAssumption
  <1>5. "render_settings" \in DOMAIN requests.dict
    BY DEF HasKey
  <1> QED
    BY <1>4, <1>5 DEF DeclaresRender, RenderIsDeclared

\* The settings are taken, from the input or from what memory holds.
LEMMA TakenSettingsAreWhole ==
    ASSUME ProgramInvariant, SettingsInvariant, TakeSettings
    PROVE  SettingsInvariant'
  <1>1. /\ at = "settings" /\ saved' = saved
        /\ HasKey("render_settings") =>
            /\ at' = IF GenerateEnds(settings.render_settings) = "read" THEN "handler"
                     ELSE GenerateEnds(settings.render_settings)
            /\ at' = "handler" => renderer' = GenerateMapSettings(settings.render_settings)
        /\ ~HasKey("render_settings") => \E n \in Indeterminate : renderer' = UninitializedSettings(n)
    BY DEF TakeSettings
  <1>2. parsing = "done"
    BY <1>1 DEF ProgramInvariant, MainFollowsSession, Ended
  <1>3. CASE HasKey("render_settings")
    <2>1. /\ settings.render_settings = requests.dict["render_settings"].dict
          /\ IsDict(requests) /\ IsDict(requests.dict["render_settings"])
      <3>1. settings["render_settings"] = requests.dict["render_settings"].dict
        BY <1>2, <1>3, SettingsAreKept DEF ProgramInvariant, SettingKeys
      <3>2. IsDict(requests) /\ IsDict(requests.dict["render_settings"])
        BY <1>2, <1>3 DEF ProgramInvariant, ReaderFollowsInput, SettingKeys
      <3> QED
        BY <3>1, <3>2
    <2>2. PICK render : render = requests.dict["render_settings"].dict
      OBVIOUS
    <2>3. RenderIsDeclared(render)
      BY <1>1, <1>3, <2>1, <2>2, RenderDeclared DEF ProgramInvariant
    <2>4. GenerateEnds(render) \in {"read", "threw", "undefined"}
          /\ (GenerateEnds(render) = "read" <=> RenderIsWhole(render))
      BY RenderEnds
    <2>5. at' \in {"handler", "threw", "undefined"} /\ (at' = "handler" => RenderIsWhole(render))
      BY <1>1, <1>3, <2>1, <2>2, <2>4
    <2>6. at' = "handler" => SettingsAreWhole(renderer')
      BY <1>1, <1>3, <2>1, <2>2, <2>3, <2>5, SettingsTakenAreWhole
    <2> QED
      BY <1>1, <2>5, <2>6 DEF SettingsInvariant
  <1>4. CASE ~HasKey("render_settings")
    <2>1. SettingsAreWhole(renderer')
      BY <1>1, <1>4, UninitializedAreWhole
    <2> QED
      BY <1>1, <2>1 DEF SettingsInvariant
  <1> QED
    BY <1>3, <1>4

LEMMA SettingsStep ==
    ASSUME ProgramInvariant, SettingsInvariant, [ProgramNext]_programVars
    PROVE  SettingsInvariant'
  <1> DEFINE Holds == {"handler", "opening", "writing"}
  <1>1. ASSUME at' \in Holds => at \in Holds /\ renderer' = renderer, saved' = saved
        PROVE  SettingsInvariant'
    BY <1>1 DEF SettingsInvariant
  <1>2. CASE UNCHANGED programVars
    BY <1>1, <1>2 DEF programVars, memory, store
  <1>3. CASE Start
    BY <1>1, <1>3 DEF Start, store
  <1>4. CASE Kill
    BY <1>1, <1>4 DEF Kill, store
  <1>5. CASE ReadInput
    BY <1>1, <1>5 DEF ReadInput
  <1>6. CASE PrintUsage
    BY <1>1, <1>6 DEF PrintUsage
  <1>7. CASE BeginPopulate
    BY <1>1, <1>7 DEF BeginPopulate, GoOn
  <1>8. CASE ContinuePopulate
    BY <1>1, <1>8 DEF ContinuePopulate
  <1>9. CASE SkipPopulate
    BY <1>1, <1>9 DEF SkipPopulate
  <1>10. CASE TakeSettings
    BY <1>10, TakenSettingsAreWhole
  <1>11. CASE MakeHandler
    BY <1>1, <1>11 DEF MakeHandler
  <1>12. CASE NoFile
    <2>1. FileEnds \in {"read", "undefined", "threw"}
      BY DEF FileEnds
    <2> QED
      BY <1>1, <1>12, <2>1 DEF NoFile
  <1>13. CASE OpenForWriting
    BY <1>13 DEF OpenForWriting, SettingsInvariant
  <1>14. CASE Serialize
    <2>1. /\ at = "writing" /\ at' = "returned" /\ renderer' = renderer
          /\ saved' = WithFile(saved, [settings |-> renderer, base |-> base])
      BY <1>14 DEF Serialize
    <2>2. SettingsAreWhole(renderer)
      BY <2>1 DEF SettingsInvariant
    <2>3. \A name \in DOMAIN saved' :
                \/ name \in DOMAIN saved /\ saved'[name] = saved[name]
                \/ saved'[name] = [settings |-> renderer, base |-> base]
      BY <2>1 DEF WithFile
    <2>4. \A name \in DOMAIN saved' : SettingsAreWhole(saved'[name].settings)
      BY <2>2, <2>3 DEF SettingsInvariant
    <2> QED
      BY <2>1, <2>4 DEF SettingsInvariant
  <1>15. CASE OpenForReading
    BY <1>1, <1>15 DEF OpenForReading
  <1>16. CASE LoadBus
    BY <1>1, <1>16 DEF LoadBus
  <1>17. CASE LoadSettings
    BY <1>1, <1>17 DEF LoadSettings
  <1>18. CASE Respond
    BY <1>1, <1>18 DEF Respond
  <1>19. CASE PrintResponses
    BY <1>1, <1>19 DEF PrintResponses
  <1> QED
    BY <1>2, <1>3, <1>4, <1>5, <1>6, <1>7, <1>8, <1>9, <1>10, <1>11, <1>12, <1>13, <1>14, <1>15, <1>16,
       <1>17, <1>18, <1>19 DEF ProgramNext, MainNext

\* A process that answers has the settings of its file.
LEMMA SettingsFollow ==
    ASSUME ProgramInvariant, SettingsInvariant
    PROVE  SettingsSurvive
  <1> SUFFICES ASSUME Answering PROVE SettingsSurvive
    BY DEF SettingsSurvive
  <1>1. /\ renderer = ConvertBack(Loaded.map_settings)
        /\ ConvertBackEnds(Loaded.map_settings) = "read"
    BY DEF ProgramInvariant, LoadingFollowsFile
  <1>2. CASE IsWhole
    <2>1. PICK kept : kept = saved[DatabaseFile].settings
      OBVIOUS
    <2>2. Loaded.map_settings = ConvertSettings(kept)
      BY <1>2, <2>1 DEF ProgramInvariant, FilesHoldBases, Loaded, IsWhole
    <2>3. SettingsAreWhole(kept)
      BY <1>2, <2>1 DEF SettingsInvariant, IsWhole
    <2>4. ComeBack(kept, renderer)
      BY <1>1, <2>2, <2>3, SettingsComeBack
    <2> QED
      BY <1>2, <2>1, <2>4 DEF SettingsSurvive, ComeBack
  <1>3. CASE ~IsWhole
    <2>1. Loaded = EmptyMessage
      BY <1>3 DEF ProgramInvariant, FilesHoldBases, Loaded, IsWhole
    <2>2. Loaded.map_settings = DefaultMessage
      BY <2>1 DEF EmptyMessage
    <2>3. renderer.map_sizes = <<0, 0>> /\ renderer.palette = << >>
      BY <1>1, <2>2 DEF ConvertBack, DefaultMessage
    <2> QED
      BY <1>3, <2>3 DEF SettingsSurvive
  <1> QED
    BY <1>2, <1>3

\* The settings a process takes, and those it has saved, are whole.
THEOREM SettingsInvariance == ProgramSpec => []SettingsInvariant
  <1>1. ProgramInit => SettingsInvariant
    BY DEF ProgramInit, SettingsInvariant
  <1>2. ProgramInvariant /\ SettingsInvariant /\ [ProgramNext]_programVars => SettingsInvariant'
    BY SettingsStep
  <1> QED
    BY <1>1, <1>2, ProgramInvariance, PTL DEF ProgramSpec

\* A picture is drawn with the settings its base was made with, and a color that is
\* not short comes out as another, for every catalogue, palette and session, wherever
\* processes are killed (serialization.cpp:51-76, 78-152).
THEOREM SavedSettingsSurvive == ProgramSpec => []SettingsSurvive
  <1>1. ProgramInvariant /\ SettingsInvariant => SettingsSurvive
    BY SettingsFollow
  <1> QED
    BY <1>1, ProgramInvariance, SettingsInvariance, PTL
=============================================================================

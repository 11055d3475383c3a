----------------------------- MODULE KlistProofs -----------------------------
(***************************************************************************)
(* Proofs about Klist: the way back from local time, for every pair of      *)
(* offsets and every instant of change, and what a successful `status`      *)
(* has seen, for every list of profiles.                                    *)
(***************************************************************************)
EXTENDS Klist, TLAPS

\* Local time is read back as the instant it was printed from, or as the other
\* one that has it.
LEMMA LocalTime ==
    ASSUME NEW u \in Int
    PROVE  LET off == ParseKlistTime(Local(u)) - u
           IN /\ ParseKlistTime(Local(u)) \in Int
              /\ \/ off = 0
                 \/ Twice(u) /\ off \in {Before - After, After - Before}
BY KlistAssumption DEF ParseKlistTime, Local, Offset, Twice

-----------------------------------------------------------------------------
(* Types. *)

LEMMA ContentType ==
    ASSUME TypeOK, NEW cc \in CCache, NEW c \in Content
    PROVE  [cache EXCEPT ![cc] = c] \in [CCache -> Content]
BY DEF TypeOK

\* TypeOK with the lengths the list of lines can have.
LEMMA LineTypes ==
    ASSUME TypeOK, ReadsLine
    PROVE  TypeOK'
<1>1. PICK st \in ReadStatus(Profiles[at]) :
        /\ lines' = Append(lines, [state |-> Line(st), truth |-> TruthOf(Profiles[at])])
        /\ anyBad' = (anyBad \/ Line(st) # "VALID")
  BY DEF ReadsLine
<1> DEFINE line == [state |-> Line(st), truth |-> TruthOf(Profiles[at])]
<1>2. line \in [state : State, truth : Truth]
  BY DEF Line, State, TruthOf, Truth
<1>3. /\ Len(Profiles) \in Nat /\ at \in 1 .. Len(Profiles) /\ at' = at + 1
      /\ UNCHANGED <<now, cache, exit>>
  BY KlistAssumption DEF ReadsLine
<1>4. lines \in Seq([state : State, truth : Truth]) /\ Len(lines) = at - 1
  BY <1>3 DEF TypeOK
<1>5. lines' \in Seq([state : State, truth : Truth]) /\ Len(lines') = at' - 1
  <2> HIDE DEF line
  <2>1. lines' = Append(lines, line)
    BY <1>1 DEF line
  <2> QED
    BY <1>2, <1>3, <1>4, <2>1
<1>6. anyBad' \in BOOLEAN
  BY <1>1 DEF TypeOK
<1>7. at' \in 0 .. Len(Profiles) + 1
  BY <1>3
<1> QED
  BY <1>3, <1>5, <1>6, <1>7 DEF TypeOK

LEMMA NoLines ==
    <<>> \in Seq([state : State, truth : Truth]) /\ Len(<<>>) = 0
OBVIOUS

LEMMA TypeStep ==
    ASSUME TypeOK, [Next]_vars
    PROVE  TypeOK'
<1> Len(Profiles) \in Nat
  BY KlistAssumption
<1>1. CASE StatusStarts
  <2>1. lines' \in Seq([state : State, truth : Truth]) /\ Len(lines') = at' - 1
    BY <1>1, NoLines DEF StatusStarts
  <2>2. anyBad' \in BOOLEAN /\ exit' \in {"none", "ok", "error"}
    BY <1>1, Zenon DEF StatusStarts
  <2>3. at' \in 0 .. Len(Profiles) + 1
    BY <1>1 DEF StatusStarts
  <2> QED
    BY <1>1, <2>1, <2>2, <2>3 DEF StatusStarts, TypeOK
<1>2. CASE ReadsLine
  BY <1>2, LineTypes
<1>3. CASE StatusEnds
  BY <1>3 DEF StatusEnds, TypeOK
<1>4. CASE Users
  <2>1. PICK cc \in CCache :
          \/ \E r \in Realm : Kinit(cc, r)
          \/ \E s \in Server : GetTicket(cc, s) \/ KdestroyCredential(cc, s)
          \/ Kdestroy(cc)
    BY <1>4 DEF Users
  <2>2. cache[cc] \in Content /\ NoTickets \in [Server -> Nat]
    BY DEF TypeOK, NoTickets
  <2>3. PICK c : c \in Content /\ Put(cc, c)
    <3>1. ASSUME NEW r \in Realm, Kinit(cc, r) PROVE \E c \in Content : Put(cc, c)
      <4>1. [exists |-> TRUE, realm |-> r, ends |-> [NoTickets EXCEPT ![r] = now + Lifetime]] \in Content
        BY <2>2, KlistAssumption DEF Content, TypeOK
      <4> QED
        BY <3>1, <4>1 DEF Kinit
    <3>2. ASSUME NEW s \in Server, GetTicket(cc, s) PROVE \E c \in Content : Put(cc, c)
      <4>1. cache[cc].ends[cache[cc].realm] \in Nat
        BY <2>2, KlistAssumption DEF Content
      <4>2. [cache[cc] EXCEPT !.ends[s] = cache[cc].ends[cache[cc].realm]] \in Content
        BY <2>2, <4>1 DEF Content
      <4> QED
        BY <3>2, <4>2 DEF GetTicket
    <3>3. ASSUME NEW s \in Server, KdestroyCredential(cc, s) PROVE \E c \in Content : Put(cc, c)
      <4>1. [cache[cc] EXCEPT !.ends[s] = 0] \in Content
        BY <2>2 DEF Content
      <4> QED
        BY <3>3, <4>1 DEF KdestroyCredential
    <3>4. ASSUME Kdestroy(cc) PROVE \E c \in Content : Put(cc, c)
      <4>1. [cache[cc] EXCEPT !.exists = FALSE, !.ends = NoTickets] \in Content
        BY <2>2 DEF Content
      <4> QED
        BY <3>4, <4>1 DEF Kdestroy
    <3> QED
      BY <2>1, <3>1, <3>2, <3>3, <3>4
  <2> QED
    BY <2>3, ContentType DEF Put, TypeOK
<1>5. CASE Tick
  BY <1>5 DEF Tick, TypeOK
<1>6. CASE UNCHANGED vars
  BY <1>6 DEF vars, TypeOK
<1> QED
  BY <1>1, <1>2, <1>3, <1>4, <1>5, <1>6 DEF Next, Status

\* Every reachable state of Klist is of the declared types, and a running
\* `status` has written one line for each profile it has read.
THEOREM TypeCorrect == Spec => []TypeOK
<1>1. ASSUME Init PROVE TypeOK
  <2>1. cache \in [CCache -> Content]
    BY <1>1 DEF Init, Content, NoTickets
  <2>2. at \in 0 .. Len(Profiles) + 1
    BY <1>1, KlistAssumption DEF Init
  <2>3. anyBad \in BOOLEAN /\ exit \in {"none", "ok", "error"}
    BY <1>1, Zenon DEF Init
  <2>4. lines \in Seq([state : State, truth : Truth]) /\ now \in Nat /\ ~(at > 0)
    BY <1>1, NoLines DEF Init
  <2> QED
    BY <2>1, <2>2, <2>3, <2>4 DEF TypeOK
<1> QED
  BY <1>1, TypeStep, PTL DEF Spec

-----------------------------------------------------------------------------
(* The answers. *)

LEMMA EndType ==
    ASSUME TypeOK, NEW cc \in CCache, NEW s \in Server
    PROVE  cache[cc].ends[s] \in Int /\ cache[cc].realm \in Server /\ cache[cc].realm \in Realm
BY KlistAssumption DEF TypeOK, Content

LEMMA ReadBackNow ==
    ASSUME TypeOK
    PROVE  ReadBack
<1> SUFFICES ASSUME NEW st \in ReadStatus(CCacheAPI), st.exists, HasTGT(cache[CCacheAPI])
             PROVE  LET c == cache[CCacheAPI]
                        off == st.end - c.ends[c.realm]
                    IN \/ off = 0
                       \/ Twice(c.ends[c.realm]) /\ off \in {Before - After, After - Before}
  BY DEF ReadBack
<1> DEFINE c == cache[CCacheAPI]
<1>1. c.ends[c.realm] \in Int /\ c.realm \in Server
  BY EndType, KlistAssumption DEF CCache, TypeOK, Content
<1>2. st \in ReadAPIStatus(c)
  BY DEF ReadStatus
<1>3. FindTGT(c) = {c.realm} /\ c.exists
  BY DEF HasTGT, FindTGT
<1>4. st = Ticket(ParseKlistTime(Local(c.ends[c.realm])))
  BY <1>2, <1>3 DEF ReadAPIStatus, Failed, Missing
<1>5. st.end = ParseKlistTime(Local(c.ends[c.realm]))
  BY <1>4 DEF Ticket
<1> QED
  BY <1>1, <1>5, LocalTime

\* For every pair of offsets and every instant of change: the end of a realm's
\* own ticket in the API cache is read exactly, or it lies in the repeated hour
\* and is off by the difference of the offsets.
THEOREM EndsReadBack == Spec => []ReadBack
BY TypeCorrect, ReadBackNow, PTL

\* A line that says VALID is true, with the exceptions of SuccessMeansValid.
LEMMA ValidIsTrue ==
    ASSUME TypeOK, NEW cc \in CCache, NEW st \in ReadStatus(cc), Line(st) = "VALID"
    PROVE  \/ TruthOf(cc) = "valid"
           \/ cc = CCacheAPI /\ TruthOf(cc) \in {"twice", "noTGT"}
<1> DEFINE c == cache[cc]
<1>1. ~st.err /\ st.exists /\ ~Expired(st)
  BY DEF Line
<1>2. c.ends[c.realm] \in Int /\ c.realm \in Server /\ now \in Int
  BY EndType, KlistAssumption DEF TypeOK, Content
<1>3. CASE cc # CCacheAPI
  <2>1. st = Ticket(c.ends[c.realm]) /\ HasTGT(c)
    BY <1>1, <1>3 DEF ReadStatus, ReadFileStatus, Failed, Missing, HasTGT
  <2>2. c.ends[c.realm] > now
    BY <1>1, <1>2, <2>1 DEF Expired, Ticket
  <2> QED
    BY <1>3, <2>1, <2>2 DEF TruthOf
<1>4. CASE cc = CCacheAPI /\ HasTGT(c) /\ ~Twice(c.ends[c.realm])
  <2>1. st.end = c.ends[c.realm]
    <3>1. ReadBack
      BY ReadBackNow
    <3>2. st.end \in Int
      <4>1. st = Ticket(ParseKlistTime(Local(c.ends[c.realm])))
        BY <1>1, <1>4 DEF ReadStatus, ReadAPIStatus, FindTGT, Failed, Missing, HasTGT
      <4> QED
        BY <1>2, <4>1, LocalTime DEF Ticket
    <3> QED
      BY <1>1, <1>2, <1>4, <3>1, <3>2 DEF ReadBack
  <2> QED
    BY <1>1, <1>2, <1>4, <2>1 DEF Expired, TruthOf
<1> QED
  BY <1>3, <1>4 DEF TruthOf

-----------------------------------------------------------------------------
(* The command. *)

\* Each line is true, the verdict is that of the lines written, and a `status`
\* that has succeeded has written one for each profile.
Reported ==
    /\ \A i \in DOMAIN lines : lines[i].state = "VALID" =>
         \/ lines[i].truth = "valid"
         \/ Profiles[i] = CCacheAPI /\ lines[i].truth \in {"twice", "noTGT"}
    /\ ~anyBad => \A i \in DOMAIN lines : lines[i].state = "VALID"
    /\ exit = "ok" => ~anyBad /\ Len(lines) = Len(Profiles)

LEMMA ReportedStep ==
    ASSUME TypeOK, Reported, [Next]_vars
    PROVE  Reported'
<1>1. CASE StatusStarts
  BY <1>1 DEF StatusStarts, Reported
<1>2. CASE ReadsLine
  <2>1. PICK st \in ReadStatus(Profiles[at]) :
          /\ lines' = Append(lines, [state |-> Line(st), truth |-> TruthOf(Profiles[at])])
          /\ anyBad' = (anyBad \/ Line(st) # "VALID")
    BY <1>2 DEF ReadsLine
  <2>2. at \in DOMAIN Profiles /\ Profiles[at] \in CCache /\ Len(lines) = at - 1 /\ exit' = exit
    BY <1>2, KlistAssumption DEF ReadsLine, TypeOK, CCache
  <2>3. at \in 1 .. Len(Profiles) /\ Len(Profiles) \in Nat
    BY <2>2, KlistAssumption
  <2>4. exit # "ok"
    BY <2>2, <2>3 DEF Reported
  <2>5. /\ DOMAIN lines' = 1 .. at
        /\ lines'[at] = [state |-> Line(st), truth |-> TruthOf(Profiles[at])]
        /\ \A i \in 1 .. at : i # at => i \in DOMAIN lines /\ lines'[i] = lines[i]
    BY <2>1, <2>2, <2>3 DEF TypeOK
  <2>6. Line(st) = "VALID" =>
          \/ TruthOf(Profiles[at]) = "valid"
          \/ Profiles[at] = CCacheAPI /\ TruthOf(Profiles[at]) \in {"twice", "noTGT"}
    BY <2>2, ValidIsTrue
  <2>7. \A i \in DOMAIN lines' : lines'[i].state = "VALID" =>
          \/ lines'[i].truth = "valid"
          \/ Profiles[i] = CCacheAPI /\ lines'[i].truth \in {"twice", "noTGT"}
    BY <2>5, <2>6 DEF Reported
  <2>8. ~anyBad' => \A i \in DOMAIN lines' : lines'[i].state = "VALID"
    <3> SUFFICES ASSUME ~anyBad' PROVE \A i \in DOMAIN lines' : lines'[i].state = "VALID"
      OBVIOUS
    <3>1. ~anyBad /\ Line(st) = "VALID"
      BY <2>1
    <3>2. \A i \in DOMAIN lines : lines[i].state = "VALID"
      BY <3>1 DEF Reported
    <3> QED
      BY <2>5, <3>1, <3>2
  <2> QED
    BY <2>2, <2>4, <2>7, <2>8 DEF Reported
<1>3. CASE StatusEnds
  <2>1. Len(lines) = Len(Profiles)
    BY <1>3, KlistAssumption DEF StatusEnds, TypeOK
  <2> QED
    BY <1>3, <2>1 DEF StatusEnds, Reported
<1>4. CASE Users
  BY <1>4 DEF Users, Kinit, GetTicket, Kdestroy, KdestroyCredential, Put, Reported
<1>5. CASE Tick
  BY <1>5 DEF Tick, Reported
<1>6. CASE UNCHANGED vars
  BY <1>6 DEF vars, Reported
<1> QED
  BY <1>1, <1>2, <1>3, <1>4, <1>5, <1>6 DEF Next, Status

LEMMA ReportedSuccess ==
    ASSUME TypeOK, Reported
    PROVE  SuccessMeansValid
<1> SUFFICES ASSUME exit = "ok", NEW i \in DOMAIN Profiles
             PROVE  \/ lines[i].truth = "valid"
                    \/ Profiles[i] = CCacheAPI /\ lines[i].truth \in {"twice", "noTGT"}
  BY DEF SuccessMeansValid
<1>1. i \in DOMAIN lines
  BY KlistAssumption DEF Reported, TypeOK
<1> QED
  BY <1>1 DEF Reported

\* For every list of profiles: a `status` that succeeds found every profile's
\* own krbtgt unexpired when it read it, but for the two exceptions named.
THEOREM StatusSound == Spec => []SuccessMeansValid
<1>1. Init => Reported
  BY DEF Init, Reported
<1> QED
  BY <1>1, TypeCorrect, ReportedStep, ReportedSuccess, PTL DEF Spec

=============================================================================

---------------------------- MODULE LogFileProofs ----------------------------
(***************************************************************************)
(* Theorems about LogFile, for every check interval and every bound on the  *)
(* length of a call.                                                        *)
(***************************************************************************)
EXTENDS LogFile, TLAPS

\* Which calls are where, and that the recorded identity is that of the file held.
Control ==
    /\ closed => file = nil /\ op # "Open"
    /\ file = nil /\ op = "Write" => at = "closed"
    /\ at = "closed" => file = nil
    /\ at = "fstat" => file # nil
    /\ at \in {"closed", "stat", "append"} => op = "Write"
    /\ at = "open" /\ op = "Open" => file = nil
    /\ file # nil => info \in {file, nil}

\* Unless a reopening failed, the held file has left the path no longer ago than
\* the last check, but for the time that passed between its opening and the
\* record of it.
Recent ==
    /\ path = file => gone = 0
    /\ file # nil /\ ~failed =>
         /\ at \in {"idle", "append"} /\ age < CheckInterval => gone <= age + Slow
         /\ at = "append" => gone < CheckInterval + Slow + took
         /\ at = "fstat" => gone <= took

IInv == TypeOK /\ Control /\ Recent

\* At first no file is held.
LEMMA RotationInit == Init => IInv
<1> SUFFICES ASSUME Init PROVE IInv
    OBVIOUS
<1>1. failed \in BOOLEAN /\ closed \in BOOLEAN
    BY DEF Init
<1>2. age \in 0 .. CheckInterval /\ took \in 0 .. Slow /\ gone \in Nat
    BY LogFileAssumption DEF Init
<1>3. Control /\ Recent
    BY LogFileAssumption DEF Init, Control, Recent
<1> QED BY <1>1, <1>2, <1>3 DEF Init, IInv, TypeOK

\* Every system call of the writer, every step of newsyslog and every unit of
\* time keeps the held file recent.
LEMMA RotationStep == IInv /\ [Next]_vars => IInv'
<1> SUFFICES ASSUME IInv, [Next]_vars PROVE IInv'
    OBVIOUS
<1> USE LogFileAssumption DEF IInv, TypeOK, Control, Recent
<1>1. CASE UNCHANGED vars
    BY <1>1 DEF vars, disk, held
<1>2. CASE Open
    BY <1>2 DEF Open, disk, held
<1>3. CASE Write
    BY <1>3 DEF Write, disk, held
<1>4. CASE Stat
    <2>1. failed' \in BOOLEAN
        BY <1>4 DEF Stat
    <2>2. TypeOK'
        BY <1>4, <2>1 DEF Stat, disk, held
    <2>3. Control'
        BY <1>4 DEF Stat, disk, held
    <2>4. Recent'
        <3>1. CASE failed'
            BY <1>4, <3>1 DEF Stat, disk, held
        <3>2. CASE at' = "append" /\ path = info
            BY <1>4, <3>2 DEF Stat, disk, held
        <3>3. CASE at' = "open"
            BY <1>4, <3>3 DEF Stat, disk, held
        <3> QED BY <1>4, <3>1, <3>2, <3>3 DEF Stat
    <2> QED BY <2>2, <2>3, <2>4
<1>5. CASE OpenFile
    <2>1. ASSUME NEW i \in IF path = NoFile THEN Fresh ELSE {path},
                 path' = i, file' = i, info' = nil, at' = "fstat", gone' = 0, failed' = FALSE,
                 UNCHANGED <<op, took, archive, age, closed>>
          PROVE  IInv'
        <3>1. i \in Inode
            BY <2>1 DEF Fresh
        <3>2. ~closed
            BY <1>5 DEF OpenFile
        <3>3. failed' \in BOOLEAN
            BY <2>1
        <3> QED BY <1>5, <2>1, <3>1, <3>2, <3>3 DEF OpenFile
    <2>2. ASSUME failed' = (op = "Write"), Checked,
                 UNCHANGED <<path, file, info, gone, archive, age, closed>>
          PROVE  IInv'
        <3>1. failed' \in BOOLEAN /\ (failed' <=> op = "Write")
            BY <2>2
        <3>2. CASE op = "Write"
            BY <1>5, <2>2, <3>1, <3>2 DEF Checked, OpenFile
        <3>3. CASE op # "Write"
            BY <1>5, <2>2, <3>1, <3>3 DEF Checked, Unlock, OpenFile
        <3> QED BY <3>2, <3>3
    <2> QED BY <1>5, <2>1, <2>2 DEF OpenFile, held
<1>6. CASE FStat
    BY <1>6 DEF FStat, Checked, Unlock, disk
<1>7. CASE Append
    BY <1>7 DEF Append, Unlock, disk, held
<1>7a. CASE Refuse
    BY <1>7a DEF Refuse, Unlock, disk, held
<1>8. CASE Close
    BY <1>8 DEF Close, disk
<1>9. CASE Rename
    BY <1>9 DEF Rename, held
<1>10. CASE Create
    BY <1>10 DEF Create, held, Fresh
<1>11. CASE Compress
    BY <1>11 DEF Compress, held
<1>12. CASE Remove
    BY <1>12 DEF Remove, held
<1>13. CASE Tick
    BY <1>13 DEF Tick, disk, held
<1> QED
    BY <1>1, <1>2, <1>3, <1>4, <1>5, <1>6, <1>7, <1>8, <1>9, <1>10, <1>11, <1>12, <1>13, <1>7a
    DEF Next, Calls

\* No line goes to a file that left the path checkInterval ago or earlier, give
\* or take the length of two calls, unless the last attempt to reopen failed.
THEOREM RotationFollowed == Spec => []FollowsRotation
<1>1. IInv => FollowsRotation
    BY LogFileAssumption DEF IInv, TypeOK, Control, Recent, FollowsRotation
<1> QED BY <1>1, RotationInit, RotationStep, PTL DEF Spec

\* Every variable keeps its type, and between two calls no step of one is pending.
THEOREM LogFileTypes == Spec => []TypeOK
<1>1. IInv => TypeOK
    BY DEF IInv
<1> QED BY <1>1, RotationInit, RotationStep, PTL DEF Spec

\* A file is held exactly from Open to Close.
THEOREM HeldUntilClosed == Spec => []OpenUntilClosed
<1>1. IInv => OpenUntilClosed
    BY DEF IInv, Control, OpenUntilClosed
<1> QED BY <1>1, RotationInit, RotationStep, PTL DEF Spec

=============================================================================

------------------------- MODULE UsqueConfigProofs -------------------------
(***************************************************************************)
(* Proofs about UsqueConfig, for any number of calls, accounts and files.  *)
(* IInv adds to the checked invariants what makes them inductive: a call   *)
(* that saves alone has the temporary file open, never the one configPath  *)
(* is linked to, and before its rename that file holds the account; as     *)
(* soon as two calls save, every file they can touch is in clash.          *)
(***************************************************************************)
EXTENDS UsqueConfig, TLAPS

AcctInv == \A c \in Calls :
    pc[c] \in {"open", "write", "rename"} => acct[c] \in enrolled

\* A call that saves has an inode open. The temporary name is linked to it
\* unless other calls came between; then both are in clash.
SaverInv == \A c \in Calls : Saving(c) =>
    /\ fd[c] # None
    /\ fd[c] \notin clash => tmp = fd[c]
    /\ tmp # None /\ tmp \notin clash => tmp = fd[c]

\* Two calls that save spoil every file they have open.
PairInv == \A c, d \in Calls : c # d /\ Saving(c) /\ Saving(d) => fd[c] \in clash

HeldInv == \A c \in Calls :
    /\ pc[c] = "write" /\ fd[c] \notin clash => data[fd[c]] = "empty"
    /\ pc[c] = "rename" /\ fd[c] \notin clash => data[fd[c]] = acct[c]

NamesInv == tmp # None => tmp # path

WriterInv == AcctInv /\ SaverInv /\ PairInv /\ HeldInv /\ NamesInv

IInv == TypeOK /\ WriterInv /\ ConfigWhole /\ OKMeansSaved

LEMMA InitIInv == Init => IInv
BY ConfigAssumption DEF Init, IInv, TypeOK, WriterInv, AcctInv, SaverInv, PairInv,
   HeldInv, NamesInv, ConfigWhole, OKMeansSaved, Saving

LEMMA NextTypeOK == TypeOK /\ WriterInv /\ [Next]_vars => TypeOK'
<1> SUFFICES ASSUME TypeOK, WriterInv, [Next]_vars PROVE TypeOK'
  OBVIOUS
<1> USE ConfigAssumption DEF TypeOK, WriterInv, AcctInv, SaverInv, Saving, files, Return, Step
<1>1. ASSUME NEW c \in Calls, Register(c) PROVE TypeOK'
  BY <1>1 DEF Register
<1>2. ASSUME NEW c \in Calls, Check(c) PROVE TypeOK'
  BY <1>2 DEF Check
<1>3. ASSUME NEW c \in Calls, Enroll(c) PROVE TypeOK'
  BY <1>3 DEF Enroll
<1>4. ASSUME NEW c \in Calls, EnrollFails(c) PROVE TypeOK'
  BY <1>4 DEF EnrollFails
<1>5. ASSUME NEW c \in Calls, Open(c) PROVE TypeOK'
  BY <1>5 DEF Open, Truncate, Fresh
<1>6. ASSUME NEW c \in Calls, OpenFails(c) PROVE TypeOK'
  BY <1>6 DEF OpenFails
<1>7. ASSUME NEW c \in Calls, Write(c) PROVE TypeOK'
  BY <1>7 DEF Write
<1>8. ASSUME NEW c \in Calls, WriteFails(c) PROVE TypeOK'
  BY <1>8 DEF WriteFails
<1>9. ASSUME NEW c \in Calls, Rename(c) PROVE TypeOK'
  BY <1>9 DEF Rename
<1>10. ASSUME NEW c \in Calls, RenameFails(c) PROVE TypeOK'
  BY <1>10 DEF RenameFails
<1>11. CASE Crash
  BY <1>11 DEF Crash
<1>12. CASE UNCHANGED vars
  BY <1>12 DEF vars
<1> QED
  BY <1>1, <1>2, <1>3, <1>4, <1>5, <1>6, <1>7, <1>8, <1>9, <1>10, <1>11, <1>12 DEF Next

LEMMA NextAcctInv == TypeOK /\ WriterInv /\ [Next]_vars => AcctInv'
<1> SUFFICES ASSUME TypeOK, WriterInv, [Next]_vars PROVE AcctInv'
  OBVIOUS
<1> USE ConfigAssumption DEF TypeOK, WriterInv, AcctInv, files, Return, Step
<1>1. ASSUME NEW c \in Calls, Register(c) PROVE AcctInv'
  BY <1>1 DEF Register
<1>2. ASSUME NEW c \in Calls, Check(c) PROVE AcctInv'
  BY <1>2 DEF Check
<1>3. ASSUME NEW c \in Calls, Enroll(c) PROVE AcctInv'
  BY <1>3 DEF Enroll
<1>4. ASSUME NEW c \in Calls, EnrollFails(c) PROVE AcctInv'
  BY <1>4 DEF EnrollFails
<1>5. ASSUME NEW c \in Calls, Open(c) PROVE AcctInv'
  BY <1>5 DEF Open, Truncate, Fresh
<1>6. ASSUME NEW c \in Calls, OpenFails(c) PROVE AcctInv'
  BY <1>6 DEF OpenFails
<1>7. ASSUME NEW c \in Calls, Write(c) PROVE AcctInv'
  BY <1>7 DEF Write
<1>8. ASSUME NEW c \in Calls, WriteFails(c) PROVE AcctInv'
  BY <1>8 DEF WriteFails
<1>9. ASSUME NEW c \in Calls, Rename(c) PROVE AcctInv'
  BY <1>9 DEF Rename
<1>10. ASSUME NEW c \in Calls, RenameFails(c) PROVE AcctInv'
  BY <1>10 DEF RenameFails
<1>11. CASE Crash
  BY <1>11 DEF Crash
<1>12. CASE UNCHANGED vars
  BY <1>12 DEF vars
<1> QED
  BY <1>1, <1>2, <1>3, <1>4, <1>5, <1>6, <1>7, <1>8, <1>9, <1>10, <1>11, <1>12 DEF Next

LEMMA NextSaverInv == TypeOK /\ WriterInv /\ [Next]_vars => SaverInv'
<1> SUFFICES ASSUME TypeOK, WriterInv, [Next]_vars PROVE SaverInv'
  OBVIOUS
<1> USE ConfigAssumption DEF TypeOK, WriterInv, SaverInv, PairInv, Saving, files, Return, Step
<1>1. ASSUME NEW c \in Calls, Register(c) PROVE SaverInv'
  BY <1>1 DEF Register
<1>2. ASSUME NEW c \in Calls, Check(c) PROVE SaverInv'
  BY <1>2 DEF Check
<1>3. ASSUME NEW c \in Calls, Enroll(c) PROVE SaverInv'
  BY <1>3 DEF Enroll
<1>4. ASSUME NEW c \in Calls, EnrollFails(c) PROVE SaverInv'
  BY <1>4 DEF EnrollFails
<1>5. ASSUME NEW c \in Calls, Open(c) PROVE SaverInv'
  BY <1>5 DEF Open, Truncate, Fresh
<1>6. ASSUME NEW c \in Calls, OpenFails(c) PROVE SaverInv'
  BY <1>6 DEF OpenFails
<1>7. ASSUME NEW c \in Calls, Write(c) PROVE SaverInv'
  BY <1>7 DEF Write
<1>8. ASSUME NEW c \in Calls, WriteFails(c) PROVE SaverInv'
  BY <1>8 DEF WriteFails
<1>9. ASSUME NEW c \in Calls, Rename(c) PROVE SaverInv'
  BY <1>9 DEF Rename
<1>10. ASSUME NEW c \in Calls, RenameFails(c) PROVE SaverInv'
  BY <1>10 DEF RenameFails
<1>11. CASE Crash
  BY <1>11 DEF Crash
<1>12. CASE UNCHANGED vars
  BY <1>12 DEF vars
<1> QED
  BY <1>1, <1>2, <1>3, <1>4, <1>5, <1>6, <1>7, <1>8, <1>9, <1>10, <1>11, <1>12 DEF Next

LEMMA NextPairInv == TypeOK /\ WriterInv /\ [Next]_vars => PairInv'
<1> SUFFICES ASSUME TypeOK, WriterInv, [Next]_vars PROVE PairInv'
  OBVIOUS
<1> USE ConfigAssumption DEF TypeOK, WriterInv, SaverInv, PairInv, Saving, files, Return, Step
<1>1. ASSUME NEW c \in Calls, Register(c) PROVE PairInv'
  BY <1>1 DEF Register
<1>2. ASSUME NEW c \in Calls, Check(c) PROVE PairInv'
  BY <1>2 DEF Check
<1>3. ASSUME NEW c \in Calls, Enroll(c) PROVE PairInv'
  BY <1>3 DEF Enroll
<1>4. ASSUME NEW c \in Calls, EnrollFails(c) PROVE PairInv'
  BY <1>4 DEF EnrollFails
<1>5. ASSUME NEW c \in Calls, Open(c) PROVE PairInv'
  BY <1>5 DEF Open, Truncate, Fresh
<1>6. ASSUME NEW c \in Calls, OpenFails(c) PROVE PairInv'
  BY <1>6 DEF OpenFails
<1>7. ASSUME NEW c \in Calls, Write(c) PROVE PairInv'
  BY <1>7 DEF Write
<1>8. ASSUME NEW c \in Calls, WriteFails(c) PROVE PairInv'
  BY <1>8 DEF WriteFails
<1>9. ASSUME NEW c \in Calls, Rename(c) PROVE PairInv'
  BY <1>9 DEF Rename
<1>10. ASSUME NEW c \in Calls, RenameFails(c) PROVE PairInv'
  BY <1>10 DEF RenameFails
<1>11. CASE Crash
  BY <1>11 DEF Crash
<1>12. CASE UNCHANGED vars
  BY <1>12 DEF vars
<1> QED
  BY <1>1, <1>2, <1>3, <1>4, <1>5, <1>6, <1>7, <1>8, <1>9, <1>10, <1>11, <1>12 DEF Next

LEMMA NextHeldInv == TypeOK /\ WriterInv /\ [Next]_vars => HeldInv'
<1> SUFFICES ASSUME TypeOK, WriterInv, [Next]_vars PROVE HeldInv'
  OBVIOUS
<1> USE ConfigAssumption DEF TypeOK, WriterInv, HeldInv, SaverInv, PairInv, Saving, files, Return, Step
<1>1. ASSUME NEW c \in Calls, Register(c) PROVE HeldInv'
  BY <1>1 DEF Register
<1>2. ASSUME NEW c \in Calls, Check(c) PROVE HeldInv'
  BY <1>2 DEF Check
<1>3. ASSUME NEW c \in Calls, Enroll(c) PROVE HeldInv'
  BY <1>3 DEF Enroll
<1>4. ASSUME NEW c \in Calls, EnrollFails(c) PROVE HeldInv'
  BY <1>4 DEF EnrollFails
<1>5. ASSUME NEW c \in Calls, Open(c) PROVE HeldInv'
  BY <1>5 DEF Open, Truncate, Fresh
<1>6. ASSUME NEW c \in Calls, OpenFails(c) PROVE HeldInv'
  BY <1>6 DEF OpenFails
<1>7. ASSUME NEW c \in Calls, Write(c) PROVE HeldInv'
  BY <1>7 DEF Write
<1>8. ASSUME NEW c \in Calls, WriteFails(c) PROVE HeldInv'
  BY <1>8 DEF WriteFails
<1>9. ASSUME NEW c \in Calls, Rename(c) PROVE HeldInv'
  BY <1>9 DEF Rename
<1>10. ASSUME NEW c \in Calls, RenameFails(c) PROVE HeldInv'
  BY <1>10 DEF RenameFails
<1>11. CASE Crash
  BY <1>11 DEF Crash
<1>12. CASE UNCHANGED vars
  BY <1>12 DEF vars
<1> QED
  BY <1>1, <1>2, <1>3, <1>4, <1>5, <1>6, <1>7, <1>8, <1>9, <1>10, <1>11, <1>12 DEF Next

LEMMA NextNamesInv == TypeOK /\ WriterInv /\ [Next]_vars => NamesInv'
<1> SUFFICES ASSUME TypeOK, WriterInv, [Next]_vars PROVE NamesInv'
  OBVIOUS
<1> USE ConfigAssumption DEF TypeOK, WriterInv, NamesInv, files, Return, Step
<1>1. ASSUME NEW c \in Calls, Register(c) PROVE NamesInv'
  BY <1>1 DEF Register
<1>2. ASSUME NEW c \in Calls, Check(c) PROVE NamesInv'
  BY <1>2 DEF Check
<1>3. ASSUME NEW c \in Calls, Enroll(c) PROVE NamesInv'
  BY <1>3 DEF Enroll
<1>4. ASSUME NEW c \in Calls, EnrollFails(c) PROVE NamesInv'
  BY <1>4 DEF EnrollFails
<1>5. ASSUME NEW c \in Calls, Open(c) PROVE NamesInv'
  BY <1>5 DEF Open, Truncate, Fresh
<1>6. ASSUME NEW c \in Calls, OpenFails(c) PROVE NamesInv'
  BY <1>6 DEF OpenFails
<1>7. ASSUME NEW c \in Calls, Write(c) PROVE NamesInv'
  BY <1>7 DEF Write
<1>8. ASSUME NEW c \in Calls, WriteFails(c) PROVE NamesInv'
  BY <1>8 DEF WriteFails
<1>9. ASSUME NEW c \in Calls, Rename(c) PROVE NamesInv'
  BY <1>9 DEF Rename
<1>10. ASSUME NEW c \in Calls, RenameFails(c) PROVE NamesInv'
  BY <1>10 DEF RenameFails
<1>11. CASE Crash
  BY <1>11 DEF Crash
<1>12. CASE UNCHANGED vars
  BY <1>12 DEF vars
<1> QED
  BY <1>1, <1>2, <1>3, <1>4, <1>5, <1>6, <1>7, <1>8, <1>9, <1>10, <1>11, <1>12 DEF Next

LEMMA NextWriterInv == TypeOK /\ WriterInv /\ [Next]_vars => WriterInv'
BY NextAcctInv, NextSaverInv, NextPairInv, NextHeldInv, NextNamesInv DEF WriterInv

LEMMA NextConfigWhole == IInv /\ [Next]_vars => ConfigWhole'
<1> SUFFICES ASSUME IInv, [Next]_vars PROVE ConfigWhole'
  OBVIOUS
<1> USE ConfigAssumption DEF IInv, TypeOK, WriterInv, AcctInv, SaverInv, HeldInv, NamesInv, Saving, Mixed, ConfigWhole, files, Return, Step
<1>1. ASSUME NEW c \in Calls, Register(c) PROVE ConfigWhole'
  BY <1>1 DEF Register
<1>2. ASSUME NEW c \in Calls, Check(c) PROVE ConfigWhole'
  BY <1>2 DEF Check
<1>3. ASSUME NEW c \in Calls, Enroll(c) PROVE ConfigWhole'
  BY <1>3 DEF Enroll
<1>4. ASSUME NEW c \in Calls, EnrollFails(c) PROVE ConfigWhole'
  BY <1>4 DEF EnrollFails
<1>5. ASSUME NEW c \in Calls, Open(c) PROVE ConfigWhole'
  BY <1>5 DEF Open, Truncate, Fresh
<1>6. ASSUME NEW c \in Calls, OpenFails(c) PROVE ConfigWhole'
  BY <1>6 DEF OpenFails
<1>7. ASSUME NEW c \in Calls, Write(c) PROVE ConfigWhole'
  BY <1>7 DEF Write
<1>8. ASSUME NEW c \in Calls, WriteFails(c) PROVE ConfigWhole'
  BY <1>8 DEF WriteFails
<1>9. ASSUME NEW c \in Calls, Rename(c) PROVE ConfigWhole'
  BY <1>9 DEF Rename
<1>10. ASSUME NEW c \in Calls, RenameFails(c) PROVE ConfigWhole'
  BY <1>10 DEF RenameFails
<1>11. CASE Crash
  BY <1>11 DEF Crash
<1>12. CASE UNCHANGED vars
  BY <1>12 DEF vars
<1> QED
  BY <1>1, <1>2, <1>3, <1>4, <1>5, <1>6, <1>7, <1>8, <1>9, <1>10, <1>11, <1>12 DEF Next

LEMMA NextOKMeansSaved == IInv /\ [Next]_vars => OKMeansSaved'
<1> SUFFICES ASSUME IInv, [Next]_vars PROVE OKMeansSaved'
  OBVIOUS
<1> USE ConfigAssumption DEF IInv, TypeOK, WriterInv, AcctInv, SaverInv, HeldInv, NamesInv, Saving, Mixed, OKMeansSaved, Loadable, files, Return, Step
<1>1. ASSUME NEW c \in Calls, Register(c) PROVE OKMeansSaved'
  BY <1>1 DEF Register
<1>2. ASSUME NEW c \in Calls, Check(c) PROVE OKMeansSaved'
  BY <1>2 DEF Check
<1>3. ASSUME NEW c \in Calls, Enroll(c) PROVE OKMeansSaved'
  BY <1>3 DEF Enroll
<1>4. ASSUME NEW c \in Calls, EnrollFails(c) PROVE OKMeansSaved'
  BY <1>4 DEF EnrollFails
<1>5. ASSUME NEW c \in Calls, Open(c) PROVE OKMeansSaved'
  BY <1>5 DEF Open, Truncate, Fresh
<1>6. ASSUME NEW c \in Calls, OpenFails(c) PROVE OKMeansSaved'
  BY <1>6 DEF OpenFails
<1>7. ASSUME NEW c \in Calls, Write(c) PROVE OKMeansSaved'
  BY <1>7 DEF Write
<1>8. ASSUME NEW c \in Calls, WriteFails(c) PROVE OKMeansSaved'
  BY <1>8 DEF WriteFails
<1>9. ASSUME NEW c \in Calls, Rename(c) PROVE OKMeansSaved'
  BY <1>9 DEF Rename
<1>10. ASSUME NEW c \in Calls, RenameFails(c) PROVE OKMeansSaved'
  BY <1>10 DEF RenameFails
<1>11. CASE Crash
  BY <1>11 DEF Crash
<1>12. CASE UNCHANGED vars
  BY <1>12 DEF vars
<1> QED
  BY <1>1, <1>2, <1>3, <1>4, <1>5, <1>6, <1>7, <1>8, <1>9, <1>10, <1>11, <1>12 DEF Next

\* No step takes the account away: only the rename changes configPath, and
\* it links a file that holds the new account.
LEMMA NextKeepsAccount == IInv /\ [Next]_vars => (Loadable => Loadable' \/ Mixed' \/ data'[path'] \in Partial)
<1> SUFFICES ASSUME IInv, [Next]_vars, Loadable PROVE Loadable' \/ Mixed' \/ data'[path'] \in Partial
  OBVIOUS
<1> USE ConfigAssumption DEF IInv, TypeOK, WriterInv, AcctInv, SaverInv, HeldInv, NamesInv, Saving, Mixed, Loadable, files, Return, Step
<1>1. ASSUME NEW c \in Calls, Register(c) PROVE Loadable' \/ Mixed' \/ data'[path'] \in Partial
  BY <1>1 DEF Register
<1>2. ASSUME NEW c \in Calls, Check(c) PROVE Loadable' \/ Mixed' \/ data'[path'] \in Partial
  BY <1>2 DEF Check
<1>3. ASSUME NEW c \in Calls, Enroll(c) PROVE Loadable' \/ Mixed' \/ data'[path'] \in Partial
  BY <1>3 DEF Enroll
<1>4. ASSUME NEW c \in Calls, EnrollFails(c) PROVE Loadable' \/ Mixed' \/ data'[path'] \in Partial
  BY <1>4 DEF EnrollFails
<1>5. ASSUME NEW c \in Calls, Open(c) PROVE Loadable' \/ Mixed' \/ data'[path'] \in Partial
  BY <1>5 DEF Open, Truncate, Fresh
<1>6. ASSUME NEW c \in Calls, OpenFails(c) PROVE Loadable' \/ Mixed' \/ data'[path'] \in Partial
  BY <1>6 DEF OpenFails
<1>7. ASSUME NEW c \in Calls, Write(c) PROVE Loadable' \/ Mixed' \/ data'[path'] \in Partial
  BY <1>7 DEF Write
<1>8. ASSUME NEW c \in Calls, WriteFails(c) PROVE Loadable' \/ Mixed' \/ data'[path'] \in Partial
  BY <1>8 DEF WriteFails
<1>9. ASSUME NEW c \in Calls, Rename(c) PROVE Loadable' \/ Mixed' \/ data'[path'] \in Partial
  BY <1>9 DEF Rename
<1>10. ASSUME NEW c \in Calls, RenameFails(c) PROVE Loadable' \/ Mixed' \/ data'[path'] \in Partial
  BY <1>10 DEF RenameFails
<1>11. CASE Crash
  BY <1>11 DEF Crash
<1>12. CASE UNCHANGED vars
  BY <1>12 DEF vars
<1> QED
  BY <1>1, <1>2, <1>3, <1>4, <1>5, <1>6, <1>7, <1>8, <1>9, <1>10, <1>11, <1>12 DEF Next

LEMMA NextIInv == IInv /\ [Next]_vars => IInv'
BY NextTypeOK, NextWriterInv, NextConfigWhole, NextOKMeansSaved DEF IInv, WriterInv

LEMMA SpecIInv == Spec => []IInv
BY InitIInv, NextIInv, PTL DEF Spec

\* configPath names no file or a whole, enrolled account, wherever the
\* process is killed in register and saveConfig and whatever other calls
\* do, unless two of them were saving at once.
THEOREM AccountFileIsWhole == Spec => []ConfigWhole
<1>1. IInv => ConfigWhole
  BY DEF IInv
<1> QED
  BY <1>1, SpecIInv, PTL

\* While the ok of a register call stands, an account is in place.
THEOREM OKIsSaved == Spec => []OKMeansSaved
<1>1. IInv => OKMeansSaved
  BY DEF IInv
<1> QED
  BY <1>1, SpecIInv, PTL

\* No failure, crash or later register call takes a complete account away.
THEOREM AccountIsNeverLost == Spec => NeverWithoutAccount
BY NextKeepsAccount, SpecIInv, PTL DEF Spec, NeverWithoutAccount

\* The types hold; the inode that is open is what the write needs.
THEOREM TypeCorrect == Spec => []TypeOK
<1>1. IInv => TypeOK
  BY DEF IInv
<1> QED
  BY <1>1, SpecIInv, PTL
=============================================================================

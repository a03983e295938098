------------------------ MODULE ShareLifecycleProofs ------------------------
(***************************************************************************)
(* For any number of shares, requests and faults, any clock and any limits:*)
(* the variables of ShareLifecycle keep their types, a share serves no     *)
(* more counted downloads than its owner allowed, and a sweep leaves no    *)
(* file without a row. Where nobody edits, ShareLifecycle implements       *)
(* DownloadBudget and announces only shares that are gone.                 *)
(***************************************************************************)
EXTENDS ShareLifecycle, TLAPS

USE DEF Row, NoRow, PCs, Request, Idle, stored, history, announced

-----------------------------------------------------------------------------
(* Types *)

\* A request that moves on, ends or starts is again a request on a share.
ReqOK(q) ==
    /\ q \in [Requests -> Request]
    /\ \A p \in Requests : q[p].pc # "idle" => q[p].share \in Shares

LEMMA GotoType ==
    ASSUME ReqOK(req), NEW p \in Requests, req[p].pc # "idle", NEW pc \in PCs, Goto(p, pc)
    PROVE  ReqOK(req')
  BY DEF ReqOK, Goto

LEMMA FinishType ==
    ASSUME ReqOK(req), NEW p \in Requests, Finish(p)
    PROVE  ReqOK(req')
  BY ShareConstants DEF ReqOK, Finish

LEMMA StartType ==
    ASSUME ReqOK(req), NEW p \in Requests, NEW s \in Shares, NEW pc \in PCs,
           NEW snap \in Row, Start(p, s, pc, snap)
    PROVE  ReqOK(req')
  BY DEF ReqOK, Start

\* The row a request writes is a row.
LEMMA ExpiriesType ==
    ASSUME now \in Nat
    PROVE  Expiries \subseteq Nat
  BY ShareConstants DEF Expiries

LEMMA InsertRowType ==
    ASSUME row \in [Shares -> Row], kindOf \in [Shares -> {"none", "file", "folder"}],
           ceiling \in [Shares -> Int],
           NEW s \in Shares, NEW kind \in {"file", "folder"}, NEW max \in Limits,
           NEW e \in Nat, InsertRow(s, kind, max, e)
    PROVE  /\ row' \in [Shares -> Row]
           /\ kindOf' \in [Shares -> {"none", "file", "folder"}]
           /\ ceiling' \in [Shares -> Int]
  BY ShareConstants DEF InsertRow

LEMMA TypeInit == Init => TypeOK
  BY ShareConstants DEF Init, TypeOK

LEMMA TypeHandle ==
    ASSUME TypeOK, NEW p \in Requests, Handle(p)
    PROVE  TypeOK'
<1>req. ReqOK(req)
  BY DEF TypeOK, ReqOK
<1>norow. NoRow \in Row
  OBVIOUS
<1>exp. Expiries \subseteq Nat
  BY ExpiriesType DEF TypeOK
<1>1. ASSUME NEW s \in Shares, CreateFile(p, s) PROVE TypeOK'
  BY <1>req, <1>norow, <1>1, StartType DEF CreateFile, TypeOK, ReqOK
<1>2. ASSUME NEW s \in Shares, ShareFolder(p, s) PROVE TypeOK'
  <2>1. PICK max \in Limits, h \in TTLs : InsertRow(s, "folder", max, now + FolderHours(h))
    BY <1>2 DEF ShareFolder
  <2>2. now + FolderHours(h) \in Nat
    BY ShareConstants DEF TypeOK, FolderHours
  <2>3. ReqOK(req')
    BY <1>req, <1>norow, <1>2, StartType DEF ShareFolder
  <2> QED
    BY <1>2, <2>1, <2>2, <2>3, InsertRowType DEF ShareFolder, TypeOK, ReqOK
<1>3. ASSUME NEW s \in Shares, BeginDownload(p, s) PROVE TypeOK'
  BY <1>req, <1>norow, <1>3, StartType DEF BeginDownload, TypeOK, ReqOK
<1>4. ASSUME NEW s \in Shares, BeginDelete(p, s) PROVE TypeOK'
  BY <1>req, <1>norow, <1>4, StartType DEF BeginDelete, TypeOK, ReqOK
<1>5. ASSUME NEW s \in Shares, BeginEdit(p, s) PROVE TypeOK'
  <2>1. row[s] \in Row
    BY DEF TypeOK
  <2> QED
    BY <1>req, <2>1, <1>5, StartType DEF BeginEdit, TypeOK, ReqOK
<1>6. CASE AbandonUpload(p)
  BY <1>req, FinishType, <1>6 DEF AbandonUpload, TypeOK, ReqOK
<1>7. CASE SaveShare(p)
  <2>1. PICK max \in Limits, e \in Expiries : InsertRow(req[p].share, "file", max, e)
    BY <1>7 DEF SaveShare
  <2>2. req[p].share \in Shares /\ e \in Nat
    BY <1>req, <1>exp, <1>7 DEF SaveShare, ReqOK
  <2>3. ReqOK(req')
    BY <1>req, <1>7, FinishType DEF SaveShare
  <2> QED
    BY <1>7, <2>1, <2>2, <2>3, InsertRowType DEF SaveShare, TypeOK, ReqOK
<1>8. CASE SaveFolderContents(p)
  BY <1>req, FinishType, GotoType, <1>8 DEF SaveFolderContents, TypeOK, ReqOK
<1>9. CASE OpenFile(p)
  BY <1>req, FinishType, GotoType, <1>9 DEF OpenFile, TypeOK, ReqOK
<1>10. CASE ServeRange(p)
  BY <1>req, FinishType, <1>10 DEF ServeRange, TypeOK, ReqOK
<1>11. CASE CountDownload(p)
  <2>1. req[p].share \in Shares
    BY <1>req, <1>11 DEF CountDownload, ReqOK
  <2>2. row' \in [Shares -> Row] /\ served' \in [Shares -> Nat]
    BY <1>11, <2>1 DEF CountDownload, IncrementDownloads, TypeOK
  <2> QED
    BY <1>req, <1>11, <2>2, FinishType, GotoType DEF CountDownload, TypeOK, ReqOK
<1>12. CASE RefuseDownload(p)
  BY <1>req, FinishType, <1>12 DEF RefuseDownload, TypeOK, ReqOK
<1>13. CASE NotifyDownload(p)
  BY <1>req, FinishType, <1>13 DEF NotifyDownload, TypeOK, ReqOK
<1>14. CASE DeleteLookup(p)
  BY <1>req, GotoType, <1>14 DEF DeleteLookup, TypeOK, ReqOK
<1>15. CASE DeleteFile(p)
  BY <1>req, GotoType, <1>15 DEF DeleteFile, TypeOK, ReqOK
<1>16. CASE DeleteRow(p)
  BY <1>req, <1>norow, FinishType, <1>16 DEF DeleteRow, TypeOK, ReqOK, RemoveRow
<1>17. CASE DeleteRowFails(p)
  BY <1>req, FinishType, <1>17 DEF DeleteRowFails, TypeOK, ReqOK
<1>18. CASE SaveEdit(p)
  <2> DEFINE s == req[p].share
  <2>1. s \in Shares /\ req[p].snap \in Row
    BY <1>req, <1>18 DEF SaveEdit, ReqOK
  <2>2. PICK max \in Limits \union {req[p].snap.max},
             e \in Expiries \union {req[p].snap.expiresAt} :
          /\ row' = [row EXCEPT ![s] = [req[p].snap EXCEPT !.max = max, !.expiresAt = e]]
          /\ ceiling' = [ceiling EXCEPT ![s] = RaisedCeiling(@, max)]
    BY <1>18 DEF SaveEdit
  <2>3. max \in Int /\ e \in Nat
    BY <1>exp, <2>1, ShareConstants
  <2>4. row' \in [Shares -> Row] /\ ceiling' \in [Shares -> Int]
    BY <2>1, <2>2, <2>3 DEF TypeOK, RaisedCeiling
  <2>5. overwritten' \subseteq Shares
    BY <1>18, <2>1 DEF SaveEdit, TypeOK
  <2> QED
    BY <1>req, <1>18, <2>4, <2>5, FinishType DEF SaveEdit, TypeOK, ReqOK
<1> QED
  BY <1>1, <1>2, <1>3, <1>4, <1>5, <1>6, <1>7, <1>8, <1>9, <1>10, <1>11, <1>12, <1>13,
     <1>14, <1>15, <1>16, <1>17, <1>18 DEF Handle

LEMMA TypeStep ==
    ASSUME TypeOK, [Next]_vars
    PROVE  TypeOK'
<1>1. CASE \E p \in Requests : Handle(p)
  BY <1>1, TypeHandle
<1>2. CASE SweepSelect
  BY <1>2 DEF SweepSelect, TypeOK
<1>3. ASSUME NEW s \in Shares, SweepUnlink(s) PROVE TypeOK'
  BY <1>3 DEF SweepUnlink, TypeOK
<1>4. ASSUME NEW s \in Shares, SweepNotify(s) PROVE TypeOK'
  BY <1>4 DEF SweepNotify, TypeOK
<1>5. CASE SweepDeleteRows
  BY <1>5 DEF SweepDeleteRows, TypeOK
<1>6. CASE SweepDeleteFails
  BY <1>6 DEF SweepDeleteFails, TypeOK
<1>7. CASE Tick
  BY <1>7 DEF Tick, TypeOK
<1>8. CASE Restart
  BY <1>8, ShareConstants DEF Restart, TypeOK
<1>9. CASE UNCHANGED vars
  BY <1>9 DEF vars, TypeOK
<1> QED
  BY <1>1, <1>2, <1>3, <1>4, <1>5, <1>6, <1>7, <1>8, <1>9 DEF Next, Sweep

\* Every variable keeps its type in every behaviour of the share lifecycle:
\* a request that is doing something always works on a real share.
THEOREM TypeCorrect == Spec => []TypeOK
<1>1. Init => TypeOK
  BY TypeInit
<1>2. TypeOK /\ [Next]_vars => TypeOK'
  BY TypeStep
<1> QED
  BY <1>1, <1>2, PTL DEF Spec

-----------------------------------------------------------------------------
(* The download budget. LimitHonoured is not inductive: that a counted     *)
(* download stays within the ceiling needs the row's limit to be within it *)
(* and the row's counter to agree with the downloads served, and an edit   *)
(* keeps that only if the copy it writes back was within the ceiling too.  *)

Within(s, max) == ceiling[s] # 0 => max # 0 /\ max <= ceiling[s]

\* What is known of a share
ShareInv(s) ==
    /\ kindOf[s] = "none" => ~row[s].exists /\ served[s] = 0
    /\ row[s].exists => Within(s, row[s].max)
    /\ row[s].exists /\ s \notin overwritten => row[s].downloads = served[s]
    /\ ceiling[s] # 0 /\ s \notin overwritten => served[s] = 0 \/ served[s] <= ceiling[s]

\* What is known of a request: an upload has its share to itself until the row
\* is there, and an edit holds a copy of a row that did exist
RequestInv(p) ==
    /\ req[p].pc = "storing" =>
          /\ kindOf[req[p].share] = "none"
          /\ \A q \in Requests : q # p => req[q].share # req[p].share
    /\ req[p].pc = "editing" =>
          /\ kindOf[req[p].share] # "none"
          /\ req[p].snap.exists
          /\ Within(req[p].share, req[p].snap.max)

BudgetInv ==
    /\ \A s \in Shares : ShareInv(s)
    /\ \A p \in Requests : RequestInv(p)

LEMMA BudgetInit == Init => BudgetInv
  BY DEF Init, BudgetInv, ShareInv, RequestInv, Within

\* A request that moves on without starting an upload or an edit
MovesOn(p) ==
    \/ req'[p] = req[p]
    \/ /\ req'[p].pc \notin {"storing", "editing"}
       /\ \/ req'[p].share \in {req[p].share, NoShare}
          \/ req'[p].share \in Shares /\ kindOf[req'[p].share] # "none"

LEMMA RequestsKept ==
    ASSUME TypeOK, BudgetInv, UNCHANGED <<kindOf, ceiling>>,
           \A p \in Requests : MovesOn(p)
    PROVE  \A p \in Requests : RequestInv(p)'
<1> SUFFICES ASSUME NEW p \in Requests PROVE RequestInv(p)'
  OBVIOUS
<1>1. CASE req'[p].pc = "storing"
  <2>1. req'[p] = req[p] /\ RequestInv(p) /\ req[p].share \in Shares
    BY <1>1 DEF MovesOn, BudgetInv, TypeOK
  <2>2. /\ kindOf[req[p].share] = "none"
        /\ \A q \in Requests : q # p => req[q].share # req[p].share
    BY <1>1, <2>1 DEF RequestInv
  <2>3. ASSUME NEW q \in Requests, q # p PROVE req'[q].share # req[p].share
    <3>1. req[q].share # req[p].share
      BY <2>2, <2>3
    <3>2. CASE req'[q] = req[q]
      BY <3>1, <3>2
    <3>3. CASE req'[q].share \in {req[q].share, NoShare}
      BY <2>1, <3>1, <3>3, ShareConstants
    <3>4. CASE kindOf[req'[q].share] # "none"
      BY <2>2, <3>4
    <3> QED
      BY <3>2, <3>3, <3>4 DEF MovesOn
  <2> QED
    BY <1>1, <2>1, <2>2, <2>3 DEF RequestInv
<1>2. CASE req'[p].pc = "editing"
  <2>1. req'[p] = req[p] /\ RequestInv(p)
    BY <1>2 DEF MovesOn, BudgetInv
  <2> QED
    BY <1>2, <2>1 DEF RequestInv, Within
<1> QED
  BY <1>1, <1>2 DEF RequestInv

LEMMA SharesKept ==
    ASSUME BudgetInv, UNCHANGED <<row, kindOf, history>>
    PROVE  \A s \in Shares : ShareInv(s)'
  BY DEF BudgetInv, ShareInv, Within

\* A share that a request can see was inserted once.
LEMMA VisibleKind ==
    ASSUME BudgetInv, NEW s \in Shares, Visible(s)
    PROVE  kindOf[s] # "none" /\ Exists(s)
  BY DEF BudgetInv, ShareInv, Visible, Exists

\* Removing a row (DeleteRow) leaves the budget of every share.
LEMMA RemovalKept ==
    ASSUME TypeOK, BudgetInv, NEW s \in Shares, RemoveRow(s), UNCHANGED <<kindOf, history>>
    PROVE  \A t \in Shares : ShareInv(t)'
  BY DEF TypeOK, BudgetInv, ShareInv, Within, RemoveRow

\* Inserting the row of a share that has none yet.
LEMMA InsertionKept ==
    ASSUME TypeOK, BudgetInv, NEW s \in Shares, kindOf[s] = "none",
           NEW kind \in {"file", "folder"}, NEW max \in Limits, NEW e \in Nat,
           InsertRow(s, kind, max, e), UNCHANGED <<served, overwritten>>
    PROVE  \A t \in Shares : ShareInv(t)'
<1> SUFFICES ASSUME NEW t \in Shares PROVE ShareInv(t)'
  OBVIOUS
<1>0. max \in Int
  BY ShareConstants
<1>1. CASE t = s
  BY <1>0, <1>1 DEF TypeOK, BudgetInv, ShareInv, Within, InsertRow
<1>2. CASE t # s
  BY <1>2 DEF TypeOK, BudgetInv, ShareInv, Within, InsertRow
<1> QED
  BY <1>1, <1>2

LEMMA FinishMoves ==
    ASSUME TypeOK, NEW p \in Requests, Finish(p)
    PROVE  \A q \in Requests : MovesOn(q)
  BY DEF TypeOK, Finish, MovesOn

LEMMA GotoMoves ==
    ASSUME TypeOK, NEW p \in Requests, NEW pc \in PCs \ {"storing", "editing"}, Goto(p, pc)
    PROVE  \A q \in Requests : MovesOn(q)
  BY DEF TypeOK, Goto, MovesOn

LEMMA StartMoves ==
    ASSUME TypeOK, BudgetInv, NEW p \in Requests, NEW s \in Shares, Visible(s),
           NEW pc \in PCs \ {"storing", "editing"}, Start(p, s, pc, NoRow)
    PROVE  \A q \in Requests : MovesOn(q)
  BY VisibleKind DEF TypeOK, Start, MovesOn

LEMMA BudgetHandle ==
    ASSUME TypeOK, BudgetInv, NEW p \in Requests, Handle(p)
    PROVE  BudgetInv'
<1>1. ASSUME NEW s \in Shares, CreateFile(p, s) PROVE BudgetInv'
  <2>1. kindOf[s] = "none" /\ \A q \in Requests : req[q].share # s
    BY <1>1 DEF CreateFile, Fresh
  <2>2. req' = [req EXCEPT ![p] = [pc |-> "storing", share |-> s, snap |-> NoRow]]
    BY <1>1 DEF CreateFile, Start
  <2>3. ASSUME NEW q \in Requests PROVE RequestInv(q)'
    BY <1>1, <2>1, <2>2 DEF CreateFile, TypeOK, BudgetInv, RequestInv, Within
  <2> QED
    BY <1>1, <2>3, SharesKept DEF CreateFile, BudgetInv
<1>2. ASSUME NEW s \in Shares, ShareFolder(p, s) PROVE BudgetInv'
  <2>1. PICK max \in Limits, h \in TTLs : InsertRow(s, "folder", max, now + FolderHours(h))
    BY <1>2 DEF ShareFolder
  <2>2. now + FolderHours(h) \in Nat
    BY ShareConstants DEF TypeOK, FolderHours
  <2>3. kindOf[s] = "none" /\ \A q \in Requests : req[q].share # s
    BY <1>2 DEF ShareFolder, Fresh
  <2>4. ASSUME NEW t \in Shares PROVE ShareInv(t)'
    BY <1>2, <2>1, <2>2, <2>3, InsertionKept DEF ShareFolder
  <2>5. ASSUME NEW q \in Requests PROVE RequestInv(q)'
    BY <1>2, <2>1, <2>3 DEF ShareFolder, Start, InsertRow, TypeOK, BudgetInv, RequestInv, Within
  <2> QED
    BY <2>4, <2>5 DEF BudgetInv
<1>3. ASSUME NEW s \in Shares, BeginDownload(p, s) PROVE BudgetInv'
  <2>1. \A q \in Requests : MovesOn(q)
    BY <1>3, StartMoves DEF BeginDownload
  <2>2. \A t \in Shares : ShareInv(t)'
    BY <1>3, SharesKept DEF BeginDownload, stored, history
  <2> QED
    BY <1>3, <2>1, <2>2, RequestsKept DEF BeginDownload, BudgetInv, stored, history
<1>4. ASSUME NEW s \in Shares, BeginDelete(p, s) PROVE BudgetInv'
  <2>1. \A q \in Requests : MovesOn(q)
    BY <1>4, StartMoves DEF BeginDelete
  <2>2. \A t \in Shares : ShareInv(t)'
    BY <1>4, SharesKept DEF BeginDelete, stored, history
  <2> QED
    BY <1>4, <2>1, <2>2, RequestsKept DEF BeginDelete, BudgetInv, stored, history
<1>5. ASSUME NEW s \in Shares, BeginEdit(p, s) PROVE BudgetInv'
  <2>1. kindOf[s] # "none" /\ row[s].exists /\ Within(s, row[s].max)
    BY <1>5, VisibleKind DEF BeginEdit, Exists, BudgetInv, ShareInv
  <2>2. req' = [req EXCEPT ![p] = [pc |-> "editing", share |-> s, snap |-> row[s]]]
    BY <1>5 DEF BeginEdit, Start
  <2>3. ASSUME NEW q \in Requests PROVE RequestInv(q)'
    BY <1>5, <2>1, <2>2 DEF BeginEdit, TypeOK, BudgetInv, RequestInv, Within
  <2> QED
    BY <1>5, <2>3, SharesKept DEF BeginEdit, BudgetInv
<1>6. CASE AbandonUpload(p)
  <2>1. \A q \in Requests : MovesOn(q)
    BY <1>6, FinishMoves DEF AbandonUpload
  <2>2. \A s \in Shares : ShareInv(s)'
    BY <1>6, SharesKept DEF AbandonUpload, stored, history
  <2> QED
    BY <1>6, <2>1, <2>2, RequestsKept DEF AbandonUpload, BudgetInv, stored, history
<1>7. CASE SaveShare(p)
  <2> DEFINE s == req[p].share
  <2>1. PICK max \in Limits, e \in Expiries : InsertRow(s, "file", max, e)
    BY <1>7 DEF SaveShare
  <2>2. s \in Shares /\ max \in Limits /\ e \in Nat
    BY <1>7, ExpiriesType DEF SaveShare, TypeOK
  <2>3. kindOf[s] = "none" /\ \A q \in Requests : q # p => req[q].share # s
    BY <1>7 DEF SaveShare, BudgetInv, RequestInv
  <2>4. ASSUME NEW t \in Shares PROVE ShareInv(t)'
    BY <1>7, <2>1, <2>2, <2>3, InsertionKept DEF SaveShare
  <2>5. ASSUME NEW q \in Requests PROVE RequestInv(q)'
    <3>1. CASE q = p
      BY <1>7, <3>1 DEF SaveShare, Finish, TypeOK, RequestInv
    <3>2. CASE q # p
      <4>1. req'[q] = req[q] /\ req'[p].share = NoShare
        BY <1>7, <3>2 DEF SaveShare, Finish, TypeOK
      <4>2. \A x \in Shares : x # s => kindOf'[x] = kindOf[x] /\ ceiling'[x] = ceiling[x]
        BY <2>1 DEF InsertRow, TypeOK
      <4>3. \A r \in Requests : r # p => req'[r] = req[r]
        BY <1>7 DEF SaveShare, Finish, TypeOK
      <4>4. req[q].pc # "idle" => req[q].share \in Shares
        BY DEF TypeOK
      <4> QED
        BY <2>3, <3>2, <4>1, <4>2, <4>3, <4>4, ShareConstants DEF BudgetInv, RequestInv, Within
    <3> QED
      BY <3>1, <3>2
  <2> QED
    BY <2>4, <2>5 DEF BudgetInv
<1>8. CASE SaveFolderContents(p)
  <2>1. \A q \in Requests : MovesOn(q)
    BY <1>8, FinishMoves, GotoMoves DEF SaveFolderContents
  <2>2. \A s \in Shares : ShareInv(s)'
    BY <1>8, SharesKept DEF SaveFolderContents, stored, history
  <2> QED
    BY <1>8, <2>1, <2>2, RequestsKept DEF SaveFolderContents, BudgetInv, stored, history
<1>9. CASE OpenFile(p)
  <2>1. \A q \in Requests : MovesOn(q)
    BY <1>9, FinishMoves, GotoMoves DEF OpenFile
  <2>2. \A s \in Shares : ShareInv(s)'
    BY <1>9, SharesKept DEF OpenFile, stored, history
  <2> QED
    BY <1>9, <2>1, <2>2, RequestsKept DEF OpenFile, BudgetInv, stored, history
<1>10. CASE ServeRange(p)
  <2>1. \A q \in Requests : MovesOn(q)
    BY <1>10, FinishMoves DEF ServeRange
  <2>2. \A s \in Shares : ShareInv(s)'
    BY <1>10, SharesKept DEF ServeRange, stored, history
  <2> QED
    BY <1>10, <2>1, <2>2, RequestsKept DEF ServeRange, BudgetInv, stored, history
<1>11. CASE CountDownload(p)
  <2> DEFINE s == req[p].share
  <2>1. s \in Shares
    BY <1>11 DEF CountDownload, TypeOK
  <2>2. /\ Countable(row[s])
        /\ row' = [row EXCEPT ![s].downloads = @ + 1]
        /\ served' = [served EXCEPT ![s] = @ + 1]
        /\ UNCHANGED <<kindOf, ceiling, overwritten>>
    BY <1>11 DEF CountDownload, IncrementDownloads
  <2>3. ASSUME NEW t \in Shares PROVE ShareInv(t)'
    <3>1. CASE t = s
      BY <2>1, <2>2, <3>1 DEF TypeOK, BudgetInv, ShareInv, Within, Countable
    <3>2. CASE t # s
      BY <2>1, <2>2, <3>2 DEF TypeOK, BudgetInv, ShareInv, Within
    <3> QED
      BY <3>1, <3>2
  <2>4. \A q \in Requests : MovesOn(q)
    BY <1>11, FinishMoves, GotoMoves DEF CountDownload
  <2> QED
    BY <2>2, <2>3, <2>4, RequestsKept DEF BudgetInv
<1>12. CASE RefuseDownload(p)
  <2>1. \A q \in Requests : MovesOn(q)
    BY <1>12, FinishMoves DEF RefuseDownload
  <2>2. \A s \in Shares : ShareInv(s)'
    BY <1>12, SharesKept DEF RefuseDownload, stored, history
  <2> QED
    BY <1>12, <2>1, <2>2, RequestsKept DEF RefuseDownload, BudgetInv, stored, history
<1>13. CASE NotifyDownload(p)
  <2>1. \A q \in Requests : MovesOn(q)
    BY <1>13, FinishMoves DEF NotifyDownload
  <2>2. \A s \in Shares : ShareInv(s)'
    BY <1>13, SharesKept DEF NotifyDownload, stored, history
  <2> QED
    BY <1>13, <2>1, <2>2, RequestsKept DEF NotifyDownload, BudgetInv, stored, history
<1>14. CASE DeleteLookup(p)
  <2>1. \A q \in Requests : MovesOn(q)
    BY <1>14, GotoMoves DEF DeleteLookup
  <2>2. \A s \in Shares : ShareInv(s)'
    BY <1>14, SharesKept DEF DeleteLookup, stored, history
  <2> QED
    BY <1>14, <2>1, <2>2, RequestsKept DEF DeleteLookup, BudgetInv, stored, history
<1>15. CASE DeleteFile(p)
  <2>1. \A q \in Requests : MovesOn(q)
    BY <1>15, GotoMoves DEF DeleteFile
  <2>2. \A s \in Shares : ShareInv(s)'
    BY <1>15, SharesKept DEF DeleteFile, stored, history
  <2> QED
    BY <1>15, <2>1, <2>2, RequestsKept DEF DeleteFile, BudgetInv, stored, history
<1>16. CASE DeleteRow(p)
  <2>1. req[p].share \in Shares
    BY <1>16 DEF DeleteRow, TypeOK
  <2>2. ASSUME NEW t \in Shares PROVE ShareInv(t)'
    BY <1>16, <2>1, RemovalKept DEF DeleteRow
  <2>3. \A q \in Requests : MovesOn(q)
    BY <1>16, FinishMoves DEF DeleteRow
  <2> QED
    BY <1>16, <2>2, <2>3, RequestsKept DEF DeleteRow, BudgetInv
<1>17. CASE DeleteRowFails(p)
  <2>1. \A q \in Requests : MovesOn(q)
    BY <1>17, FinishMoves DEF DeleteRowFails
  <2>2. \A s \in Shares : ShareInv(s)'
    BY <1>17, SharesKept DEF DeleteRowFails, stored, history
  <2> QED
    BY <1>17, <2>1, <2>2, RequestsKept DEF DeleteRowFails, BudgetInv, stored, history
<1>18. CASE SaveEdit(p)
  <2> DEFINE s == req[p].share
             snap == req[p].snap
  <2>1. /\ s \in Shares /\ snap \in Row /\ kindOf[s] # "none"
        /\ snap.exists /\ Within(s, snap.max)
    BY <1>18 DEF SaveEdit, TypeOK, BudgetInv, RequestInv
  <2>2. PICK max \in Limits \union {snap.max}, e \in Expiries \union {snap.expiresAt} :
          /\ row' = [row EXCEPT ![s] = [snap EXCEPT !.max = max, !.expiresAt = e]]
          /\ ceiling' = [ceiling EXCEPT ![s] = RaisedCeiling(@, max)]
    BY <1>18 DEF SaveEdit
  <2>3. max \in Int
    BY <2>1, ShareConstants
  <2>4. /\ ceiling'[s] # 0 => /\ ceiling[s] # 0 /\ max # 0
                             /\ ceiling[s] <= ceiling'[s] /\ max <= ceiling'[s]
        /\ \A x \in Shares : x # s => ceiling'[x] = ceiling[x] /\ row'[x] = row[x]
    BY <2>1, <2>2, <2>3 DEF RaisedCeiling, TypeOK
  <2>5. /\ row'[s].exists /\ row'[s].max = max /\ row'[s].downloads = snap.downloads
        /\ ceiling'[s] \in Int /\ ceiling[s] \in Int
    BY <2>1, <2>2, <2>3 DEF TypeOK, RaisedCeiling
  <2>6. /\ s \notin overwritten' => /\ s \notin overwritten
                                   /\ row[s].exists /\ row[s].downloads = snap.downloads
        /\ \A x \in Shares : x # s => (x \in overwritten' <=> x \in overwritten)
        /\ UNCHANGED <<kindOf, served>>
    BY <1>18 DEF SaveEdit
  <2>7. ASSUME NEW t \in Shares PROVE ShareInv(t)'
    <3>1. CASE t = s
      BY <2>1, <2>4, <2>5, <2>6, <3>1 DEF TypeOK, BudgetInv, ShareInv, Within
    <3>2. CASE t # s
      BY <2>4, <2>6, <3>2 DEF BudgetInv, ShareInv, Within
    <3> QED
      BY <3>1, <3>2
  <2>8. \A q \in Requests : MovesOn(q)
    BY <1>18, FinishMoves DEF SaveEdit
  <2>9. ASSUME NEW q \in Requests PROVE RequestInv(q)'
    <3>1. CASE req'[q].pc = "storing"
      <4>1. req'[q] = req[q] /\ req[q].share \in Shares
        BY <2>8, <3>1 DEF MovesOn, TypeOK
      <4>2. /\ kindOf[req[q].share] = "none"
            /\ \A r \in Requests : r # q => req[r].share # req[q].share
        BY <3>1, <4>1 DEF BudgetInv, RequestInv
      <4>3. ASSUME NEW r \in Requests, r # q PROVE req'[r].share # req[q].share
        BY <2>8, <4>1, <4>2, <4>3, ShareConstants DEF MovesOn
      <4> QED
        BY <2>6, <3>1, <4>1, <4>2, <4>3 DEF RequestInv
    <3>2. CASE req'[q].pc = "editing"
      <4>1. req'[q] = req[q] /\ req[q].share \in Shares /\ RequestInv(q)
            /\ req[q].snap.max \in Int
        BY <2>8, <3>2 DEF MovesOn, TypeOK, BudgetInv
      <4> QED
        BY <2>4, <2>5, <2>6, <3>2, <4>1 DEF RequestInv, Within
    <3> QED
      BY <3>1, <3>2 DEF RequestInv
  <2> QED
    BY <2>7, <2>9 DEF BudgetInv
<1> QED
  BY <1>1, <1>2, <1>3, <1>4, <1>5, <1>6, <1>7, <1>8, <1>9, <1>10, <1>11, <1>12, <1>13,
     <1>14, <1>15, <1>16, <1>17, <1>18 DEF Handle

LEMMA BudgetStep ==
    ASSUME TypeOK, BudgetInv, [Next]_vars
    PROVE  BudgetInv'
<1>1. CASE \E p \in Requests : Handle(p)
  BY <1>1, BudgetHandle
<1>2. CASE SweepDeleteRows
  <2>1. \A s \in Shares : row'[s] = row[s] \/ row'[s] = NoRow
    BY <1>2 DEF SweepDeleteRows
  <2>2. \A s \in Shares : ShareInv(s)'
    BY <1>2, <2>1 DEF SweepDeleteRows, BudgetInv, ShareInv, Within
  <2>3. \A p \in Requests : MovesOn(p)
    BY <1>2 DEF SweepDeleteRows, MovesOn
  <2> QED
    BY <1>2, <2>2, <2>3, RequestsKept DEF SweepDeleteRows, BudgetInv
<1>3. CASE Restart
  <2>1. \A p \in Requests : MovesOn(p)
    BY <1>3 DEF Restart, MovesOn
  <2> QED
    BY <1>3, <2>1, RequestsKept, SharesKept DEF Restart, BudgetInv
<1>4. ASSUME UNCHANGED <<row, kindOf, history, req>> PROVE BudgetInv'
  BY <1>4, SharesKept, RequestsKept DEF MovesOn, BudgetInv
<1>5. ASSUME SweepSelect \/ (\E s \in Shares : SweepUnlink(s) \/ SweepNotify(s))
             \/ SweepDeleteFails \/ Tick \/ UNCHANGED vars
      PROVE  UNCHANGED <<row, kindOf, history, req>>
  BY <1>5 DEF SweepSelect, SweepUnlink, SweepNotify, SweepDeleteFails, Tick, vars
<1> QED
  BY <1>1, <1>2, <1>3, <1>4, <1>5 DEF Next, Sweep

\* However many downloads, streams, archives, edits, deletes, sweeps and
\* crashes interleave, a share serves at most as many counted downloads as the
\* largest limit its owner gave it, unless an edit put its counter back: the
\* handlers check a copy that is stale by the time they act on it, and the
\* conditional UPDATE of IncrementDownloads is what makes up for it.
THEOREM DownloadLimit == Spec => []LimitHonoured
<1>1. Init => TypeOK /\ BudgetInv
  BY TypeInit, BudgetInit
<1>2. TypeOK /\ BudgetInv /\ [Next]_vars => (TypeOK /\ BudgetInv)'
  BY TypeStep, BudgetStep
<1>3. TypeOK /\ BudgetInv => LimitHonoured
  BY DEF TypeOK, BudgetInv, ShareInv, LimitHonoured
<1> QED
  BY <1>1, <1>2, <1>3, PTL DEF Spec

-----------------------------------------------------------------------------
(* The sweep and the stored files *)

\* A share that was inserted once stays so, and only an upload to a fresh id adds
\* a file
OldSharesKept ==
    /\ \A s \in Shares : kindOf[s] # "none" => kindOf'[s] = kindOf[s]
    /\ \A s \in files' : s \in files \/ kindOf[s] = "none"

\* What the sweep has selected was inserted once, and what it has unlinked has no
\* file: no upload takes the id of a share that was.
SweepInv ==
    /\ \A s \in sweep.todo \union sweep.done : kindOf[s] # "none"
    /\ sweep.pc = "unlinking" => sweep.done \intersect files = {}

LEMMA HandlersKeepOldShares ==
    ASSUME TypeOK, BudgetInv, NEW p \in Requests, Handle(p)
    PROVE  OldSharesKept /\ UNCHANGED <<sweep, expireAnnounced>>
<1>1. ASSUME NEW s \in Shares, CreateFile(p, s)
      PROVE  OldSharesKept /\ UNCHANGED <<sweep, expireAnnounced>>
  BY <1>1 DEF CreateFile, Fresh, OldSharesKept
<1>2. ASSUME NEW s \in Shares, ShareFolder(p, s)
      PROVE  OldSharesKept /\ UNCHANGED <<sweep, expireAnnounced>>
  BY <1>2 DEF ShareFolder, Fresh, InsertRow, OldSharesKept, TypeOK
<1>3. CASE SaveShare(p)
  <2>1. kindOf[req[p].share] = "none"
    BY <1>3 DEF SaveShare, BudgetInv, RequestInv
  <2> QED
    BY <1>3, <2>1 DEF SaveShare, InsertRow, OldSharesKept, TypeOK
<1>4. CASE AbandonUpload(p) \/ DeleteFile(p)
  BY <1>4 DEF AbandonUpload, DeleteFile, OldSharesKept
<1>5. ASSUME NEW s \in Shares, BeginDownload(p, s) \/ BeginDelete(p, s) \/ BeginEdit(p, s)
      PROVE  OldSharesKept /\ UNCHANGED <<sweep, expireAnnounced>>
  BY <1>5 DEF BeginDownload, BeginDelete, BeginEdit, OldSharesKept
<1>6. CASE \/ SaveFolderContents(p) \/ OpenFile(p) \/ ServeRange(p) \/ CountDownload(p)
           \/ RefuseDownload(p) \/ NotifyDownload(p) \/ DeleteLookup(p) \/ DeleteRow(p)
           \/ DeleteRowFails(p) \/ SaveEdit(p)
  BY <1>6 DEF SaveFolderContents, OpenFile, ServeRange, CountDownload, RefuseDownload,
     NotifyDownload, DeleteLookup, DeleteRow, DeleteRowFails, SaveEdit, OldSharesKept
<1> QED
  BY <1>1, <1>2, <1>3, <1>4, <1>5, <1>6 DEF Handle

LEMMA SweepStep ==
    ASSUME TypeOK, BudgetInv, SweepInv, [Next]_vars
    PROVE  SweepInv' /\ OldSharesKept
<1>1. ASSUME NEW p \in Requests, Handle(p) PROVE SweepInv' /\ OldSharesKept
  <2>1. OldSharesKept /\ sweep' = sweep
    BY <1>1, HandlersKeepOldShares
  <2> QED
    BY <2>1 DEF SweepInv, OldSharesKept, TypeOK
<1>2. CASE SweepSelect
  <2>1. \A s \in sweep'.todo \union sweep'.done : kindOf[s] # "none"
    BY <1>2 DEF SweepSelect, Expired, Exists, BudgetInv, ShareInv
  <2> QED
    BY <1>2, <2>1 DEF SweepSelect, SweepInv, OldSharesKept
<1>3. ASSUME NEW s \in Shares, SweepUnlink(s) PROVE SweepInv' /\ OldSharesKept
  <2>1. /\ sweep'.todo \union sweep'.done = sweep.todo \union sweep.done
        /\ sweep'.done = sweep.done \union {s} /\ sweep.pc = "unlinking"
    BY <1>3 DEF SweepUnlink, TypeOK
  <2>2. files' \subseteq files /\ s \notin files' /\ kindOf' = kindOf
    BY <1>3 DEF SweepUnlink
  <2> QED
    BY <2>1, <2>2 DEF SweepInv, OldSharesKept
<1>4. ASSUME NEW s \in Shares, SweepNotify(s) PROVE SweepInv' /\ OldSharesKept
  BY <1>4 DEF SweepNotify, SweepInv, OldSharesKept, TypeOK
<1>5. CASE SweepDeleteRows
  BY <1>5 DEF SweepDeleteRows, SweepInv, OldSharesKept, TypeOK
<1>6. CASE SweepDeleteFails \/ Restart
  BY <1>6 DEF SweepDeleteFails, Restart, SweepInv, OldSharesKept
<1>7. CASE Tick \/ UNCHANGED vars
  BY <1>7 DEF Tick, vars, SweepInv, OldSharesKept
<1> QED
  BY <1>1, <1>2, <1>3, <1>4, <1>5, <1>6, <1>7 DEF Next, Sweep

LEMMA SweepInitially == Init => SweepInv
  BY DEF Init, SweepInv

\* A sweep leaves no file without a row, whatever expires, is uploaded, edited or
\* deleted while it runs, and after any number of failed statements and crashes.
THEOREM SweepIsClean == Spec => SweepLeavesNoOrphan
<1> DEFINE Inv == TypeOK /\ BudgetInv /\ SweepInv
<1>1. Init => Inv
  BY TypeInit, BudgetInit, SweepInitially
<1>2. Inv /\ [Next]_vars => Inv'
  BY TypeStep, BudgetStep, SweepStep
<1>3. Inv /\ [Next]_vars =>
        [sweep.pc = "unlinking" /\ sweep'.pc = "announcing" =>
            \A s \in Shares : Exists(s) /\ ~row'[s].exists => s \notin files]_vars
  <2> SUFFICES ASSUME Inv, [Next]_vars, sweep.pc = "unlinking", sweep'.pc = "announcing"
               PROVE  \A s \in Shares : Exists(s) /\ ~row'[s].exists => s \notin files
    OBVIOUS
  <2>1. SweepDeleteRows
    <3>1. CASE \E p \in Requests : Handle(p)
      BY <3>1, HandlersKeepOldShares
    <3>2. CASE SweepSelect \/ SweepDeleteFails \/ Restart
      BY <3>2 DEF SweepSelect, SweepDeleteFails, Restart
    <3>3. CASE \E s \in Shares : SweepUnlink(s) \/ SweepNotify(s)
      BY <3>3 DEF SweepUnlink, SweepNotify, TypeOK
    <3>4. CASE Tick \/ UNCHANGED vars
      BY <3>4 DEF Tick, vars
    <3> QED
      BY <3>1, <3>2, <3>3, <3>4 DEF Next, Sweep
  <2> QED
    BY <2>1 DEF SweepDeleteRows, Reaped, SweepInv, Exists
<1> QED
  BY <1>1, <1>2, <1>3, PTL DEF Spec, SweepLeavesNoOrphan

-----------------------------------------------------------------------------
(* Shares that are not edited. A row is then inserted once, counted while  *)
(* it is there, and removed for good.                                      *)

\* The three ways in which the tables move; Removes({}) is standing still
Inserts(s) ==
    /\ kindOf[s] = "none"
    /\ \E kind \in {"file", "folder"}, max \in Limits, e \in Nat : InsertRow(s, kind, max, e)
    /\ UNCHANGED served
Counts(s) == IncrementDownloads(s) /\ UNCHANGED <<kindOf, ceiling>>
Removes(S) ==
    /\ row' = [s \in Shares |-> IF s \in S THEN NoRow ELSE row[s]]
    /\ UNCHANGED <<kindOf, served, ceiling>>

TableStep ==
    \/ \E s \in Shares : Inserts(s) \/ Counts(s)
    \/ \E S \in SUBSET Shares : Removes(S)

NobodyEdits == \A p \in Requests : req[p].pc # "editing"

LEMMA StandsStill ==
    ASSUME TypeOK, UNCHANGED <<row, kindOf, served, ceiling>>
    PROVE  TableStep
<1>1. Removes({})
  BY DEF TypeOK, Removes
<1> QED
  BY <1>1 DEF TableStep

LEMMA RemovesOne ==
    ASSUME TypeOK, NEW s \in Shares, RemoveRow(s), UNCHANGED <<kindOf, served, ceiling>>
    PROVE  TableStep
<1>1. Removes({s})
  BY DEF TypeOK, RemoveRow, Removes
<1> QED
  BY <1>1 DEF TableStep

LEMMA HandlersMoveTheTable ==
    ASSUME ~AllowEdits, TypeOK, BudgetInv, NobodyEdits, NEW p \in Requests, Handle(p)
    PROVE  TableStep /\ NobodyEdits' /\ UNCHANGED overwritten
<1>1. CASE SaveShare(p)
  <2>1. PICK max \in Limits, e \in Expiries : InsertRow(req[p].share, "file", max, e)
    BY <1>1 DEF SaveShare
  <2>2. req[p].share \in Shares /\ e \in Nat /\ kindOf[req[p].share] = "none"
    BY <1>1, ExpiriesType DEF SaveShare, TypeOK, BudgetInv, RequestInv
  <2>3. Inserts(req[p].share)
    BY <1>1, <2>1, <2>2 DEF SaveShare, Inserts
  <2> QED
    BY <1>1, <2>2, <2>3 DEF SaveShare, Finish, TableStep, NobodyEdits, TypeOK
<1>2. ASSUME NEW s \in Shares, ShareFolder(p, s)
      PROVE  TableStep /\ NobodyEdits' /\ UNCHANGED overwritten
  <2>1. PICK max \in Limits, h \in TTLs : InsertRow(s, "folder", max, now + FolderHours(h))
    BY <1>2 DEF ShareFolder
  <2>2. now + FolderHours(h) \in Nat
    BY ShareConstants DEF TypeOK, FolderHours
  <2>3. Inserts(s)
    BY <1>2, <2>1, <2>2 DEF ShareFolder, Fresh, Inserts
  <2> QED
    BY <1>2, <2>3 DEF ShareFolder, Start, TableStep, NobodyEdits, TypeOK
<1>3. CASE CountDownload(p)
  <2>1. req[p].share \in Shares /\ Counts(req[p].share)
    BY <1>3 DEF CountDownload, Counts, TypeOK
  <2> QED
    BY <1>3, <2>1 DEF CountDownload, Goto, Finish, TableStep, NobodyEdits, TypeOK
<1>4. CASE DeleteLookup(p) \/ DeleteRow(p)
  <2>1. req[p].share \in Shares /\ UNCHANGED <<kindOf, served, ceiling, overwritten>>
    BY <1>4 DEF DeleteLookup, DeleteRow, TypeOK, stored, history
  <2>2. row' = row \/ RemoveRow(req[p].share)
    BY <1>4 DEF DeleteLookup, DeleteRow, stored
  <2>3. NobodyEdits'
    BY <1>4 DEF DeleteLookup, DeleteRow, Goto, Finish, NobodyEdits, TypeOK
  <2> QED
    BY <2>1, <2>2, <2>3, StandsStill, RemovesOne
<1>5. ASSUME NEW s \in Shares, CreateFile(p, s) \/ BeginDownload(p, s) \/ BeginDelete(p, s)
      PROVE  TableStep /\ NobodyEdits' /\ UNCHANGED overwritten
  <2>1. UNCHANGED <<row, kindOf, served, ceiling, overwritten>>
    BY <1>5 DEF CreateFile, BeginDownload, BeginDelete
  <2>2. \E pc \in PCs \ {"editing"} : Start(p, s, pc, NoRow)
    BY <1>5 DEF CreateFile, BeginDownload, BeginDelete
  <2>3. NobodyEdits'
    BY <2>2 DEF Start, NobodyEdits, TypeOK
  <2> QED
    BY <2>1, <2>3, StandsStill
<1>6. CASE \/ AbandonUpload(p) \/ SaveFolderContents(p) \/ OpenFile(p) \/ ServeRange(p)
           \/ RefuseDownload(p) \/ NotifyDownload(p) \/ DeleteFile(p) \/ DeleteRowFails(p)
  <2>1. UNCHANGED <<row, kindOf, served, ceiling, overwritten>>
    BY <1>6 DEF AbandonUpload, SaveFolderContents, OpenFile, ServeRange, RefuseDownload,
       NotifyDownload, DeleteFile, DeleteRowFails
  <2>2. NobodyEdits'
    BY <1>6 DEF AbandonUpload, SaveFolderContents, OpenFile, ServeRange, RefuseDownload,
       NotifyDownload, DeleteFile, DeleteRowFails, Goto, Finish, NobodyEdits, TypeOK
  <2> QED
    BY <2>1, <2>2, StandsStill
<1>7. ~SaveEdit(p) /\ \A s \in Shares : ~BeginEdit(p, s)
  BY DEF SaveEdit, BeginEdit, NobodyEdits
<1> QED
  BY <1>1, <1>2, <1>3, <1>4, <1>5, <1>6, <1>7 DEF Handle

LEMMA StepsMoveTheTable ==
    ASSUME ~AllowEdits, TypeOK, BudgetInv, NobodyEdits, [Next]_vars
    PROVE  TableStep /\ NobodyEdits' /\ UNCHANGED overwritten
<1>1. CASE \E p \in Requests : Handle(p)
  BY <1>1, HandlersMoveTheTable
<1>2. CASE SweepDeleteRows
  <2>1. Reaped \in SUBSET Shares /\ Removes(Reaped)
    BY <1>2 DEF SweepDeleteRows, Reaped, Removes, TypeOK
  <2> QED
    BY <1>2, <2>1 DEF SweepDeleteRows, TableStep, NobodyEdits
<1>3. CASE Restart
  BY <1>3, StandsStill DEF Restart, NobodyEdits
<1>4. CASE SweepSelect \/ (\E s \in Shares : SweepUnlink(s) \/ SweepNotify(s))
           \/ SweepDeleteFails \/ Tick \/ UNCHANGED vars
  <2>1. UNCHANGED <<row, kindOf, served, ceiling, overwritten, req>>
    BY <1>4 DEF SweepSelect, SweepUnlink, SweepNotify, SweepDeleteFails, Tick, vars
  <2> QED
    BY <2>1, StandsStill DEF NobodyEdits
<1> QED
  BY <1>1, <1>2, <1>3, <1>4 DEF Next, Sweep

\* Without edits a row's limit is the one it was inserted with, a row that is gone
\* stays gone, and the sweep announces only such rows.
Closed(s) == kindOf[s] # "none" /\ ~Exists(s)
PlainInv ==
    /\ NobodyEdits
    /\ overwritten = {}
    /\ \A s \in Shares : Exists(s) => ceiling[s] = row[s].max
    /\ \A s \in expireAnnounced : Closed(s)
    /\ sweep.pc = "announcing" => \A s \in sweep.done : Closed(s)

LEMMA ClosedForGood ==
    ASSUME TypeOK, TableStep, NEW s \in Shares, Closed(s)
    PROVE  Closed(s)'
<1>1. ASSUME NEW t \in Shares, Inserts(t) PROVE Closed(s)'
  BY <1>1 DEF Inserts, InsertRow, Closed, Exists, TypeOK
<1>2. ASSUME NEW t \in Shares, Counts(t) PROVE Closed(s)'
  BY <1>2 DEF Counts, IncrementDownloads, Countable, Closed, Exists, TypeOK
<1>3. ASSUME NEW S \in SUBSET Shares, Removes(S) PROVE Closed(s)'
  BY <1>3 DEF Removes, Closed, Exists, TypeOK
<1> QED
  BY <1>1, <1>2, <1>3 DEF TableStep

LEMMA CeilingKept ==
    ASSUME TypeOK, TableStep, \A s \in Shares : Exists(s) => ceiling[s] = row[s].max
    PROVE  (\A s \in Shares : Exists(s) => ceiling[s] = row[s].max)'
<1>1. ASSUME NEW t \in Shares, Inserts(t)
      PROVE  (\A s \in Shares : Exists(s) => ceiling[s] = row[s].max)'
  BY <1>1 DEF Inserts, InsertRow, Exists, TypeOK
<1>2. ASSUME NEW t \in Shares, Counts(t)
      PROVE  (\A s \in Shares : Exists(s) => ceiling[s] = row[s].max)'
  BY <1>2 DEF Counts, IncrementDownloads, Countable, Exists, TypeOK
<1>3. ASSUME NEW S \in SUBSET Shares, Removes(S)
      PROVE  (\A s \in Shares : Exists(s) => ceiling[s] = row[s].max)'
  BY <1>3 DEF Removes, Exists, TypeOK
<1> QED
  BY <1>1, <1>2, <1>3 DEF TableStep

LEMMA PlainStep ==
    ASSUME ~AllowEdits, TypeOK, BudgetInv, SweepInv, PlainInv, [Next]_vars
    PROVE  PlainInv' /\ TableStep
<1>1. TableStep /\ NobodyEdits' /\ UNCHANGED overwritten
  BY StepsMoveTheTable DEF PlainInv
<1>2. (\A s \in Shares : Exists(s) => ceiling[s] = row[s].max)'
  BY <1>1, CeilingKept DEF PlainInv
<1>3. \A s \in expireAnnounced' :
          s \in expireAnnounced \/ (sweep.pc = "announcing" /\ s \in sweep.done)
  <2>1. CASE \E p \in Requests : Handle(p)
    BY <2>1, HandlersKeepOldShares
  <2>2. CASE \E s \in Shares : SweepNotify(s)
    BY <2>2 DEF SweepNotify
  <2>3. CASE \/ SweepSelect \/ SweepDeleteFails \/ Restart \/ SweepDeleteRows \/ Tick
             \/ UNCHANGED vars \/ (\E s \in Shares : SweepUnlink(s))
    BY <2>3 DEF SweepSelect, SweepDeleteFails, Restart, SweepDeleteRows, Tick, vars, SweepUnlink
  <2> QED
    BY <2>1, <2>2, <2>3 DEF Next, Sweep
<1>7. sweep'.pc = "announcing" =>
         SweepDeleteRows \/ (sweep.pc = "announcing" /\ sweep'.done \subseteq sweep.done)
  <2>1. CASE \E p \in Requests : Handle(p)
    BY <2>1, HandlersKeepOldShares
  <2>2. CASE SweepSelect \/ SweepDeleteFails \/ Restart
    BY <2>2 DEF SweepSelect, SweepDeleteFails, Restart
  <2>3. ASSUME NEW s \in Shares, SweepUnlink(s) PROVE sweep'.pc = "unlinking"
    BY <2>3 DEF SweepUnlink, TypeOK
  <2>4. ASSUME NEW s \in Shares, SweepNotify(s)
        PROVE  sweep.pc = "announcing" /\ sweep'.done \subseteq sweep.done
    <3>1. CASE sweep.done = {s}
      BY <2>4, <3>1 DEF SweepNotify
    <3>2. CASE sweep.done # {s}
      BY <2>4, <3>2 DEF SweepNotify, TypeOK
    <3> QED
      BY <3>1, <3>2
  <2>5. CASE Tick \/ UNCHANGED vars
    BY <2>5 DEF Tick, vars
  <2> QED
    BY <2>1, <2>2, <2>3, <2>4, <2>5 DEF Next, Sweep
<1>4. \A s \in Shares : Closed(s) => Closed(s)'
  BY <1>1, ClosedForGood
<1>5. \A s \in expireAnnounced' : Closed(s)'
  BY <1>3, <1>4 DEF PlainInv, TypeOK
<1>6. ASSUME sweep'.pc = "announcing", NEW s \in sweep'.done PROVE Closed(s)'
  <2>1. CASE SweepDeleteRows
    BY <1>6, <2>1 DEF SweepDeleteRows, Reaped, SweepInv, Closed, Exists, TypeOK
  <2>2. CASE sweep.pc = "announcing" /\ sweep'.done \subseteq sweep.done
    BY <1>4, <1>6, <2>2 DEF PlainInv, TypeOK
  <2> QED
    BY <1>6, <1>7, <2>1, <2>2
<1> QED
  BY <1>1, <1>2, <1>5, <1>6 DEF PlainInv

LEMMA PlainInitially == Init => PlainInv
  BY DEF Init, PlainInv, NobodyEdits, Exists

\* The invariant of the shares that nobody edits
PlainShares == TypeOK /\ BudgetInv /\ SweepInv /\ PlainInv

LEMMA PlainSharesInvariant ==
    /\ Init => PlainShares
    /\ ~AllowEdits /\ PlainShares /\ [Next]_vars => PlainShares' /\ TableStep
<1>1. Init => PlainShares
  BY TypeInit, BudgetInit, SweepInitially, PlainInitially DEF PlainShares
<1>2. ~AllowEdits /\ PlainShares /\ [Next]_vars => PlainShares' /\ TableStep
  BY TypeStep, BudgetStep, SweepStep, PlainStep DEF PlainShares
<1> QED
  BY <1>1, <1>2

\* The expire webhook is sent only for shares that are gone for good, as long as
\* nobody edits: an edit in flight can insert the row again.
THEOREM NoticeIsTrue == ~AllowEdits => (Spec => []ExpireAnnouncedIsGone)
<1> SUFFICES ASSUME ~AllowEdits PROVE Spec => []ExpireAnnouncedIsGone
  OBVIOUS
<1>1. Init => PlainShares
  BY PlainSharesInvariant
<1>2. PlainShares /\ [Next]_vars => PlainShares'
  BY PlainSharesInvariant
<1>3. PlainShares => ExpireAnnouncedIsGone
  BY DEF PlainShares, PlainInv, Closed, ExpireAnnouncedIsGone
<1> QED
  BY <1>1, <1>2, <1>3, PTL DEF Spec

-----------------------------------------------------------------------------
(* The refinement of DownloadBudget *)

StatusOf(s) == IF kindOf[s] = "none" THEN "new" ELSE IF row[s].exists THEN "open" ELSE "closed"
Status == [s \in Shares |-> StatusOf(s)]

LEMMA OpensOne ==
    ASSUME PlainShares, NEW s \in Shares, Inserts(s)
    PROVE  \E max \in Limits : Budget!Open(s, max)
<1>1. PICK kind \in {"file", "folder"}, max \in Limits, e \in Nat :
          InsertRow(s, kind, max, e)
    BY DEF Inserts
<1>2. \A t \in Shares : t # s => row'[t] = row[t] /\ kindOf'[t] = kindOf[t]
  BY <1>1 DEF InsertRow, PlainShares, TypeOK
<1>3. row'[s].exists /\ kindOf'[s] # "none" /\ kindOf[s] = "none" /\ UNCHANGED served
  BY <1>1 DEF InsertRow, Inserts, PlainShares, TypeOK
<1>4. Budget!Open(s, max)
  BY <1>1, <1>2, <1>3 DEF Budget!Open, InsertRow
<1> QED
  BY <1>4

LEMMA GrantsOne ==
    ASSUME PlainShares, NEW s \in Shares, Counts(s)
    PROVE  Budget!Grant(s)
<1>1. /\ row[s].exists /\ kindOf[s] # "none"
      /\ row[s].max = ceiling[s] /\ row[s].downloads = served[s]
  BY DEF Counts, IncrementDownloads, Countable, PlainShares, PlainInv, BudgetInv, ShareInv, Exists
<1>2. ceiling[s] = 0 \/ served[s] < ceiling[s]
  BY <1>1 DEF Counts, IncrementDownloads, Countable
<1>3. \A t \in Shares : row'[t].exists = row[t].exists
  BY DEF Counts, IncrementDownloads, PlainShares, TypeOK
<1>4. UNCHANGED <<kindOf, ceiling>> /\ served' = [served EXCEPT ![s] = @ + 1]
  BY DEF Counts, IncrementDownloads
<1> QED
  BY <1>1, <1>2, <1>3, <1>4 DEF Budget!Grant

LEMMA ClosesSome ==
    ASSUME PlainShares, NEW S \in SUBSET Shares, Removes(S)
    PROVE  (\E T \in SUBSET Shares : Budget!Close(T)) \/ UNCHANGED <<Status, ceiling, served>>
<1>0. PICK T \in SUBSET Shares : T = {s \in S : row[s].exists}
  OBVIOUS
<1>1. \A s \in Shares : row[s].exists => kindOf[s] # "none"
  BY DEF PlainShares, BudgetInv, ShareInv
<1>2. \A s \in Shares : row'[s].exists = (row[s].exists /\ s \notin T)
  BY <1>0 DEF Removes, PlainShares, TypeOK
<1>3. UNCHANGED <<kindOf, ceiling, served>>
  BY DEF Removes
<1>4. CASE T = {}
  BY <1>2, <1>3, <1>4 DEF Status, StatusOf
<1>5. CASE T # {}
  <2>1. \A s \in T : kindOf[s] # "none" /\ row[s].exists /\ s \in Shares
    BY <1>0, <1>1
  <2>2. Budget!Close(T)
    BY <1>2, <1>3, <1>5, <2>1 DEF Budget!Close
  <2> QED
    BY <2>2
<1> QED
  BY <1>4, <1>5

\* Nobody edits: then a share with all its handlers, sweeps and crashes is nothing
\* but a budget of downloads that opens once, is granted from and closes for good.
THEOREM SharesAreBudgets == ~AllowEdits => (Spec => BudgetRefined)
<1> SUFFICES ASSUME ~AllowEdits PROVE Spec => BudgetRefined
  OBVIOUS
<1>1. Init => PlainShares /\ Budget!BudgetInit
  BY PlainSharesInvariant DEF Init, Budget!BudgetInit
<1>2. PlainShares /\ [Next]_vars => PlainShares'
  BY PlainSharesInvariant
<1>3. PlainShares /\ [Next]_vars => [Budget!BudgetNext]_(Budget!budgetVars)
  <2> SUFFICES ASSUME PlainShares, [Next]_vars
               PROVE  Budget!BudgetNext \/ UNCHANGED <<Status, ceiling, served>>
    BY DEF Budget!budgetVars, Status, StatusOf
  <2>1. TableStep
    BY PlainSharesInvariant
  <2>2. ASSUME NEW s \in Shares, Inserts(s) PROVE Budget!BudgetNext
    BY <2>2, OpensOne DEF Budget!BudgetNext
  <2>3. ASSUME NEW s \in Shares, Counts(s) PROVE Budget!BudgetNext
    BY <2>3, GrantsOne DEF Budget!BudgetNext
  <2>4. ASSUME NEW S \in SUBSET Shares, Removes(S)
        PROVE  Budget!BudgetNext \/ UNCHANGED <<Status, ceiling, served>>
    BY <2>4, ClosesSome DEF Budget!BudgetNext
  <2> QED
    BY <2>1, <2>2, <2>3, <2>4 DEF TableStep
<1> QED
  BY <1>1, <1>2, <1>3, PTL DEF Spec, BudgetRefined, Budget!BudgetSpec

-----------------------------------------------------------------------------
(* File shares, no edits, no faults: what a visitor sees can be served, and *)
(* a limit that is reached is reported.                                    *)

StrictUse == ~AllowEdits /\ Kinds = {"file"} /\ MaxFaults = 0

\* The sweep holds only rows that have expired, an upload has its file in place
FileInv ==
    /\ \A s \in Shares : kindOf[s] # "folder"
    /\ \A s \in sweep.todo \union sweep.done : Exists(s) => row[s].expiresAt <= now
    /\ \A p \in Requests : req[p].pc = "storing" => req[p].share \in files
    /\ LiveShareHasFile

\* Without edits the expiry of a row is the one it was inserted with.
LEMMA ExpiryKept ==
    ASSUME TypeOK, TableStep, NEW s \in Shares, kindOf[s] # "none", Exists(s)'
    PROVE  Exists(s) /\ row'[s].expiresAt = row[s].expiresAt
<1>1. ASSUME NEW t \in Shares, Inserts(t)
      PROVE  Exists(s) /\ row'[s].expiresAt = row[s].expiresAt
  BY <1>1 DEF Inserts, InsertRow, Exists, TypeOK
<1>2. ASSUME NEW t \in Shares, Counts(t)
      PROVE  Exists(s) /\ row'[s].expiresAt = row[s].expiresAt
  BY <1>2 DEF Counts, IncrementDownloads, Countable, Exists, TypeOK
<1>3. ASSUME NEW S \in SUBSET Shares, Removes(S)
      PROVE  Exists(s) /\ row'[s].expiresAt = row[s].expiresAt
  BY <1>3 DEF Removes, Exists, TypeOK
<1> QED
  BY <1>1, <1>2, <1>3 DEF TableStep

\* A request that leaves the files alone and starts no upload
ReadsFiles(p) ==
    /\ UNCHANGED <<files, now, sweep>>
    /\ req[p].pc # "dropping"
    /\ req'[p].pc # "storing"
    /\ \A q \in Requests : q # p => req'[q] = req[q]

LEMMA HandlersNeverDropFiles ==
    ASSUME StrictUse, PlainShares, PlainShares', TableStep, FileInv,
           NEW p \in Requests, Handle(p)
    PROVE  FileInv'
<1> USE DEF StrictUse
<1>0. /\ \A s \in Shares : kindOf[s] # "none" => kindOf'[s] = kindOf[s]
      /\ sweep' = sweep
  BY HandlersKeepOldShares DEF PlainShares, OldSharesKept
<1>1. ASSUME NEW s \in Shares, kindOf[s] # "none", Visible(s)', now' = now
      PROVE  Visible(s) /\ kindOf'[s] = kindOf[s]
  BY <1>0, <1>1, ExpiryKept DEF Visible, PlainShares, Exists
<1>2. \A s \in sweep'.todo \union sweep'.done : kindOf[s] # "none" /\ s \in Shares
  BY <1>0 DEF PlainShares, SweepInv, TypeOK
<1>3. now' = now => \A s \in sweep'.todo \union sweep'.done :
                        Exists(s)' => row'[s].expiresAt <= now'
  BY <1>0, <1>2, ExpiryKept DEF FileInv, PlainShares
<1>4. ASSUME ReadsFiles(p), UNCHANGED kindOf PROVE FileInv'
  <2>1. \A q \in Requests : req'[q].pc = "storing" => req'[q].share \in files'
    BY <1>4 DEF ReadsFiles, FileInv
  <2>2. ASSUME NEW s \in Shares, Visible(s)', kindOf'[s] = "file"
        PROVE  s \in files' \/ \E q \in Requests : req'[q].share = s /\ req'[q].pc = "dropping"
    <3>1. Visible(s) /\ kindOf[s] = "file"
      BY <1>1, <1>4, <2>2 DEF ReadsFiles
    <3>2. s \in files \/ \E q \in Requests : req[q].share = s /\ req[q].pc = "dropping"
      BY <3>1 DEF FileInv, LiveShareHasFile
    <3> QED
      BY <1>4, <3>2 DEF ReadsFiles
  <2>3. LiveShareHasFile'
    BY <2>2 DEF LiveShareHasFile
  <2>4. now' = now /\ kindOf' = kindOf
    BY <1>4 DEF ReadsFiles
  <2> QED
    BY <1>3, <2>1, <2>3, <2>4 DEF FileInv
<1>5. ASSUME NEW s \in Shares, CreateFile(p, s) PROVE FileInv'
  <2>1. /\ files' = files \union {s} /\ UNCHANGED <<row, kindOf, now>>
        /\ req' = [req EXCEPT ![p] = [pc |-> "storing", share |-> s, snap |-> NoRow]]
        /\ req[p].pc = "idle"
    BY <1>5 DEF CreateFile, Start
  <2>2. \A q \in Requests : req'[q].pc = "storing" => req'[q].share \in files'
    BY <2>1 DEF FileInv, PlainShares, TypeOK
  <2>3. \A q \in Requests : req[q].pc = "dropping" => req'[q] = req[q]
    BY <2>1 DEF PlainShares, TypeOK
  <2>4. LiveShareHasFile'
    BY <2>1, <2>3 DEF FileInv, LiveShareHasFile, Visible, Exists
  <2> QED
    BY <1>3, <2>1, <2>2, <2>4 DEF FileInv
<1>6. CASE SaveShare(p)
  <2> DEFINE s == req[p].share
  <2>1. /\ s \in Shares /\ s \in files /\ req[p].pc = "storing" /\ kindOf[s] = "none"
        /\ UNCHANGED <<files, now>> /\ req' = [req EXCEPT ![p] = Idle]
    BY <1>6 DEF SaveShare, Finish, FileInv, PlainShares, TypeOK, BudgetInv, RequestInv
  <2>2. \A t \in Shares : kindOf'[t] # "folder" /\ (t # s => kindOf'[t] = kindOf[t])
    BY <1>6, <2>1 DEF SaveShare, InsertRow, FileInv, PlainShares, TypeOK
  <2>3. \A q \in Requests : q # p => req'[q] = req[q]
    BY <2>1 DEF PlainShares, TypeOK
  <2>4. req'[p].pc = "idle"
    BY <2>1 DEF PlainShares, TypeOK
  <2>5. \A q \in Requests : req'[q].pc = "storing" => req'[q].share \in files'
    BY <2>1, <2>3, <2>4 DEF FileInv
  <2>6. ASSUME NEW t \in Shares, Visible(t)', kindOf'[t] = "file"
        PROVE  t \in files' \/ \E q \in Requests : req'[q].share = t /\ req'[q].pc = "dropping"
    <3>1. CASE t = s
      BY <2>1, <3>1
    <3>2. CASE t # s
      <4>1. Visible(t) /\ kindOf[t] = "file"
        BY <1>1, <2>1, <2>2, <2>6, <3>2
      <4>2. t \in files \/ \E q \in Requests : req[q].share = t /\ req[q].pc = "dropping"
        BY <4>1 DEF FileInv, LiveShareHasFile
      <4> QED
        BY <2>1, <2>3, <4>2
    <3> QED
      BY <3>1, <3>2
  <2>7. LiveShareHasFile'
    BY <2>6 DEF LiveShareHasFile
  <2> QED
    BY <1>3, <2>1, <2>2, <2>5, <2>7 DEF FileInv
<1>7. CASE AbandonUpload(p)
  <2> DEFINE s == req[p].share
  <2>1. /\ s \in Shares /\ req[p].pc = "storing" /\ kindOf[s] = "none"
        /\ \A q \in Requests : q # p => req[q].share # s
        /\ files' = files \ {s} /\ UNCHANGED <<row, kindOf, now>>
        /\ req' = [req EXCEPT ![p] = Idle]
    BY <1>7 DEF AbandonUpload, Finish, PlainShares, TypeOK, BudgetInv, RequestInv
  <2>2. /\ \A q \in Requests : q # p => req'[q] = req[q]
        /\ req'[p].pc = "idle"
    BY <2>1 DEF PlainShares, TypeOK
  <2>3. \A q \in Requests : req'[q].pc = "storing" => req'[q].share \in files'
    BY <2>1, <2>2 DEF FileInv
  <2>4. LiveShareHasFile'
    BY <2>1, <2>2 DEF FileInv, LiveShareHasFile, Visible, Exists
  <2> QED
    BY <1>3, <2>1, <2>3, <2>4 DEF FileInv
<1>8. CASE DeleteFile(p)
  <2> DEFINE s == req[p].share
  <2>1. /\ req[p].pc = "unlinking" /\ s \in Shares
        /\ files' = files \ {s} /\ UNCHANGED <<row, kindOf, now>>
        /\ req' = [req EXCEPT ![p].pc = "dropping"]
    BY <1>8 DEF DeleteFile, Goto, PlainShares, TypeOK
  <2>2. /\ \A q \in Requests : q # p => req'[q] = req[q]
        /\ req'[p].pc = "dropping" /\ req'[p].share = s
    BY <2>1 DEF PlainShares, TypeOK
  <2>3. \A q \in Requests : req[q].pc = "storing" => req[q].share # s
    BY <2>1 DEF PlainShares, BudgetInv, RequestInv
  <2>4. \A q \in Requests : req'[q].pc = "storing" => req'[q].share \in files'
    BY <2>1, <2>2, <2>3 DEF FileInv
  <2>5. LiveShareHasFile'
    BY <2>1, <2>2 DEF FileInv, LiveShareHasFile, Visible, Exists
  <2> QED
    BY <1>3, <2>1, <2>4, <2>5 DEF FileInv
<1>9. CASE DeleteRow(p)
  <2> DEFINE s == req[p].share
  <2>1. /\ req[p].pc = "dropping" /\ s \in Shares
        /\ row' = [row EXCEPT ![s] = NoRow] /\ UNCHANGED <<files, kindOf, now>>
        /\ req' = [req EXCEPT ![p] = Idle]
    BY <1>9 DEF DeleteRow, RemoveRow, Finish, PlainShares, TypeOK
  <2>2. /\ \A q \in Requests : q # p => req'[q] = req[q]
        /\ req'[p].pc = "idle"
        /\ ~row'[s].exists /\ \A t \in Shares : t # s => row'[t] = row[t]
    BY <2>1 DEF PlainShares, TypeOK
  <2>3. \A q \in Requests : req'[q].pc = "storing" => req'[q].share \in files'
    BY <2>1, <2>2 DEF FileInv
  <2>4. LiveShareHasFile'
    BY <2>1, <2>2 DEF FileInv, LiveShareHasFile, Visible, Exists
  <2> QED
    BY <1>3, <2>1, <2>3, <2>4 DEF FileInv
<1>10. /\ ~DeleteRowFails(p) /\ ~SaveEdit(p)
       /\ \A s \in Shares : ~ShareFolder(p, s) /\ ~BeginEdit(p, s)
  <2>1. ~DeleteRowFails(p)
    BY DEF DeleteRowFails, PlainShares, TypeOK
  <2>2. ~SaveEdit(p)
    BY DEF SaveEdit, PlainShares, PlainInv, NobodyEdits
  <2>3. \A s \in Shares : ~ShareFolder(p, s) /\ ~BeginEdit(p, s)
    BY DEF ShareFolder, BeginEdit
  <2> QED
    BY <2>1, <2>2, <2>3
<1>11. ASSUME NEW s \in Shares, BeginDownload(p, s) \/ BeginDelete(p, s) PROVE FileInv'
  <2>1. \E pc \in PCs \ {"storing"} : Start(p, s, pc, NoRow)
    BY <1>11 DEF BeginDownload, BeginDelete
  <2>2. UNCHANGED <<files, now, sweep, kindOf>>
    BY <1>11 DEF BeginDownload, BeginDelete
  <2>3. ReadsFiles(p)
    BY <2>1, <2>2 DEF ReadsFiles, Start, PlainShares, TypeOK
  <2> QED
    BY <1>4, <2>2, <2>3
<1>12. CASE \/ SaveFolderContents(p) \/ OpenFile(p) \/ ServeRange(p) \/ CountDownload(p)
            \/ RefuseDownload(p) \/ NotifyDownload(p) \/ DeleteLookup(p)
  <2>1. Finish(p) \/ \E pc \in PCs \ {"storing"} : Goto(p, pc)
    BY <1>12 DEF SaveFolderContents, OpenFile, ServeRange, CountDownload, RefuseDownload,
       NotifyDownload, DeleteLookup
  <2>2. UNCHANGED <<files, now, sweep, kindOf>> /\ req[p].pc # "dropping"
    BY <1>12 DEF SaveFolderContents, OpenFile, ServeRange, CountDownload, RefuseDownload,
       NotifyDownload, DeleteLookup
  <2>3. ReadsFiles(p)
    BY <2>1, <2>2 DEF ReadsFiles, Goto, Finish, PlainShares, TypeOK
  <2> QED
    BY <1>4, <2>2, <2>3
<1> QED
  BY <1>5, <1>6, <1>7, <1>8, <1>9, <1>10, <1>11, <1>12 DEF Handle

LEMMA FileStep ==
    ASSUME StrictUse, PlainShares, FileInv, [Next]_vars
    PROVE  FileInv'
<1>0. PlainShares' /\ TableStep
  BY PlainSharesInvariant DEF StrictUse
<1>1. CASE \E p \in Requests : Handle(p)
  BY <1>0, <1>1, HandlersNeverDropFiles
<1>2. CASE SweepSelect
  <2>1. \A s \in sweep'.todo \union sweep'.done : row[s].expiresAt <= now
    BY <1>2 DEF SweepSelect, Expired
  <2> QED
    BY <1>2, <2>1 DEF SweepSelect, FileInv, LiveShareHasFile, Visible, Exists
<1>3. ASSUME NEW s \in Shares, SweepUnlink(s) PROVE FileInv'
  <2>1. /\ sweep'.todo \union sweep'.done = sweep.todo \union sweep.done
        /\ UNCHANGED <<row, kindOf, now, req>> /\ s \in sweep.todo
        /\ files' = files \ {s}
    BY <1>3 DEF SweepUnlink, FileInv, PlainShares, TypeOK
  <2>2. ~Visible(s) /\ kindOf[s] # "none"
    BY <2>1 DEF FileInv, PlainShares, SweepInv, Visible, TypeOK
  <2>3. \A p \in Requests : req[p].pc = "storing" => req[p].share # s
    BY <2>2 DEF PlainShares, BudgetInv, RequestInv
  <2> QED
    BY <2>1, <2>2, <2>3 DEF FileInv, LiveShareHasFile, Visible, Exists
<1>4. ASSUME NEW s \in Shares, SweepNotify(s) PROVE FileInv'
  <2>1. sweep'.todo \union sweep'.done \subseteq sweep.todo \union sweep.done
    <3>1. CASE sweep.done = {s}
      BY <1>4, <3>1 DEF SweepNotify
    <3>2. CASE sweep.done # {s}
      BY <1>4, <3>2 DEF SweepNotify, PlainShares, TypeOK
    <3> QED
      BY <3>1, <3>2
  <2> QED
    BY <1>4, <2>1 DEF SweepNotify, FileInv, LiveShareHasFile, Visible, Exists
<1>5. CASE SweepDeleteRows
  <2>1. \A s \in Shares : row'[s] = row[s] \/ ~row'[s].exists
    BY <1>5 DEF SweepDeleteRows
  <2>2. sweep'.todo = sweep.todo /\ sweep'.done = sweep.done
    BY <1>5 DEF SweepDeleteRows, PlainShares, TypeOK
  <2>3. sweep.todo \union sweep.done \subseteq Shares
    BY DEF PlainShares, TypeOK
  <2>4. UNCHANGED <<kindOf, files, now, req>>
    BY <1>5 DEF SweepDeleteRows
  <2> QED
    BY <2>1, <2>2, <2>3, <2>4 DEF FileInv, LiveShareHasFile, Visible, Exists
<1>6. CASE Tick
  <2>1. now' = now + 1 /\ now \in Nat /\ UNCHANGED <<row, kindOf, files, req, sweep>>
    BY <1>6 DEF Tick, PlainShares, TypeOK
  <2>2. \A s \in Shares : row[s].expiresAt \in Nat
    BY DEF PlainShares, TypeOK
  <2>3. sweep.todo \union sweep.done \subseteq Shares
    BY DEF PlainShares, TypeOK
  <2>4. \A s \in sweep'.todo \union sweep'.done : Exists(s)' => row'[s].expiresAt <= now'
    BY <2>1, <2>2, <2>3 DEF FileInv, Exists
  <2>5. \A s \in Shares : Visible(s)' => Visible(s)
    BY <2>1, <2>2 DEF Visible, Exists
  <2>6. LiveShareHasFile'
    BY <2>1, <2>5 DEF FileInv, LiveShareHasFile
  <2> QED
    BY <2>1, <2>4, <2>6 DEF FileInv
<1>7. ~SweepDeleteFails /\ ~Restart
  BY DEF SweepDeleteFails, Restart, StrictUse, PlainShares, TypeOK
<1>8. CASE UNCHANGED vars
  BY <1>8 DEF vars, FileInv, LiveShareHasFile, Visible, Exists
<1> QED
  BY <1>1, <1>2, <1>3, <1>4, <1>5, <1>6, <1>7, <1>8 DEF Next, Sweep

\* A file share that a visitor can see has its file, except while its owner's delete
\* is between the file and the row: for any number of shares, requests and limits,
\* where there are no folder shares, edits and faults.
THEOREM VisibleIsServed == StrictUse => (Spec => []LiveShareHasFile)
<1> SUFFICES ASSUME StrictUse PROVE Spec => []LiveShareHasFile
  OBVIOUS
<1> DEFINE Inv == PlainShares /\ FileInv
<1>1. Init => Inv
  BY PlainSharesInvariant DEF Init, FileInv, LiveShareHasFile, Visible, Exists
<1>2. Inv /\ [Next]_vars => Inv'
  BY PlainSharesInvariant, FileStep DEF StrictUse
<1>3. Inv => LiveShareHasFile
  BY DEF FileInv
<1> QED
  BY <1>1, <1>2, <1>3, PTL DEF Spec

\* An archive is served of a folder share only, which nothing reports
LimitInv ==
    /\ \A p \in Requests : req[p].pc = "zipping" => kindOf[req[p].share] = "folder"
    /\ LimitReachedIsAnnounced

\* A request other than a counted download, that leaves counters and clock alone
ReportsNothing(p) ==
    /\ req[p].pc # "counted"
    /\ UNCHANGED <<now, limitAnnounced>>
    /\ \A s \in Shares : row'[s] = row[s] \/ ~row'[s].exists
    /\ \A q \in Requests : q # p => req'[q] = req[q]

LEMMA HandlersReport ==
    ASSUME ~AllowEdits, MaxFaults = 0, PlainShares, PlainShares', LimitInv,
           NEW p \in Requests, Handle(p)
    PROVE  LimitReachedIsAnnounced'
<1>1. ASSUME ReportsNothing(p), UNCHANGED kindOf PROVE LimitReachedIsAnnounced'
  <2> SUFFICES ASSUME NEW s \in Shares, Visible(s)', kindOf'[s] = "file",
                      LimitReached(row'[s]),
                      \A q \in Requests : req'[q].share = s => req'[q].pc # "counted"
               PROVE  s \in limitAnnounced'
    BY DEF LimitReachedIsAnnounced
  <2>1. row'[s] = row[s] /\ Visible(s) /\ kindOf[s] = "file" /\ LimitReached(row[s])
    BY <1>1 DEF ReportsNothing, Visible, Exists
  <2>2. \A q \in Requests : req[q].share = s => req[q].pc # "counted"
    BY <1>1 DEF ReportsNothing
  <2> QED
    BY <1>1, <2>1, <2>2 DEF ReportsNothing, LimitInv, LimitReachedIsAnnounced
<1>2. ASSUME NEW s \in Shares, NEW kind \in {"file", "folder"}, NEW max \in Limits,
             NEW e \in Nat, InsertRow(s, kind, max, e), req[p].pc # "counted",
             UNCHANGED <<now, limitAnnounced>>,
             \A q \in Requests : q # p => req'[q] = req[q]
      PROVE  LimitReachedIsAnnounced'
  <2> SUFFICES ASSUME NEW t \in Shares, Visible(t)', kindOf'[t] = "file",
                      LimitReached(row'[t]),
                      \A q \in Requests : req'[q].share = t => req'[q].pc # "counted"
               PROVE  t \in limitAnnounced'
    BY DEF LimitReachedIsAnnounced
  <2>1. t # s
    BY <1>2, ShareConstants DEF InsertRow, LimitReached, PlainShares, TypeOK
  <2>2. row'[t] = row[t] /\ kindOf'[t] = kindOf[t]
    BY <1>2, <2>1 DEF InsertRow, PlainShares, TypeOK
  <2>3. Visible(t) /\ kindOf[t] = "file" /\ LimitReached(row[t])
    BY <1>2, <2>2 DEF Visible, Exists
  <2>4. \A q \in Requests : req[q].share = t => req[q].pc # "counted"
    BY <1>2
  <2> QED
    BY <1>2, <2>3, <2>4 DEF LimitInv, LimitReachedIsAnnounced
<1>3. CASE SaveShare(p)
  <2>1. PICK max \in Limits, e \in Expiries : InsertRow(req[p].share, "file", max, e)
    BY <1>3 DEF SaveShare
  <2>2. req[p].share \in Shares /\ e \in Nat
    BY <1>3, ExpiriesType DEF SaveShare, PlainShares, TypeOK
  <2>3. /\ req[p].pc # "counted" /\ UNCHANGED <<now, limitAnnounced>>
        /\ \A q \in Requests : q # p => req'[q] = req[q]
    BY <1>3 DEF SaveShare, Finish, PlainShares, TypeOK
  <2> QED
    BY <1>2, <2>1, <2>2, <2>3
<1>4. ASSUME NEW s \in Shares, ShareFolder(p, s) PROVE LimitReachedIsAnnounced'
  <2>1. PICK max \in Limits, h \in TTLs : InsertRow(s, "folder", max, now + FolderHours(h))
    BY <1>4 DEF ShareFolder
  <2>2. now + FolderHours(h) \in Nat
    BY ShareConstants DEF PlainShares, TypeOK, FolderHours
  <2>3. /\ req[p].pc # "counted" /\ UNCHANGED <<now, limitAnnounced>>
        /\ \A q \in Requests : q # p => req'[q] = req[q]
    BY <1>4 DEF ShareFolder, Start, PlainShares, TypeOK
  <2> QED
    BY <1>2, <2>1, <2>2, <2>3
<1>5. CASE CountDownload(p)
  <2> DEFINE s == req[p].share
  <2>1. /\ s \in Shares /\ row' = [row EXCEPT ![s].downloads = @ + 1]
        /\ UNCHANGED <<kindOf, now, limitAnnounced>>
    BY <1>5 DEF CountDownload, IncrementDownloads, PlainShares, TypeOK
  <2>2. /\ \A q \in Requests : q # p => req'[q] = req[q]
        /\ req[p].pc # "counted"
    BY <1>5 DEF CountDownload, Goto, Finish, PlainShares, TypeOK
  <2>3. \A t \in Shares : t # s => row'[t] = row[t]
    BY <2>1 DEF PlainShares, TypeOK
  <2>4. kindOf[s] = "file" => req'[p].share = s /\ req'[p].pc = "counted"
    <3>1. ASSUME kindOf[s] = "file" PROVE req[p].pc = "opened"
      BY <1>5, <3>1 DEF CountDownload, LimitInv
    <3> QED
      BY <1>5, <3>1 DEF CountDownload, Goto, PlainShares, TypeOK
  <2> SUFFICES ASSUME NEW t \in Shares, Visible(t)', kindOf'[t] = "file",
                      LimitReached(row'[t]),
                      \A q \in Requests : req'[q].share = t => req'[q].pc # "counted"
               PROVE  t \in limitAnnounced'
    BY DEF LimitReachedIsAnnounced
  <2>5. t # s
    BY <2>1, <2>4
  <2>6. Visible(t) /\ kindOf[t] = "file" /\ LimitReached(row[t])
    BY <2>1, <2>3, <2>5 DEF Visible, Exists
  <2>7. \A q \in Requests : req[q].share = t => req[q].pc # "counted"
    BY <2>2
  <2> QED
    BY <2>1, <2>6, <2>7 DEF LimitInv, LimitReachedIsAnnounced
<1>6. CASE NotifyDownload(p)
  <2> DEFINE s == req[p].share
  <2>1. /\ UNCHANGED <<row, kindOf, now>>
        /\ limitAnnounced' = IF SeesLimit(p) THEN limitAnnounced \union {s} ELSE limitAnnounced
        /\ \A q \in Requests : q # p => req'[q] = req[q]
    BY <1>6 DEF NotifyDownload, Finish, PlainShares, TypeOK
  <2> SUFFICES ASSUME NEW t \in Shares, Visible(t), kindOf[t] = "file",
                      LimitReached(row[t]),
                      \A q \in Requests : req'[q].share = t => req'[q].pc # "counted"
               PROVE  t \in limitAnnounced'
    BY <2>1 DEF LimitReachedIsAnnounced, Visible, Exists
  <2>2. CASE t = s
    BY <2>1, <2>2 DEF SeesLimit
  <2>3. CASE t # s
    <3>1. \A q \in Requests : req[q].share = t => req[q].pc # "counted"
      BY <2>1, <2>3
    <3> QED
      BY <2>1, <3>1 DEF LimitInv, LimitReachedIsAnnounced
  <2> QED
    BY <2>2, <2>3
<1>7. CASE DeleteLookup(p) \/ DeleteRow(p)
  <2>1. /\ row' = row \/ RemoveRow(req[p].share)
        /\ UNCHANGED <<kindOf, now, limitAnnounced>> /\ req[p].pc # "counted"
    BY <1>7 DEF DeleteLookup, DeleteRow, stored, announced
  <2>2. \A s \in Shares : row'[s] = row[s] \/ ~row'[s].exists
    BY <2>1 DEF RemoveRow, PlainShares, TypeOK
  <2>3. \A q \in Requests : q # p => req'[q] = req[q]
    BY <1>7 DEF DeleteLookup, DeleteRow, Goto, Finish, PlainShares, TypeOK
  <2> QED
    BY <1>1, <2>1, <2>2, <2>3 DEF ReportsNothing
<1>8. ASSUME NEW s \in Shares, CreateFile(p, s) \/ BeginDownload(p, s) \/ BeginDelete(p, s)
      PROVE  LimitReachedIsAnnounced'
  <2>1. UNCHANGED <<row, kindOf, now, limitAnnounced>> /\ req[p].pc # "counted"
    BY <1>8 DEF CreateFile, BeginDownload, BeginDelete, Start
  <2>2. \A q \in Requests : q # p => req'[q] = req[q]
    BY <1>8 DEF CreateFile, BeginDownload, BeginDelete, Start, PlainShares, TypeOK
  <2> QED
    BY <1>1, <2>1, <2>2 DEF ReportsNothing
<1>9. CASE \/ AbandonUpload(p) \/ SaveFolderContents(p) \/ OpenFile(p) \/ ServeRange(p)
           \/ RefuseDownload(p) \/ DeleteFile(p) \/ DeleteRowFails(p)
  <2>1. UNCHANGED <<row, kindOf, now, limitAnnounced>> /\ req[p].pc # "counted"
    BY <1>9 DEF AbandonUpload, SaveFolderContents, OpenFile, ServeRange, RefuseDownload,
       DeleteFile, DeleteRowFails
  <2>2. Finish(p) \/ \E pc \in PCs : Goto(p, pc)
    BY <1>9 DEF AbandonUpload, SaveFolderContents, OpenFile, ServeRange, RefuseDownload,
       DeleteFile, DeleteRowFails
  <2>3. \A q \in Requests : q # p => req'[q] = req[q]
    BY <2>2 DEF Finish, Goto, PlainShares, TypeOK
  <2> QED
    BY <1>1, <2>1, <2>3 DEF ReportsNothing
<1>10. ~SaveEdit(p) /\ \A s \in Shares : ~BeginEdit(p, s)
  BY DEF SaveEdit, BeginEdit, PlainShares, PlainInv, NobodyEdits
<1> QED
  BY <1>3, <1>4, <1>5, <1>6, <1>7, <1>8, <1>9, <1>10 DEF Handle

LEMMA ArchivesOfFolders ==
    ASSUME PlainShares, LimitInv, NEW p \in Requests, Handle(p)
    PROVE  \A q \in Requests : req'[q].pc = "zipping" => kindOf'[req'[q].share] = "folder"
<1>1. OldSharesKept
  BY HandlersKeepOldShares DEF PlainShares
<1>2. \A q \in Requests : req'[q].pc = "zipping" =>
          \/ req'[q] = req[q]
          \/ req'[q].share \in Shares /\ kindOf[req'[q].share] = "folder"
  <2>1. ASSUME NEW s \in Shares, BeginDownload(p, s)
        PROVE  \A q \in Requests : req'[q].pc = "zipping" =>
                   req'[q] = req[q] \/ (req'[q].share \in Shares /\ kindOf[req'[q].share] = "folder")
    BY <2>1 DEF BeginDownload, Start, PlainShares, TypeOK
  <2>2. ASSUME NEW s \in Shares, CreateFile(p, s) \/ ShareFolder(p, s) \/ BeginDelete(p, s)
                                 \/ BeginEdit(p, s)
        PROVE  \A q \in Requests : req'[q].pc = "zipping" => req'[q] = req[q]
    <3>1. row[s] \in Row /\ NoRow \in Row
      BY DEF PlainShares, TypeOK
    <3>2. CASE CreateFile(p, s) \/ ShareFolder(p, s) \/ BeginDelete(p, s)
      <4>1. \E pc \in PCs \ {"zipping"} : Start(p, s, pc, NoRow)
        BY <3>2 DEF CreateFile, ShareFolder, BeginDelete
      <4> QED
        BY <4>1 DEF Start, PlainShares, TypeOK
    <3>3. CASE BeginEdit(p, s)
      BY <3>1, <3>3 DEF BeginEdit, Start, PlainShares, TypeOK
    <3> QED
      BY <2>2, <3>2, <3>3
  <2>3. CASE \/ AbandonUpload(p) \/ SaveShare(p) \/ SaveFolderContents(p) \/ OpenFile(p)
             \/ ServeRange(p) \/ CountDownload(p) \/ RefuseDownload(p) \/ NotifyDownload(p)
             \/ DeleteLookup(p) \/ DeleteFile(p) \/ DeleteRow(p) \/ DeleteRowFails(p)
             \/ SaveEdit(p)
    <3>1. Finish(p) \/ \E pc \in PCs \ {"zipping"} : Goto(p, pc)
      BY <2>3 DEF AbandonUpload, SaveShare, SaveFolderContents, OpenFile, ServeRange,
         CountDownload, RefuseDownload, NotifyDownload, DeleteLookup, DeleteFile, DeleteRow,
         DeleteRowFails, SaveEdit
    <3> QED
      BY <3>1 DEF Finish, Goto, PlainShares, TypeOK
  <2> QED
    BY <2>1, <2>2, <2>3 DEF Handle
<1>3. \A q \in Requests : req[q].pc = "zipping" => req[q].share \in Shares
  BY DEF PlainShares, TypeOK
<1> QED
  BY <1>1, <1>2, <1>3 DEF OldSharesKept, LimitInv

LEMMA LimitStep ==
    ASSUME ~AllowEdits, MaxFaults = 0, PlainShares, LimitInv, [Next]_vars
    PROVE  LimitInv'
<1>0. PlainShares'
  BY PlainSharesInvariant
<1>1. CASE \E p \in Requests : Handle(p)
  BY <1>0, <1>1, HandlersReport, ArchivesOfFolders DEF LimitInv
<1>2. CASE SweepDeleteRows
  <2>1. /\ \A s \in Shares : row'[s] = row[s] \/ ~row'[s].exists
        /\ UNCHANGED <<kindOf, now, req, limitAnnounced>>
    BY <1>2 DEF SweepDeleteRows
  <2> QED
    BY <2>1 DEF LimitInv, LimitReachedIsAnnounced, Visible, Exists
<1>3. CASE Tick
  <2>1. /\ \A s \in Shares : Visible(s)' => Visible(s)
        /\ UNCHANGED <<row, kindOf, req, limitAnnounced>>
    BY <1>3 DEF Tick, Visible, Exists, PlainShares, TypeOK
  <2> QED
    BY <2>1 DEF LimitInv, LimitReachedIsAnnounced
<1>4. CASE SweepSelect \/ (\E s \in Shares : SweepUnlink(s) \/ SweepNotify(s)) \/ UNCHANGED vars
  <2>1. UNCHANGED <<row, kindOf, now, req, limitAnnounced>>
    BY <1>4 DEF SweepSelect, SweepUnlink, SweepNotify, vars
  <2> QED
    BY <2>1 DEF LimitInv, LimitReachedIsAnnounced, Visible, Exists
<1>5. ~SweepDeleteFails /\ ~Restart
  BY DEF SweepDeleteFails, Restart, PlainShares, TypeOK
<1> QED
  BY <1>1, <1>2, <1>3, <1>4, <1>5 DEF Next, Sweep

\* The download that uses up the limit of a share is reported, whichever of several
\* counted downloads looks at the row last: for any number of shares and requests,
\* files and folders, where nobody edits and the process does not die.
THEOREM LimitIsReported == ~AllowEdits /\ MaxFaults = 0 => (Spec => []LimitReachedIsAnnounced)
<1> SUFFICES ASSUME ~AllowEdits, MaxFaults = 0 PROVE Spec => []LimitReachedIsAnnounced
  OBVIOUS
<1> DEFINE Inv == PlainShares /\ LimitInv
<1>1. Init => Inv
  BY PlainSharesInvariant DEF Init, LimitInv, LimitReachedIsAnnounced, Visible, Exists
<1>2. Inv /\ [Next]_vars => Inv'
  BY PlainSharesInvariant, LimitStep
<1>3. Inv => LimitReachedIsAnnounced
  BY DEF LimitInv
<1> QED
  BY <1>1, <1>2, <1>3, PTL DEF Spec
=============================================================================

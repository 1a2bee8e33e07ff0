------------------------- MODULE LiveCaptureProofs --------------------------
(***************************************************************************)
(* The theorems of LiveCapture, for any number of events, requests and     *)
(* derived contents.                                                       *)
(*                                                                         *)
(* IndInv is shown inductive: one lemma for each step of the recorder and  *)
(* of runProxy, one for each step of the artifact reader, which can only   *)
(* disturb what FollowInv says, and one for each step of a request, which  *)
(* can only disturb VerifyInv.  The last section is about the pages that   *)
(* the viewer serves: the loops of serveEvents are folds over the rows,    *)
(* and FoldFacts gives their stages.                                       *)
(***************************************************************************)
EXTENDS LiveCapture, FoldFacts, TLAPS

USE LiveAssumption
USE DEF vars, fileVars, followerVars, viewerVars, viewVars, serveVars, mainVars, bounds

-----------------------------------------------------------------------------
(* The recorder and runProxy.                                              *)

LEMMA Numbers ==
    ASSUME TypeOK
    PROVE  /\ scope.events \in Nat /\ lines \in Nat /\ lines <= scope.events
           /\ counted \in Nat /\ counted <= lines /\ seen \in Nat /\ seen <= lines
           /\ errors \in Nat /\ errors <= seen /\ rows \in Nat /\ rows <= lines
  BY DEF TypeOK, FilesTypeOK, FollowerTypeOK, ViewerTypeOK, MainTypeOK

LEMMA RecorderKeeps == ASSUME IndInv, RecorderStep PROVE IndInv'
<1> USE DEF IndInv, RecorderStep
<1>1. /\ lines' \in Nat /\ lines <= lines' /\ lines' <= scope.events
      /\ counted' \in Nat /\ counted' <= lines'
      /\ torn' \in BOOLEAN /\ broken' \in BOOLEAN
      /\ counted' = lines' \/ (broken' /\ ~torn' /\ lines' = counted' + 1)
      /\ ~sealed /\ UNCHANGED <<sealed, disk>>
  <2>1. torn \in BOOLEAN /\ broken \in BOOLEAN /\ (~broken => counted = lines)
    BY DEF TypeOK, FilesTypeOK, FilesInv
  <2>2. CASE PartOfLine
    BY <2>1, <2>2, Numbers DEF PartOfLine
  <2>3. CASE lines < scope.events /\ WholeLine
    <3>1. counted = lines /\ lines \in Nat /\ lines + 1 <= scope.events
      BY <2>1, <2>3, Numbers DEF WholeLine
    <3>2. lines' = lines + 1 /\ counted' = lines + 1
      BY <2>3, <3>1 DEF WholeLine
    <3>3. /\ lines' \in Nat /\ lines <= lines' /\ lines' <= scope.events
          /\ counted' \in Nat /\ counted' <= lines'
      BY <3>1, <3>2, Numbers
    <3>4. torn' = FALSE /\ broken' = broken /\ ~sealed /\ UNCHANGED <<sealed, disk>>
      BY <2>3 DEF WholeLine
    <3>5. QED
      BY <2>1, <3>1, <3>2, <3>3, <3>4
  <2>4. CASE lines < scope.events /\ BreakUncounted
    <3>1. counted = lines /\ lines \in Nat /\ lines + 1 <= scope.events
      BY <2>1, <2>4, Numbers DEF BreakUncounted
    <3>2. lines' = lines + 1 /\ counted' = lines
      BY <2>4, <3>1 DEF BreakUncounted
    <3>3. /\ lines' \in Nat /\ lines <= lines' /\ lines' <= scope.events
          /\ counted' \in Nat /\ counted' <= lines'
      BY <3>1, <3>2, Numbers
    <3>4. torn' = FALSE /\ broken' = TRUE /\ ~sealed /\ UNCHANGED <<sealed, disk>>
      BY <2>4 DEF BreakUncounted
    <3>5. QED
      BY <2>1, <3>1, <3>2, <3>3, <3>4
  <2>5. CASE Break
    BY <2>1, <2>5, Numbers DEF Break
  <2>6. QED
    BY <2>2, <2>3, <2>4, <2>5
<1>2. Recording /\ Recording'
  BY DEF Recording
<1>3. FilesTypeOK'
  BY <1>1 DEF TypeOK, FilesTypeOK
<1>4. FollowerTypeOK'
  BY <1>1, Numbers DEF TypeOK, FollowerTypeOK
<1>5. ViewerTypeOK'
  BY <1>1, Numbers DEF TypeOK, ViewerTypeOK
<1>6. MainTypeOK'
  BY DEF TypeOK, MainTypeOK
<1>7. FilesInv'
  BY <1>1, <1>2 DEF FilesInv, HasManifest
<1>8. MainInv'
  BY <1>1, <1>2 DEF MainInv, Recording
<1>9. FollowInv'
  BY <1>1, <1>2 DEF FollowInv, ReadAll, EndedBadly, TypeOK, FollowerTypeOK, Recording
<1>10. VerifyInv'
  BY <1>1, <1>2 DEF VerifyInv, FilesInv, HasManifest, Verdict, Recording
<1>11. QED
  BY <1>3, <1>4, <1>5, <1>6, <1>7, <1>8, <1>9, <1>10 DEF TypeOK

LEMMA SetupFailsKeeps == ASSUME IndInv, SetupFails PROVE IndInv'
<1> USE DEF IndInv, SetupFails
<1>1. FilesTypeOK'
  BY Numbers DEF TypeOK, FilesTypeOK, MainTypeOK, ManifestFiles, NoManifest
<1>2. FollowerTypeOK'
  BY Numbers DEF TypeOK, FilesTypeOK, MainTypeOK, FollowerTypeOK
<1>3. ViewerTypeOK'
  BY Numbers DEF TypeOK, FilesTypeOK, MainTypeOK, ViewerTypeOK, ManifestFiles, NoManifest,
     VerifyInv
<1>4. MainTypeOK'
  BY Numbers DEF TypeOK, MainTypeOK
<1>5. FilesInv'
  BY Numbers DEF TypeOK, FilesTypeOK, MainTypeOK, FilesInv, Recording, HasManifest,
     ManifestFiles,
      NoManifest
<1>6. MainInv'
  BY Numbers DEF TypeOK, FilesTypeOK, FollowerTypeOK, MainTypeOK, FilesInv, MainInv,
     FollowInv,
      VerifyFails, VerifyIssues, HasManifest, ManifestFiles, NoManifest
<1>7. FollowInv'
  BY Numbers DEF TypeOK, FilesTypeOK, FollowerTypeOK, MainTypeOK, FilesInv, MainInv,
     FollowInv,
      ReadAll, EndedBadly, HasManifest, Recording
<1>8. VerifyInv'
  BY Numbers DEF TypeOK, FilesTypeOK, ViewerTypeOK, MainTypeOK, FilesInv, MainInv,
     VerifyInv,
      HasManifest, Recording, Verdict
<1>9. QED
  BY <1>1, <1>2, <1>3, <1>4, <1>5, <1>6, <1>7, <1>8 DEF TypeOK

LEMMA LaunchKeeps == ASSUME IndInv, Launch PROVE IndInv'
<1> USE DEF IndInv, Launch, Start
<1>1. FilesTypeOK'
  BY Numbers DEF TypeOK, FilesTypeOK, MainTypeOK, ManifestFiles, NoManifest
<1>2. FollowerTypeOK'
  BY Numbers DEF TypeOK, FilesTypeOK, MainTypeOK, FollowerTypeOK
<1>3. ViewerTypeOK'
  BY Numbers DEF TypeOK, FilesTypeOK, MainTypeOK, ViewerTypeOK, ManifestFiles, NoManifest,
     VerifyInv
<1>4. MainTypeOK'
  BY Numbers DEF TypeOK, MainTypeOK
<1>5. FilesInv'
  BY Numbers DEF TypeOK, FilesTypeOK, MainTypeOK, FilesInv, Recording, HasManifest,
     ManifestFiles,
      NoManifest
<1>6. MainInv'
  BY Numbers DEF TypeOK, FilesTypeOK, FollowerTypeOK, MainTypeOK, FilesInv, MainInv,
     FollowInv,
      VerifyFails, VerifyIssues, HasManifest, ManifestFiles, NoManifest
<1>7. FollowInv'
  BY Numbers DEF TypeOK, FilesTypeOK, FollowerTypeOK, MainTypeOK, FilesInv, MainInv,
     FollowInv,
      ReadAll, EndedBadly, HasManifest, Recording
<1>8. VerifyInv'
  BY Numbers DEF TypeOK, FilesTypeOK, ViewerTypeOK, MainTypeOK, FilesInv, MainInv,
     VerifyInv,
      HasManifest, Recording, Verdict
<1>9. QED
  BY <1>1, <1>2, <1>3, <1>4, <1>5, <1>6, <1>7, <1>8 DEF TypeOK

LEMMA RunReturnsKeeps == ASSUME IndInv, RunReturns PROVE IndInv'
<1> USE DEF IndInv, RunReturns
<1>1. FilesTypeOK'
  BY Numbers DEF TypeOK, FilesTypeOK, MainTypeOK, ManifestFiles, NoManifest
<1>2. FollowerTypeOK'
  BY Numbers DEF TypeOK, FilesTypeOK, MainTypeOK, FollowerTypeOK
<1>3. ViewerTypeOK'
  BY Numbers DEF TypeOK, FilesTypeOK, MainTypeOK, ViewerTypeOK, ManifestFiles, NoManifest,
     VerifyInv
<1>4. MainTypeOK'
  BY Numbers DEF TypeOK, MainTypeOK
<1>5. FilesInv'
  BY Numbers DEF TypeOK, FilesTypeOK, MainTypeOK, FilesInv, Recording, HasManifest,
     ManifestFiles,
      NoManifest
<1>6. MainInv'
  BY Numbers DEF TypeOK, FilesTypeOK, FollowerTypeOK, MainTypeOK, FilesInv, MainInv,
     FollowInv,
      VerifyFails, VerifyIssues, HasManifest, ManifestFiles, NoManifest
<1>7. FollowInv'
  BY Numbers DEF TypeOK, FilesTypeOK, FollowerTypeOK, MainTypeOK, FilesInv, MainInv,
     FollowInv,
      ReadAll, EndedBadly, HasManifest, Recording
<1>8. VerifyInv'
  BY Numbers DEF TypeOK, FilesTypeOK, ViewerTypeOK, MainTypeOK, FilesInv, MainInv,
     VerifyInv,
      HasManifest, Recording, Verdict
<1>9. QED
  BY <1>1, <1>2, <1>3, <1>4, <1>5, <1>6, <1>7, <1>8 DEF TypeOK

LEMMA CloseRecorderKeeps == ASSUME IndInv, CloseRecorder PROVE IndInv'
<1> USE DEF IndInv, CloseRecorder, Seal
<1>1. FilesTypeOK'
  BY Numbers DEF TypeOK, FilesTypeOK, MainTypeOK, ManifestFiles, NoManifest
<1>2. FollowerTypeOK'
  BY Numbers DEF TypeOK, FilesTypeOK, MainTypeOK, FollowerTypeOK
<1>3. ViewerTypeOK'
  BY Numbers DEF TypeOK, FilesTypeOK, MainTypeOK, ViewerTypeOK, ManifestFiles, NoManifest,
     VerifyInv
<1>4. MainTypeOK'
  BY Numbers DEF TypeOK, MainTypeOK
<1>5. FilesInv'
  BY Numbers DEF TypeOK, FilesTypeOK, MainTypeOK, FilesInv, Recording, HasManifest,
     ManifestFiles,
      NoManifest
<1>6. MainInv'
  BY Numbers DEF TypeOK, FilesTypeOK, FollowerTypeOK, MainTypeOK, FilesInv, MainInv,
     FollowInv,
      VerifyFails, VerifyIssues, HasManifest, ManifestFiles, NoManifest
<1>7. FollowInv'
  BY Numbers DEF TypeOK, FilesTypeOK, FollowerTypeOK, MainTypeOK, FilesInv, MainInv,
     FollowInv,
      ReadAll, EndedBadly, HasManifest, Recording
<1>8. VerifyInv'
  BY Numbers DEF TypeOK, FilesTypeOK, ViewerTypeOK, MainTypeOK, FilesInv, MainInv,
     VerifyInv,
      HasManifest, Recording, Verdict
<1>9. QED
  BY <1>1, <1>2, <1>3, <1>4, <1>5, <1>6, <1>7, <1>8 DEF TypeOK

LEMMA PublishManifestKeeps == ASSUME IndInv, PublishManifest PROVE IndInv'
<1> USE DEF IndInv, PublishManifest, Publish, AfterClose
<1>1. FilesTypeOK'
  BY Numbers DEF TypeOK, FilesTypeOK, MainTypeOK, ManifestFiles, NoManifest
<1>2. FollowerTypeOK'
  BY Numbers DEF TypeOK, FilesTypeOK, MainTypeOK, FollowerTypeOK
<1>3. ViewerTypeOK'
  BY Numbers DEF TypeOK, FilesTypeOK, MainTypeOK, ViewerTypeOK, ManifestFiles, NoManifest,
     VerifyInv
<1>4. MainTypeOK'
  BY Numbers DEF TypeOK, MainTypeOK
<1>5. FilesInv'
  BY Numbers DEF TypeOK, FilesTypeOK, MainTypeOK, FilesInv, Recording, HasManifest,
     ManifestFiles,
      NoManifest
<1>6. MainInv'
  <2>1. disk'.status = IF runErr \/ broken THEN "failed" ELSE "closed"
    OBVIOUS
  <2>2. UNCHANGED <<broken, fpc, followErr, code, web, external, server>> /\ code # 0
    BY DEF MainInv
  <2>3. ~runErr' => ~runErr
    BY DEF TypeOK, MainTypeOK
  <2>4. server = "stopping" => ~web
    BY DEF MainInv
  <2>5. CASE mpc = "publish"
    <3>1. mpc' = "finish" /\ fpc # "absent"
      BY <2>5 DEF MainInv
    <3>2. QED
      BY <2>1, <2>2, <2>3, <2>4, <3>1 DEF MainInv
  <2>6. CASE mpc = "publishAbandoned"
    <3>1. mpc' = "exit" /\ runErr'
      BY <2>3, <2>6 DEF MainInv, TypeOK, MainTypeOK
    <3>2. QED
      BY <2>2, <2>4, <3>1 DEF MainInv
  <2>7. QED
    BY <2>5, <2>6
<1>7. FollowInv'
  BY Numbers DEF TypeOK, FilesTypeOK, FollowerTypeOK, MainTypeOK, FilesInv, MainInv,
     FollowInv,
      ReadAll, EndedBadly, HasManifest, Recording
<1>8. VerifyInv'
  BY Numbers DEF TypeOK, FilesTypeOK, ViewerTypeOK, MainTypeOK, FilesInv, MainInv,
     VerifyInv,
      HasManifest, Recording, Verdict
<1>9. QED
  BY <1>1, <1>2, <1>3, <1>4, <1>5, <1>6, <1>7, <1>8 DEF TypeOK

LEMMA RemoveOldManifestKeeps == ASSUME IndInv, RemoveOldManifest PROVE IndInv'
<1> USE DEF IndInv, RemoveOldManifest, RemoveManifest, NoManifest
<1>1. FilesTypeOK'
  BY Numbers DEF TypeOK, FilesTypeOK, MainTypeOK, ManifestFiles, NoManifest
<1>2. FollowerTypeOK'
  BY Numbers DEF TypeOK, FilesTypeOK, MainTypeOK, FollowerTypeOK
<1>3. ViewerTypeOK'
  BY Numbers DEF TypeOK, FilesTypeOK, MainTypeOK, ViewerTypeOK, ManifestFiles, NoManifest,
     VerifyInv
<1>4. MainTypeOK'
  BY Numbers DEF TypeOK, MainTypeOK
<1>5. FilesInv'
  BY Numbers DEF TypeOK, FilesTypeOK, MainTypeOK, FilesInv, Recording, HasManifest,
     ManifestFiles,
      NoManifest
<1>6. MainInv'
  BY Numbers DEF TypeOK, FilesTypeOK, FollowerTypeOK, MainTypeOK, FilesInv, MainInv,
     FollowInv,
      VerifyFails, VerifyIssues, HasManifest, ManifestFiles, NoManifest
<1>7. FollowInv'
  BY Numbers DEF TypeOK, FilesTypeOK, FollowerTypeOK, MainTypeOK, FilesInv, MainInv,
     FollowInv,
      ReadAll, EndedBadly, HasManifest, Recording
<1>8. VerifyInv'
  BY Numbers DEF TypeOK, FilesTypeOK, ViewerTypeOK, MainTypeOK, FilesInv, MainInv,
     VerifyInv,
      HasManifest, Recording, Verdict
<1>9. QED
  BY <1>1, <1>2, <1>3, <1>4, <1>5, <1>6, <1>7, <1>8 DEF TypeOK

LEMMA PublishFailsKeeps == ASSUME IndInv, PublishFails PROVE IndInv'
<1> USE DEF IndInv, PublishFails, AfterClose
<1>1. FilesTypeOK'
  BY Numbers DEF TypeOK, FilesTypeOK, MainTypeOK, ManifestFiles, NoManifest
<1>2. FollowerTypeOK'
  BY Numbers DEF TypeOK, FilesTypeOK, MainTypeOK, FollowerTypeOK
<1>3. ViewerTypeOK'
  BY Numbers DEF TypeOK, FilesTypeOK, MainTypeOK, ViewerTypeOK, ManifestFiles, NoManifest,
     VerifyInv
<1>4. MainTypeOK'
  BY Numbers DEF TypeOK, MainTypeOK
<1>5. FilesInv'
  BY Numbers DEF TypeOK, FilesTypeOK, MainTypeOK, FilesInv, Recording, HasManifest,
     ManifestFiles,
      NoManifest
<1>6. MainInv'
  BY Numbers DEF TypeOK, FilesTypeOK, FollowerTypeOK, MainTypeOK, FilesInv, MainInv,
     FollowInv,
      VerifyFails, VerifyIssues, HasManifest, ManifestFiles, NoManifest
<1>7. FollowInv'
  BY Numbers DEF TypeOK, FilesTypeOK, FollowerTypeOK, MainTypeOK, FilesInv, MainInv,
     FollowInv,
      ReadAll, EndedBadly, HasManifest, Recording
<1>8. VerifyInv'
  BY Numbers DEF TypeOK, FilesTypeOK, ViewerTypeOK, MainTypeOK, FilesInv, MainInv,
     VerifyInv,
      HasManifest, Recording, Verdict
<1>9. QED
  BY <1>1, <1>2, <1>3, <1>4, <1>5, <1>6, <1>7, <1>8 DEF TypeOK

LEMMA FinishViewsKeeps == ASSUME IndInv, FinishViews PROVE IndInv'
<1> USE DEF IndInv, FinishViews, Finish
<1>1. FilesTypeOK'
  BY Numbers DEF TypeOK, FilesTypeOK, MainTypeOK, ManifestFiles, NoManifest
<1>2. FollowerTypeOK'
  BY Numbers DEF TypeOK, FilesTypeOK, MainTypeOK, FollowerTypeOK
<1>3. ViewerTypeOK'
  BY Numbers DEF TypeOK, FilesTypeOK, MainTypeOK, ViewerTypeOK, ManifestFiles, NoManifest,
     VerifyInv
<1>4. MainTypeOK'
  BY Numbers DEF TypeOK, MainTypeOK
<1>5. FilesInv'
  BY Numbers DEF TypeOK, FilesTypeOK, MainTypeOK, FilesInv, Recording, HasManifest,
     ManifestFiles,
      NoManifest
<1>6. MainInv'
  BY Numbers DEF TypeOK, FilesTypeOK, FollowerTypeOK, MainTypeOK, FilesInv, MainInv,
     FollowInv,
      VerifyFails, VerifyIssues, HasManifest, ManifestFiles, NoManifest
<1>7. FollowInv'
  BY Numbers DEF TypeOK, FilesTypeOK, FollowerTypeOK, MainTypeOK, FilesInv, MainInv,
     FollowInv,
      ReadAll, EndedBadly, HasManifest, Recording
<1>8. VerifyInv'
  BY Numbers DEF TypeOK, FilesTypeOK, ViewerTypeOK, MainTypeOK, FilesInv, MainInv,
     VerifyInv,
      HasManifest, Recording, Verdict
<1>9. QED
  BY <1>1, <1>2, <1>3, <1>4, <1>5, <1>6, <1>7, <1>8 DEF TypeOK

LEMMA ViewsFinishedKeeps == ASSUME IndInv, ViewsFinished PROVE IndInv'
<1> USE DEF IndInv, ViewsFinished
<1>1. FilesTypeOK'
  BY Numbers DEF TypeOK, FilesTypeOK, MainTypeOK, ManifestFiles, NoManifest
<1>2. FollowerTypeOK'
  BY Numbers DEF TypeOK, FilesTypeOK, MainTypeOK, FollowerTypeOK
<1>3. ViewerTypeOK'
  BY Numbers DEF TypeOK, FilesTypeOK, MainTypeOK, ViewerTypeOK, ManifestFiles, NoManifest,
     VerifyInv
<1>4. MainTypeOK'
  BY Numbers DEF TypeOK, MainTypeOK
<1>5. FilesInv'
  BY Numbers DEF TypeOK, FilesTypeOK, MainTypeOK, FilesInv, Recording, HasManifest,
     ManifestFiles,
      NoManifest
<1>6. MainInv'
  BY Numbers DEF TypeOK, FilesTypeOK, FollowerTypeOK, MainTypeOK, FilesInv, MainInv,
     FollowInv,
      VerifyFails, VerifyIssues, HasManifest, ManifestFiles, NoManifest
<1>7. FollowInv'
  BY Numbers DEF TypeOK, FilesTypeOK, FollowerTypeOK, MainTypeOK, FilesInv, MainInv,
     FollowInv,
      ReadAll, EndedBadly, HasManifest, Recording
<1>8. VerifyInv'
  BY Numbers DEF TypeOK, FilesTypeOK, ViewerTypeOK, MainTypeOK, FilesInv, MainInv,
     VerifyInv,
      HasManifest, Recording, Verdict
<1>9. QED
  BY <1>1, <1>2, <1>3, <1>4, <1>5, <1>6, <1>7, <1>8 DEF TypeOK

LEMMA BeginVerifyKeeps == ASSUME IndInv, BeginVerify PROVE IndInv'
<1> USE DEF IndInv, BeginVerify, BeginVerification
<1>1. FilesTypeOK'
  BY Numbers DEF TypeOK, FilesTypeOK, MainTypeOK, ManifestFiles, NoManifest
<1>2. FollowerTypeOK'
  BY Numbers DEF TypeOK, FilesTypeOK, MainTypeOK, FollowerTypeOK
<1>3. ViewerTypeOK'
  BY Numbers DEF TypeOK, FilesTypeOK, MainTypeOK, ViewerTypeOK, ManifestFiles, NoManifest,
     VerifyInv
<1>4. MainTypeOK'
  BY Numbers DEF TypeOK, MainTypeOK
<1>5. FilesInv'
  BY Numbers DEF TypeOK, FilesTypeOK, MainTypeOK, FilesInv, Recording, HasManifest,
     ManifestFiles,
      NoManifest
<1>6. MainInv'
  BY Numbers DEF TypeOK, FilesTypeOK, FollowerTypeOK, MainTypeOK, FilesInv, MainInv,
     FollowInv,
      VerifyFails, VerifyIssues, HasManifest, ManifestFiles, NoManifest
<1>7. FollowInv'
  BY Numbers DEF TypeOK, FilesTypeOK, FollowerTypeOK, MainTypeOK, FilesInv, MainInv,
     FollowInv,
      ReadAll, EndedBadly, HasManifest, Recording
<1>8. VerifyInv'
  BY Numbers DEF TypeOK, FilesTypeOK, ViewerTypeOK, MainTypeOK, FilesInv, MainInv,
     VerifyInv,
      HasManifest, Recording, Verdict
<1>9. QED
  BY <1>1, <1>2, <1>3, <1>4, <1>5, <1>6, <1>7, <1>8 DEF TypeOK

LEMMA VerifyProgressKeeps == ASSUME IndInv, VerifyProgress PROVE IndInv'
<1> USE DEF IndInv, VerifyProgress, UpdateVerificationProgress
<1>1. FilesTypeOK'
  BY Numbers DEF TypeOK, FilesTypeOK, MainTypeOK, ManifestFiles, NoManifest
<1>2. FollowerTypeOK'
  BY Numbers DEF TypeOK, FilesTypeOK, MainTypeOK, FollowerTypeOK
<1>3. ViewerTypeOK'
  BY Numbers DEF TypeOK, FilesTypeOK, MainTypeOK, ViewerTypeOK, ManifestFiles, NoManifest,
     VerifyInv
<1>4. MainTypeOK'
  BY Numbers DEF TypeOK, MainTypeOK
<1>5. FilesInv'
  BY Numbers DEF TypeOK, FilesTypeOK, MainTypeOK, FilesInv, Recording, HasManifest,
     ManifestFiles,
      NoManifest
<1>6. MainInv'
  BY Numbers DEF TypeOK, FilesTypeOK, FollowerTypeOK, MainTypeOK, FilesInv, MainInv,
     FollowInv,
      VerifyFails, VerifyIssues, HasManifest, ManifestFiles, NoManifest
<1>7. FollowInv'
  BY Numbers DEF TypeOK, FilesTypeOK, FollowerTypeOK, MainTypeOK, FilesInv, MainInv,
     FollowInv,
      ReadAll, EndedBadly, HasManifest, Recording
<1>8. VerifyInv'
  BY Numbers DEF TypeOK, FilesTypeOK, ViewerTypeOK, MainTypeOK, FilesInv, MainInv,
     VerifyInv,
      HasManifest, Recording, Verdict
<1>9. QED
  BY <1>1, <1>2, <1>3, <1>4, <1>5, <1>6, <1>7, <1>8 DEF TypeOK

LEMMA CompleteVerifyKeeps == ASSUME IndInv, CompleteVerify PROVE IndInv'
<1> USE DEF IndInv, CompleteVerify, CompleteVerification, VerifyFails, VerifyIssues
<1>1. FilesTypeOK'
  BY Numbers DEF TypeOK, FilesTypeOK, MainTypeOK, ManifestFiles, NoManifest
<1>2. FollowerTypeOK'
  BY Numbers DEF TypeOK, FilesTypeOK, MainTypeOK, FollowerTypeOK
<1>3. ViewerTypeOK'
  <2>1. shown \in ManifestFiles \ {NoManifest} /\ (~VerifyFails => disk \in ManifestFiles \ {NoManifest})
    BY DEF TypeOK, FilesTypeOK, ViewerTypeOK, NoManifest
  <2>2. CASE web
    <3>1. shown' \in ManifestFiles \ {NoManifest}
      BY <2>1, <2>2
    <3>2. rows' \in 0..lines'
      BY <2>2, Numbers
    <3>3. issues' \in BOOLEAN /\ failure' \in BOOLEAN
      BY <2>2 DEF TypeOK, FilesTypeOK
    <3>4. QED
      BY <2>2, <3>1, <3>2, <3>3 DEF TypeOK, ViewerTypeOK, FilesTypeOK
  <2>3. CASE ~web
    BY <2>3 DEF TypeOK, ViewerTypeOK
  <2>4. QED
    BY <2>2, <2>3
<1>4. MainTypeOK'
  BY Numbers DEF TypeOK, MainTypeOK
<1>5. FilesInv'
  BY Numbers DEF TypeOK, FilesTypeOK, MainTypeOK, FilesInv, Recording, HasManifest,
     ManifestFiles,
      NoManifest
<1>6. MainInv'
  BY Numbers DEF TypeOK, FilesTypeOK, FollowerTypeOK, MainTypeOK, FilesInv, MainInv,
     FollowInv,
      VerifyFails, VerifyIssues, HasManifest, ManifestFiles, NoManifest
<1>7. FollowInv'
  BY Numbers DEF TypeOK, FilesTypeOK, FollowerTypeOK, MainTypeOK, FilesInv, MainInv,
     FollowInv,
      ReadAll, EndedBadly, HasManifest, Recording
<1>8. VerifyInv'
  BY Numbers DEF TypeOK, FilesTypeOK, ViewerTypeOK, MainTypeOK, FilesInv, MainInv,
     VerifyInv,
      HasManifest, Recording, Verdict
<1>9. QED
  BY <1>1, <1>2, <1>3, <1>4, <1>5, <1>6, <1>7, <1>8 DEF TypeOK

LEMMA ReturnKeeps == ASSUME IndInv, Return PROVE IndInv'
<1> USE DEF IndInv, Return
<1>1. FilesTypeOK'
  BY Numbers DEF TypeOK, FilesTypeOK, MainTypeOK, ManifestFiles, NoManifest
<1>2. FollowerTypeOK'
  BY Numbers DEF TypeOK, FilesTypeOK, MainTypeOK, FollowerTypeOK
<1>3. ViewerTypeOK'
  BY Numbers DEF TypeOK, FilesTypeOK, MainTypeOK, ViewerTypeOK, ManifestFiles, NoManifest,
     VerifyInv
<1>4. MainTypeOK'
  BY Numbers DEF TypeOK, MainTypeOK
<1>5. FilesInv'
  BY Numbers DEF TypeOK, FilesTypeOK, MainTypeOK, FilesInv, Recording, HasManifest,
     ManifestFiles,
      NoManifest
<1>6. MainInv'
  BY Numbers DEF TypeOK, FilesTypeOK, FollowerTypeOK, MainTypeOK, FilesInv, MainInv,
     FollowInv,
      VerifyFails, VerifyIssues, HasManifest, ManifestFiles, NoManifest
<1>7. FollowInv'
  BY Numbers DEF TypeOK, FilesTypeOK, FollowerTypeOK, MainTypeOK, FilesInv, MainInv,
     FollowInv,
      ReadAll, EndedBadly, HasManifest, Recording
<1>8. VerifyInv'
  BY Numbers DEF TypeOK, FilesTypeOK, ViewerTypeOK, MainTypeOK, FilesInv, MainInv,
     VerifyInv,
      HasManifest, Recording, Verdict
<1>9. QED
  BY <1>1, <1>2, <1>3, <1>4, <1>5, <1>6, <1>7, <1>8 DEF TypeOK

LEMMA ShutdownKeeps == ASSUME IndInv, Shutdown PROVE IndInv'
<1> USE DEF IndInv, Shutdown
<1>1. FilesTypeOK'
  BY Numbers DEF TypeOK, FilesTypeOK, MainTypeOK, ManifestFiles, NoManifest
<1>2. FollowerTypeOK'
  BY Numbers DEF TypeOK, FilesTypeOK, MainTypeOK, FollowerTypeOK
<1>3. ViewerTypeOK'
  BY Numbers DEF TypeOK, FilesTypeOK, MainTypeOK, ViewerTypeOK, ManifestFiles, NoManifest,
     VerifyInv
<1>4. MainTypeOK'
  BY Numbers DEF TypeOK, MainTypeOK
<1>5. FilesInv'
  BY DEF FilesInv, MainInv, Recording, HasManifest
<1>6. MainInv'
  BY Numbers DEF TypeOK, FilesTypeOK, FollowerTypeOK, MainTypeOK, FilesInv, MainInv,
     FollowInv,
      VerifyFails, VerifyIssues, HasManifest, ManifestFiles, NoManifest
<1>7. FollowInv'
  BY Numbers DEF TypeOK, FilesTypeOK, FollowerTypeOK, MainTypeOK, FilesInv, MainInv,
     FollowInv,
      ReadAll, EndedBadly, HasManifest, Recording
<1>8. VerifyInv'
  BY Numbers DEF TypeOK, FilesTypeOK, ViewerTypeOK, MainTypeOK, FilesInv, MainInv,
     VerifyInv,
      HasManifest, Recording, Verdict
<1>9. QED
  BY <1>1, <1>2, <1>3, <1>4, <1>5, <1>6, <1>7, <1>8 DEF TypeOK

LEMMA StopViewKeeps == ASSUME IndInv, StopView PROVE IndInv'
<1> USE DEF IndInv, StopView
<1>1. FilesTypeOK'
  BY Numbers DEF TypeOK, FilesTypeOK, MainTypeOK, ManifestFiles, NoManifest
<1>2. FollowerTypeOK'
  BY Numbers DEF TypeOK, FilesTypeOK, MainTypeOK, FollowerTypeOK
<1>3. ViewerTypeOK'
  BY Numbers DEF TypeOK, FilesTypeOK, MainTypeOK, ViewerTypeOK, ManifestFiles, NoManifest,
     VerifyInv
<1>4. MainTypeOK'
  BY Numbers DEF TypeOK, MainTypeOK
<1>5. FilesInv'
  BY Numbers DEF TypeOK, FilesTypeOK, MainTypeOK, FilesInv, Recording, HasManifest,
     ManifestFiles,
      NoManifest
<1>6. MainInv'
  BY Numbers DEF TypeOK, FilesTypeOK, FollowerTypeOK, MainTypeOK, FilesInv, MainInv,
     FollowInv,
      VerifyFails, VerifyIssues, HasManifest, ManifestFiles, NoManifest
<1>7. FollowInv'
  BY Numbers DEF TypeOK, FilesTypeOK, FollowerTypeOK, MainTypeOK, FilesInv, MainInv,
     FollowInv,
      ReadAll, EndedBadly, HasManifest, Recording
<1>8. VerifyInv'
  BY Numbers DEF TypeOK, FilesTypeOK, ViewerTypeOK, MainTypeOK, FilesInv, MainInv,
     VerifyInv,
      HasManifest, Recording, Verdict
<1>9. QED
  BY <1>1, <1>2, <1>3, <1>4, <1>5, <1>6, <1>7, <1>8 DEF TypeOK

-----------------------------------------------------------------------------
(* The artifact reader.                                                    *)

LEMMA FollowKeeps ==
    ASSUME IndInv, Follow, FollowerTypeOK', FollowInv'
    PROVE  IndInv'
<1>1. FilesTypeOK'
  BY DEF IndInv, TypeOK, FilesTypeOK, MainTypeOK, ManifestFiles, NoManifest, Follow
<1>4. MainTypeOK'
  BY DEF IndInv, TypeOK, MainTypeOK, Follow
<1>5. FilesInv'
  BY DEF IndInv, TypeOK, FilesTypeOK, MainTypeOK, FilesInv, Recording, HasManifest,
     ManifestFiles,
      NoManifest, Follow
<1>6. MainInv'
  BY DEF IndInv, TypeOK, FilesTypeOK, FollowerTypeOK, MainTypeOK, FilesInv, MainInv,
     FollowInv,
      VerifyFails, VerifyIssues, HasManifest, ManifestFiles, NoManifest, Follow,
      FollowerStep, ConsumeOther, ConsumeObserved, ConsumeDerived, ConsumeFailed,
      Oversized, FlushFails, ReadEnd, Wait, ReadLast, CloseStreams, WriteStatus, ReadLine,
      AtEnd
<1>8. VerifyInv'
  BY DEF IndInv, TypeOK, FilesTypeOK, ViewerTypeOK, MainTypeOK, FilesInv, MainInv,
     VerifyInv,
      HasManifest, Recording, Verdict, Follow
<1>3. ViewerTypeOK'
  BY DEF IndInv, TypeOK, ViewerTypeOK, Follow
<1>9. QED
  BY <1>1, <1>3, <1>4, <1>5, <1>6, <1>8 DEF TypeOK, IndInv

LEMMA ConsumeOtherKeeps == ASSUME IndInv, Follow, ConsumeOther PROVE IndInv'
<1> USE DEF IndInv, Follow, ConsumeOther, ReadLine, Written, NoWarning
<1>1. FollowerTypeOK'
  <2>1. seen' \in 0..lines' /\ errors' \in 0..seen'
    BY Numbers
  <2>2. buffered' \in BOOLEAN /\ trouble' \in BOOLEAN /\ followErr' \in BOOLEAN
    BY DEF TypeOK, FollowerTypeOK
  <2>3. published' \subseteq Contents /\ leftover' \subseteq Contents
    BY DEF TypeOK, FollowerTypeOK
  <2>4. QED
    BY <2>1, <2>2, <2>3 DEF TypeOK, FollowerTypeOK
<1>2. FollowInv'
  BY DEF TypeOK, FilesTypeOK, FollowerTypeOK, MainTypeOK, FilesInv, MainInv, FollowInv,
      ReadAll, EndedBadly, HasManifest, Recording
<1>3. QED
  BY <1>1, <1>2, FollowKeeps

LEMMA ConsumeObservedKeeps == ASSUME IndInv, Follow, ConsumeObserved PROVE IndInv'
<1> USE DEF IndInv, Follow, ConsumeObserved, ReadLine, Written, NoWarning, Fatal
<1>1. FollowerTypeOK'
  <2>1. seen' \in 0..lines' /\ errors' \in 0..seen'
    BY Numbers
  <2>2. buffered' \in BOOLEAN /\ trouble' \in BOOLEAN /\ followErr' \in BOOLEAN
    BY DEF TypeOK, FollowerTypeOK
  <2>3. published' \subseteq Contents /\ leftover' \subseteq Contents
    BY DEF TypeOK, FollowerTypeOK
  <2>4. QED
    BY <2>1, <2>2, <2>3 DEF TypeOK, FollowerTypeOK
<1>2. FollowInv'
  <2>1. fpc = "read" /\ UNCHANGED <<finish, finished, state, statusFile, mpc>>
    OBVIOUS
  <2>2. CASE UNCHANGED <<fpc, followErr, trouble>>
    BY <2>1, <2>2 DEF FollowInv
  <2>3. CASE Fatal
    BY <2>1, <2>3 DEF FollowInv
  <2>4. QED
    BY <2>2, <2>3
<1>3. QED
  BY <1>1, <1>2, FollowKeeps

LEMMA ConsumeDerivedKeeps == ASSUME IndInv, Follow, ConsumeDerived PROVE IndInv'
<1> USE DEF IndInv, Follow, ConsumeDerived, ReadLine, Written, NoWarning, publish
<1>1. FollowerTypeOK'
  <2>1. seen' \in 0..lines' /\ errors' \in 0..seen'
    BY Numbers
  <2>2. buffered' \in BOOLEAN /\ trouble' \in BOOLEAN /\ followErr' \in BOOLEAN
    BY DEF TypeOK, FollowerTypeOK
  <2>3. published' \subseteq Contents /\ leftover' \subseteq Contents
    BY DEF TypeOK, FollowerTypeOK
  <2>4. QED
    BY <2>1, <2>2, <2>3 DEF TypeOK, FollowerTypeOK
<1>2. FollowInv'
  BY DEF TypeOK, FilesTypeOK, FollowerTypeOK, MainTypeOK, FilesInv, MainInv, FollowInv,
      ReadAll, EndedBadly, HasManifest, Recording
<1>3. QED
  BY <1>1, <1>2, FollowKeeps

LEMMA ConsumeFailedKeeps == ASSUME IndInv, Follow, ConsumeFailed PROVE IndInv'
<1> USE DEF IndInv, Follow, ConsumeFailed, ReadLine, Written, warn, publishFails, Fatal
<1>1. FollowerTypeOK'
  <2>1. seen' \in 0..lines' /\ errors' \in 0..seen'
    BY Numbers
  <2>2. buffered' \in BOOLEAN /\ trouble' \in BOOLEAN /\ followErr' \in BOOLEAN
    BY DEF TypeOK, FollowerTypeOK
  <2>3. published' \subseteq Contents /\ leftover' \subseteq Contents
    BY DEF TypeOK, FollowerTypeOK
  <2>4. QED
    BY <2>1, <2>2, <2>3 DEF TypeOK, FollowerTypeOK
<1>2. FollowInv'
  <2>1. fpc = "read" /\ UNCHANGED <<finish, finished, state, statusFile, mpc>>
    OBVIOUS
  <2>2. CASE UNCHANGED <<fpc, followErr, trouble>>
    BY <2>1, <2>2 DEF FollowInv
  <2>3. CASE Fatal
    BY <2>1, <2>3 DEF FollowInv
  <2>4. QED
    BY <2>2, <2>3
<1>3. QED
  BY <1>1, <1>2, FollowKeeps

LEMMA OversizedKeeps == ASSUME IndInv, Follow, Oversized PROVE IndInv'
<1> USE DEF IndInv, Follow, Oversized
<1>1. FollowerTypeOK'
  BY Numbers DEF TypeOK, FilesTypeOK, MainTypeOK, FollowerTypeOK
<1>2. FollowInv'
  BY DEF TypeOK, FilesTypeOK, FollowerTypeOK, MainTypeOK, FilesInv, MainInv, FollowInv,
      ReadAll, EndedBadly, HasManifest, Recording
<1>3. QED
  BY <1>1, <1>2, FollowKeeps

LEMMA FlushFailsKeeps == ASSUME IndInv, Follow, FlushFails PROVE IndInv'
<1> USE DEF IndInv, Follow, FlushFails, Fatal
<1>1. FollowerTypeOK'
  BY Numbers DEF TypeOK, FilesTypeOK, MainTypeOK, FollowerTypeOK
<1>2. FollowInv'
  BY DEF TypeOK, FilesTypeOK, FollowerTypeOK, MainTypeOK, FilesInv, MainInv, FollowInv,
      ReadAll, EndedBadly, HasManifest, Recording
<1>3. QED
  BY <1>1, <1>2, FollowKeeps

LEMMA ReadEndKeeps == ASSUME IndInv, Follow, ReadEnd PROVE IndInv'
<1> USE DEF IndInv, Follow, ReadEnd, AtEnd
<1>1. FollowerTypeOK'
  BY Numbers DEF TypeOK, FilesTypeOK, MainTypeOK, FollowerTypeOK
<1>2. FollowInv'
  BY DEF TypeOK, FilesTypeOK, FollowerTypeOK, MainTypeOK, FilesInv, MainInv, FollowInv,
      ReadAll, EndedBadly, HasManifest, Recording
<1>3. QED
  BY <1>1, <1>2, FollowKeeps

LEMMA WaitKeeps == ASSUME IndInv, Follow, Wait PROVE IndInv'
<1> USE DEF IndInv, Follow, Wait
<1>1. FollowerTypeOK'
  BY Numbers DEF TypeOK, FilesTypeOK, MainTypeOK, FollowerTypeOK
<1>2. FollowInv'
  BY DEF TypeOK, FilesTypeOK, FollowerTypeOK, MainTypeOK, FilesInv, MainInv, FollowInv,
      ReadAll, EndedBadly, HasManifest, Recording
<1>3. QED
  BY <1>1, <1>2, FollowKeeps

LEMMA ReadLastKeeps == ASSUME IndInv, Follow, ReadLast PROVE IndInv'
<1> USE DEF IndInv, Follow, ReadLast, AtEnd, Matches
<1>1. FollowerTypeOK'
  BY Numbers DEF TypeOK, FilesTypeOK, MainTypeOK, FollowerTypeOK
<1>2. FollowInv'
  <2>1. finish /\ sealed /\ (torn => broken) /\ seen = lines
    BY DEF FollowInv, FilesInv, Recording
  <2>2. HasManifest <=> disk.status \notin {"open", "none"}
    BY DEF TypeOK, FilesTypeOK, ManifestFiles, NoManifest, HasManifest
  <2>3. ~Matches => EndedBadly
    BY <2>1, <2>2 DEF FilesInv, EndedBadly
  <2>4. Matches => ReadAll'
    BY <2>1, <2>2 DEF ReadAll, HasManifest
  <2>5. QED
    BY <2>1, <2>3, <2>4 DEF FollowInv, EndedBadly, HasManifest
<1>3. QED
  BY <1>1, <1>2, FollowKeeps

LEMMA CloseStreamsKeeps == ASSUME IndInv, Follow, CloseStreams PROVE IndInv'
<1> USE DEF IndInv, Follow, CloseStreams, FinalState, warn, NoWarning
<1>1. FollowerTypeOK'
  BY Numbers DEF TypeOK, FilesTypeOK, MainTypeOK, FollowerTypeOK
<1>2. FollowInv'
  BY DEF TypeOK, FilesTypeOK, FollowerTypeOK, MainTypeOK, FilesInv, MainInv, FollowInv,
      ReadAll, EndedBadly, HasManifest, Recording
<1>3. QED
  BY <1>1, <1>2, FollowKeeps

LEMMA WriteStatusKeeps == ASSUME IndInv, Follow, WriteStatus PROVE IndInv'
<1> USE DEF IndInv, Follow, WriteStatus, warn, NoWarning
<1>1. FollowerTypeOK'
  BY Numbers DEF TypeOK, FilesTypeOK, MainTypeOK, FollowerTypeOK
<1>2. FollowInv'
  BY DEF TypeOK, FilesTypeOK, FollowerTypeOK, MainTypeOK, FilesInv, MainInv, FollowInv,
      ReadAll, EndedBadly, HasManifest, Recording
<1>3. QED
  BY <1>1, <1>2, FollowKeeps

-----------------------------------------------------------------------------
(* The viewer's requests.                                                  *)

LEMMA ViewerKeeps ==
    ASSUME IndInv, UNCHANGED <<fileVars, followerVars, mainVars, external>>, ViewerTypeOK', VerifyInv'
    PROVE  IndInv'
<1>1. FilesTypeOK'
  BY DEF IndInv, TypeOK, FilesTypeOK, MainTypeOK, ManifestFiles, NoManifest
<1>2. FollowerTypeOK'
  BY DEF IndInv, TypeOK, FilesTypeOK, MainTypeOK, FollowerTypeOK
<1>4. MainTypeOK'
  BY DEF IndInv, TypeOK, MainTypeOK
<1>5. FilesInv'
  BY DEF IndInv, TypeOK, FilesTypeOK, MainTypeOK, FilesInv, Recording, HasManifest,
     ManifestFiles,
      NoManifest
<1>6. MainInv'
  BY DEF IndInv, TypeOK, FilesTypeOK, FollowerTypeOK, MainTypeOK, FilesInv, MainInv,
     FollowInv,
      VerifyFails, VerifyIssues, HasManifest, ManifestFiles, NoManifest
<1>7. FollowInv'
  BY DEF IndInv, TypeOK, FilesTypeOK, FollowerTypeOK, MainTypeOK, FilesInv, MainInv,
     FollowInv,
      ReadAll, EndedBadly, HasManifest, Recording
<1>9. QED
  BY <1>1, <1>2, <1>4, <1>5, <1>6, <1>7 DEF TypeOK, IndInv

LEMMA RequestKeeps == ASSUME IndInv, NEW q \in Requests, Request(q) PROVE IndInv'
<1> USE DEF IndInv, Request, Arrive, Goto
<1>1. ViewerTypeOK'
  BY DEF TypeOK, FilesTypeOK, MainTypeOK, ViewerTypeOK, ManifestFiles, NoManifest, VerifyInv
<1>2. VerifyInv'
  BY DEF TypeOK, FilesTypeOK, ViewerTypeOK, MainTypeOK, FilesInv, MainInv, VerifyInv,
      HasManifest, Recording, Verdict
<1>3. QED
  BY <1>1, <1>2, ViewerKeeps

LEMMA RefreshNothingKeeps == ASSUME IndInv, NEW q \in Requests, Serve(q),
RefreshNothing(q) PROVE IndInv'
<1> USE DEF IndInv, Serve, RefreshNothing, Goto
<1>1. ViewerTypeOK'
  BY Numbers DEF TypeOK, FilesTypeOK, MainTypeOK, ViewerTypeOK, ManifestFiles, NoManifest,
     VerifyInv
<1>2. VerifyInv'
  BY DEF TypeOK, FilesTypeOK, ViewerTypeOK, MainTypeOK, FilesInv, MainInv, VerifyInv,
      HasManifest, Recording, Verdict
<1>3. QED
  BY <1>1, <1>2, ViewerKeeps

LEMMA RefreshIndexKeeps == ASSUME IndInv, NEW q \in Requests, Serve(q),
RefreshIndex(q) PROVE IndInv'
<1> USE DEF IndInv, Serve, RefreshIndex, Goto
<1>1. ViewerTypeOK'
  BY Numbers DEF TypeOK, FilesTypeOK, MainTypeOK, ViewerTypeOK, ManifestFiles, NoManifest,
     VerifyInv
<1>2. VerifyInv'
  BY DEF TypeOK, FilesTypeOK, ViewerTypeOK, MainTypeOK, FilesInv, MainInv, VerifyInv,
      HasManifest, Recording, Verdict
<1>3. QED
  BY <1>1, <1>2, ViewerKeeps

LEMMA RefreshManifestKeeps == ASSUME IndInv, NEW q \in Requests, Serve(q),
RefreshManifest(q) PROVE IndInv'
<1> USE DEF IndInv, Serve, RefreshManifest, Goto, Fail
<1>1. ViewerTypeOK'
  BY Numbers DEF TypeOK, FilesTypeOK, MainTypeOK, ViewerTypeOK, ManifestFiles, NoManifest,
     VerifyInv
<1>2. VerifyInv'
  <2>1. ~done /\ vmu = q
    BY DEF VerifyInv, TypeOK, ViewerTypeOK
  <2>2. disk # NoManifest /\ disk.status # "open" => HasManifest
    BY DEF TypeOK, FilesTypeOK, ManifestFiles, HasManifest
  <2>3. QED
    BY <2>1, <2>2 DEF VerifyInv, HasManifest, Verdict, TypeOK, ViewerTypeOK
<1>3. QED
  BY <1>1, <1>2, ViewerKeeps

LEMMA RefreshFinalKeeps == ASSUME IndInv, NEW q \in Requests, Serve(q),
RefreshFinal(q) PROVE IndInv'
<1> USE DEF IndInv, Serve, RefreshFinal, Goto, Fail, VerifyIssues
<1>1. ViewerTypeOK'
  <2>1. vmu = q /\ disk \in ManifestFiles \ {NoManifest} /\ torn \in BOOLEAN
    BY DEF TypeOK, FilesTypeOK, ViewerTypeOK, VerifyInv, HasManifest, NoManifest
  <2>2. rows' \in 0..lines'
    BY Numbers
  <2>3. CASE torn
    BY <2>1, <2>2, <2>3 DEF TypeOK, ViewerTypeOK
  <2>4. CASE ~torn
    <3>1. issues' \in BOOLEAN /\ shown' \in ManifestFiles \ {NoManifest}
      BY <2>1, <2>4
    <3>2. QED
      BY <2>1, <2>2, <2>4, <3>1 DEF TypeOK, ViewerTypeOK
  <2>5. QED
    BY <2>1, <2>3, <2>4
<1>2. VerifyInv'
  BY DEF TypeOK, FilesTypeOK, ViewerTypeOK, MainTypeOK, FilesInv, MainInv, VerifyInv,
      HasManifest, Recording, Verdict
<1>3. QED
  BY <1>1, <1>2, ViewerKeeps

LEMMA RespondKeeps == ASSUME IndInv, NEW q \in Requests, Serve(q), Respond(q) PROVE IndInv'
<1> USE DEF IndInv, Serve, Respond, Goto
<1>1. ViewerTypeOK'
  BY Numbers DEF TypeOK, FilesTypeOK, MainTypeOK, ViewerTypeOK, ManifestFiles, NoManifest,
     VerifyInv
<1>2. VerifyInv'
  BY DEF TypeOK, FilesTypeOK, ViewerTypeOK, MainTypeOK, FilesInv, MainInv, VerifyInv,
      HasManifest, Recording, Verdict
<1>3. QED
  BY <1>1, <1>2, ViewerKeeps

-----------------------------------------------------------------------------
(* The theorems.                                                           *)

LEMMA InitInv == Init => IndInv
<1> SUFFICES ASSUME Init PROVE IndInv
  OBVIOUS
<1> USE DEF Init, FilesInit, FollowerInit, ViewerInit
<1>0. scope \in Scopes /\ scope.events \in Nat /\ scope.faulty \in BOOLEAN /\ 0 \in 0..scope.events
  OBVIOUS
<1>1. FilesTypeOK /\ MainTypeOK
  <2>1. disk \in ManifestFiles
    BY DEF ManifestFiles
  <2>2. lines \in 0..scope.events /\ counted \in 0..lines
    BY <1>0
  <2>3. QED
    BY <1>0, <2>1, <2>2 DEF FilesTypeOK, MainTypeOK
<1>2. FollowerTypeOK
  <2>1. seen \in 0..lines /\ errors \in 0..seen
    OBVIOUS
  <2>2. QED
    BY <1>0, <2>1 DEF FollowerTypeOK
<1>3. ViewerTypeOK
  <2>1. rows \in 0..lines
    OBVIOUS
  <2>2. shown \in ManifestFiles \ {NoManifest}
    BY DEF ManifestFiles, NoManifest
  <2>3. QED
    BY <2>1, <2>2 DEF ViewerTypeOK
<1>4. FilesInv
  BY DEF FilesInv, Recording, HasManifest
<1>5. MainInv
  BY DEF MainInv
<1>6. FollowInv
  BY DEF FollowInv
<1>7. VerifyInv
  BY DEF VerifyInv, Verdict
<1>8. QED
  BY <1>1, <1>2, <1>3, <1>4, <1>5, <1>6, <1>7 DEF IndInv, TypeOK

LEMMA StutterKeeps == ASSUME IndInv, UNCHANGED vars PROVE IndInv'
<1>1. TypeOK'
  BY DEF IndInv, TypeOK, FilesTypeOK, FollowerTypeOK, ViewerTypeOK, MainTypeOK
<1>2. FilesInv' /\ MainInv'
  BY DEF IndInv, FilesInv, MainInv, Recording, HasManifest, VerifyFails, VerifyIssues
<1>3. FollowInv' /\ VerifyInv'
  BY DEF IndInv, FollowInv, ReadAll, EndedBadly, VerifyInv, HasManifest, Verdict
<1>4. QED
  BY <1>1, <1>2, <1>3 DEF IndInv

LEMMA NextKeeps == ASSUME IndInv, [Next]_vars PROVE IndInv'
<1>1. CASE RecorderStep \/ SetupFails \/ Launch \/ RunReturns \/ VerifyProgress \/ StopView
  BY <1>1, RecorderKeeps, SetupFailsKeeps, LaunchKeeps, RunReturnsKeeps,
     VerifyProgressKeeps, StopViewKeeps
<1>2. CASE MainStep
  BY <1>2, CloseRecorderKeeps, RemoveOldManifestKeeps, PublishManifestKeeps, PublishFailsKeeps,
     FinishViewsKeeps, ViewsFinishedKeeps, BeginVerifyKeeps, CompleteVerifyKeeps, ReturnKeeps, ShutdownKeeps
     DEF MainStep
<1>3. CASE Follow
  <2>1. FollowerStep
    BY <1>3 DEF Follow
  <2>2. QED
    BY <1>3, <2>1, ConsumeOtherKeeps, ConsumeObservedKeeps, ConsumeDerivedKeeps,
       ConsumeFailedKeeps,
       OversizedKeeps, FlushFailsKeeps, ReadEndKeeps, WaitKeeps, ReadLastKeeps,
       CloseStreamsKeeps,
       WriteStatusKeeps
       DEF FollowerStep
<1>4. ASSUME NEW q \in Requests, Request(q) PROVE IndInv'
  BY <1>4, RequestKeeps
<1>5. ASSUME NEW q \in Requests, Serve(q) PROVE IndInv'
  <2>1. ServeStep(q)
    BY <1>5 DEF Serve
  <2>2. QED
    BY <1>5, <2>1, RefreshNothingKeeps, RefreshIndexKeeps, RefreshManifestKeeps,
       RefreshFinalKeeps,
       RespondKeeps
       DEF ServeStep
<1>6. CASE UNCHANGED vars
  BY <1>6, StutterKeeps
<1>7. QED
  BY <1>1, <1>2, <1>3, <1>4, <1>5, <1>6 DEF Next

(***************************************************************************)
(* IndInv is an invariant of runProxy with its two readers.                *)
(***************************************************************************)
THEOREM Invariance == Spec => []IndInv
<1>1. Init => IndInv
  BY InitInv
<1>2. IndInv /\ [Next]_vars => IndInv'
  BY NextKeeps
<1>3. QED
  BY <1>1, <1>2, PTL DEF Spec

(***************************************************************************)
(* A status file of the artifact reader (artifacts/live.go) that says      *)
(* complete stands beside a closed manifest that counts every line, all of *)
(* them read and written; and a run in which nothing failed ends with one. *)
(***************************************************************************)
THEOREM StatusAlwaysExact == Spec => []StatusExact
<1>1. ASSUME IndInv PROVE StatusExact
  <2>1. HasManifest <=> disk.status \notin {"open", "none"}
    BY <1>1 DEF IndInv, TypeOK, FilesTypeOK, ManifestFiles, NoManifest, HasManifest
  <2>2. fpc \in {"absent", "read", "wait", "closing", "status", "done"}
    BY <1>1 DEF IndInv, TypeOK, FollowerTypeOK
  <2>3. statusFile \in {"complete", "complete_with_errors"} => fpc = "done" /\ statusFile = state
    BY <1>1, <2>2 DEF IndInv, FollowInv
  <2>4. fpc = "done" /\ state \in {"complete", "complete_with_errors"} =>
            ReadAll /\ (state = "complete" <=> errors = 0)
    BY <1>1 DEF IndInv, FollowInv
  <2>5. fpc = "done" /\ ~trouble /\ ~broken /\ HasManifest =>
            statusFile = state /\ state \in {"complete", "complete_with_errors"}
    BY <1>1 DEF IndInv, FollowInv, EndedBadly, TypeOK, FollowerTypeOK
  <2>6. QED
    BY <2>1, <2>3, <2>4, <2>5 DEF StatusExact, ReadAll
<1>2. QED
  BY <1>1, Invariance, PTL

(***************************************************************************)
(* The viewer never reports a verified capture while events of it are      *)
(* missing from its index (viewer.CompleteVerification and Refresh).       *)
(***************************************************************************)
THEOREM VerifiedAlwaysShowsAll == Spec => []VerifiedShowsAll
<1>1. IndInv => VerifiedShowsAll
  BY DEF IndInv, VerifyInv, VerifiedShowsAll
<1>2. QED
  BY <1>1, Invariance, PTL

(***************************************************************************)
(* Exit code 0 of runProxy means a manifest that counts every line, and    *)
(* artifact folders that are complete and say so.                          *)
(***************************************************************************)
THEOREM ExitZeroAlwaysWhole == Spec => []ExitZeroMeansWhole
<1>1. ASSUME IndInv, code = 0 PROVE ExitZeroMeansWhole
  <2>1. mpc \in {"shutdown", "exited"} /\ ~runErr
    BY <1>1 DEF IndInv, MainInv
  <2>2. /\ disk.status = IF broken THEN "failed" ELSE "closed"
        /\ fpc = "done" /\ ~followErr /\ disk.events = lines /\ ~torn
    BY <1>1, <2>1 DEF IndInv, MainInv, VerifyFails, VerifyIssues
  <2>3. disk = [status |-> IF broken THEN "failed" ELSE "closed", events |-> lines]
    BY <1>1, <2>2 DEF IndInv, TypeOK, FilesTypeOK, ManifestFiles, NoManifest
  <2>4. statusFile = "complete" /\ ReadAll
    BY <1>1, <2>2 DEF IndInv, FollowInv
  <2>5. QED
    BY <2>2, <2>3, <2>4 DEF ExitZeroMeansWhole, ReadAll
<1>2. IndInv => ExitZeroMeansWhole
  BY <1>1 DEF ExitZeroMeansWhole
<1>3. QED
  BY <1>2, Invariance, PTL

(***************************************************************************)
(* Once the viewer's session says verified or failed, on which its page    *)
(* stops polling, no step of the owner or of a request takes it back.      *)
(***************************************************************************)
THEOREM VerdictAlwaysStays == Spec => VerdictStays
<1>1. ASSUME IndInv, [Next]_vars, Verdict \in {"verified", "failed"} PROVE UNCHANGED Verdict
  <2>1. done /\ ~tailing
    BY <1>1 DEF IndInv, VerifyInv, Verdict, TypeOK, ViewerTypeOK
  <2>2. web => mpc \in {"exit", "shutdown", "exited"}
    BY <1>1, <2>1 DEF IndInv, VerifyInv
  <2>3. \A q \in Requests : hpc[q] \notin {"manifest", "final"}
    BY <1>1, <2>1 DEF IndInv, VerifyInv
  <2>4. UNCHANGED <<done, issues, failure>>
    <3>1. CASE RecorderStep \/ SetupFails \/ Launch \/ RunReturns \/ VerifyProgress \/ StopView
      BY <3>1, <2>2 DEF RecorderStep, SetupFails, Launch, RunReturns, VerifyProgress,
         StopView
    <3>2. CASE MainStep
      BY <3>2, <2>2 DEF MainStep, CloseRecorder, RemoveOldManifest, PublishManifest, PublishFails,
         FinishViews, ViewsFinished, BeginVerify, CompleteVerify, Return, Shutdown
    <3>3. CASE Follow
      BY <3>3 DEF Follow
    <3>4. ASSUME NEW q \in Requests, Request(q) \/ Serve(q)
          PROVE UNCHANGED <<done, issues, failure>>
      BY <3>4, <2>3 DEF Request, Arrive, Serve, ServeStep, RefreshNothing, RefreshIndex,
         RefreshManifest, RefreshFinal, Respond
    <3>5. CASE UNCHANGED vars
      BY <3>5
    <3>6. QED
      BY <1>1, <3>1, <3>2, <3>3, <3>4, <3>5 DEF Next
  <2>5. QED
    BY <2>1, <2>4 DEF Verdict
<1>2. IndInv /\ [Next]_vars => [(Verdict \in {"verified", "failed"}) => UNCHANGED Verdict]_vars
  BY <1>1
<1>3. QED
  BY <1>2, Invariance, PTL DEF Spec, VerdictStays

-----------------------------------------------------------------------------
(* The pages of serveEvents: the two loops over the rows, and what they    *)
(* leave after each row.                                                   *)

HIDE LiveAssumption

\* Two sequences of one length with the same elements are the same.
LEMMA SamePage ==
    ASSUME NEW S, NEW s, s \in Seq(S), NEW t, t \in Seq(S), NEW n, Len(s) = n, Len(t) = n,
           \A i \in 1..n : s[i] = t[i]
    PROVE  s = t
  OBVIOUS

\* What a loop has collected, and the two loops of serveEvents.
Windows == [page : Seq(Nat), total : Nat]
TailFold(match, limit) ==
    FoldLeft(LAMBDA q, i : TailVisit(q, i, match, limit), NoRows, Rows)
OffsetFold(match, offset, limit) ==
    FoldLeft(LAMBDA q, i : OffsetVisit(q, i, match, offset, limit), NoRows, Rows)

LEMMA RowsFacts ==
    ASSUME rows \in Nat
    PROVE  DOMAIN Rows = 1..rows /\ \A i \in 1..rows : Rows[i] = i
  BY DEF Rows

LEMMA KeepType ==
    ASSUME NEW all \in Seq(Nat), NEW i \in Nat, NEW match
    PROVE  KeepMatch(all, i, match) \in Seq(Nat)
  BY DEF KeepMatch

LEMMA SlideType ==
    ASSUME NEW page \in Seq(Nat), NEW i \in Nat, NEW limit \in Nat \ {0}
    PROVE  Slide(page, i, limit) \in Seq(Nat)
<1>1. CASE Len(page) = limit
  <2>1. Tail(page) \in Seq(Nat)
    BY <1>1
  <2> QED
    BY <1>1, <2>1 DEF Slide
<1>2. CASE Len(page) # limit
  BY <1>2 DEF Slide
<1> QED
  BY <1>1, <1>2

LEMMA TailType ==
    ASSUME NEW p \in Windows, NEW i \in Nat, NEW match, NEW limit \in Nat \ {0}
    PROVE  TailVisit(p, i, match, limit) \in Windows
<1>1. p.page \in Seq(Nat) /\ p.total \in Nat
  BY DEF Windows
<1>2. Slide(p.page, i, limit) \in Seq(Nat)
  BY <1>1, SlideType
<1> QED
  BY <1>1, <1>2 DEF TailVisit, Windows

LEMMA OffsetType ==
    ASSUME NEW p \in Windows, NEW i \in Nat, NEW match, NEW offset \in Nat, NEW limit \in Nat
    PROVE  OffsetVisit(p, i, match, offset, limit) \in Windows
<1>1. p.page \in Seq(Nat) /\ p.total \in Nat
  BY DEF Windows
<1>2. Append(p.page, i) \in Seq(Nat)
  BY <1>1
<1> QED
  BY <1>1, <1>2 DEF OffsetVisit, Windows

\* The three loops, one stage for each row.
LEMMA MatchStages ==
    ASSUME rows \in Nat, NEW match
    PROVE  \E p \in [0..rows -> Seq(Nat)] :
              /\ p[0] = << >> /\ p[rows] = Matching(match)
              /\ \A i \in 1..rows : p[i] = KeepMatch(p[i - 1], Rows[i], match)
<1> DEFINE n == rows
<1> DEFINE Acc == Seq(Nat)
<1> DEFINE base == << >>
<1> DEFINE step == [q \in Acc \X (1..n) |-> KeepMatch(q[1], Rows[q[2]], match)]
<1> DEFINE h == CHOOSE h : h = [s \in SUBSET (DOMAIN Rows) |->
                  IF s = {} THEN << >> ELSE KeepMatch(h[s \ {Max(s)}], Rows[Max(s)], match)]
<1>1. n \in Nat /\ DOMAIN Rows = 1..n /\ base \in Acc
  <2>1. << >> \in Seq(Nat)
    OBVIOUS
  <2> QED
    BY <2>1, RowsFacts DEF Rows
<1>2. \A a \in Acc, i \in 1..n : KeepMatch(a, Rows[i], match) \in Acc
  <2> SUFFICES ASSUME NEW a \in Seq(Nat), NEW i \in 1..rows PROVE KeepMatch(a, Rows[i], match) \in Seq(Nat)
    OBVIOUS
  <2>1. Rows[i] = i /\ i \in Nat
    BY RowsFacts
  <2> QED
    BY <2>1, KeepType
<1> HIDE DEF n, Acc, base
<1>3. step \in [Acc \X (1..n) -> Acc]
  BY <1>1, <1>2
<1>4. \A a \in Acc, i \in 1..n : step[<<a, i>>] = KeepMatch(a, Rows[i], match)
  BY <1>1
<1>5. Matching(match) = h[DOMAIN Rows]
  BY DEF Matching, FoldLeft, MapThenFoldSet
<1> HIDE DEF step
<1>6. h = [s \in SUBSET (DOMAIN Rows) |->
             IF s = {} THEN base ELSE KeepMatch(h[s \ {Max(s)}], Rows[Max(s)], match)]
  <2>1. PICK g \in Iters(n, Acc, base, step) : TRUE
    BY <1>1, <1>3, IterExists
  <2>2. /\ g \in [SUBSET (1..n) -> Acc]
        /\ \A s \in SUBSET (1..n) :
             g[s] = IF s = {} THEN base ELSE step[<<g[s \ {Max(s)}], Max(s)>>]
    BY <2>1 DEF Iters
  <2>3. ASSUME NEW s \in SUBSET (1..n), s # {}
        PROVE  g[s] = KeepMatch(g[s \ {Max(s)}], Rows[Max(s)], match)
    <3>1. Max(s) \in 1..n
      BY <1>1, <2>3, MaxOfBounded
    <3>2. g[s \ {Max(s)}] \in Acc
      BY <2>2
    <3> QED
      BY <1>4, <2>2, <2>3, <3>1, <3>2
  <2>4. g = [s \in SUBSET (DOMAIN Rows) |->
               IF s = {} THEN base ELSE KeepMatch(g[s \ {Max(s)}], Rows[Max(s)], match)]
    BY <1>1, <2>2, <2>3
  <2> QED
    BY <2>4 DEF base
<1> HIDE DEF h
<1>7. h[{}] = base
  <2>1. {} \in SUBSET (DOMAIN Rows)
    OBVIOUS
  <2> QED
    BY <1>6, <2>1
<1>8. ASSUME NEW s \in SUBSET (1..n), s # {}, h[s \ {Max(s)}] \in Acc
      PROVE  h[s] = step[<<h[s \ {Max(s)}], Max(s)>>]
  <2>1. Max(s) \in 1..n
    BY <1>1, <1>8, MaxOfBounded
  <2>2. h[s] = KeepMatch(h[s \ {Max(s)}], Rows[Max(s)], match)
    BY <1>1, <1>6, <1>8
  <2> QED
    BY <1>4, <1>8, <2>1, <2>2
<1>9. IsIter(h, n, Acc, base, step)
  BY <1>1, <1>3, <1>7, <1>8 DEF IsIter
<1>10. PICK p \in Stages(n, Acc, base, step) : p[n] = h[1..n]
  BY <1>9, IterPrefixes
<1>11. p \in [0..n -> Acc] /\ p[0] = base
  BY <1>10 DEF Stages
<1>12. ASSUME NEW i \in 1..n PROVE p[i] = KeepMatch(p[i - 1], Rows[i], match)
  <2>1. i - 1 \in 0..n
    BY <1>1
  <2> QED
    BY <1>4, <1>10, <1>11, <2>1 DEF Stages
<1> QED
  BY <1>1, <1>5, <1>10, <1>11, <1>12 DEF n, Acc, base

LEMMA TailStages ==
    ASSUME rows \in Nat, NEW match, NEW limit \in Nat \ {0}
    PROVE  \E p \in [0..rows -> Windows] :
              /\ p[0] = NoRows /\ p[rows] = TailFold(match, limit)
              /\ \A i \in 1..rows : p[i] = TailVisit(p[i - 1], Rows[i], match, limit)
<1> DEFINE n == rows
<1> DEFINE Acc == Windows
<1> DEFINE base == NoRows
<1> DEFINE step == [q \in Acc \X (1..n) |-> TailVisit(q[1], Rows[q[2]], match, limit)]
<1> DEFINE h == CHOOSE h : h = [s \in SUBSET (DOMAIN Rows) |->
                  IF s = {} THEN NoRows ELSE TailVisit(h[s \ {Max(s)}], Rows[Max(s)], match, limit)]
<1>1. n \in Nat /\ DOMAIN Rows = 1..n /\ base \in Acc
  <2>1. << >> \in Seq(Nat)
    OBVIOUS
  <2> QED
    BY <2>1, RowsFacts DEF NoRows, Windows
<1>2. \A a \in Acc, i \in 1..n : TailVisit(a, Rows[i], match, limit) \in Acc
  <2> SUFFICES ASSUME NEW a \in Windows, NEW i \in 1..rows PROVE TailVisit(a, Rows[i], match, limit) \in Windows
    OBVIOUS
  <2>1. Rows[i] = i /\ i \in Nat
    BY RowsFacts
  <2> QED
    BY <2>1, TailType
<1> HIDE DEF n, Acc, base
<1>3. step \in [Acc \X (1..n) -> Acc]
  BY <1>1, <1>2
<1>4. \A a \in Acc, i \in 1..n : step[<<a, i>>] = TailVisit(a, Rows[i], match, limit)
  BY <1>1
<1>5. TailFold(match, limit) = h[DOMAIN Rows]
  BY DEF TailFold, FoldLeft, MapThenFoldSet
<1> HIDE DEF step
<1>6. h = [s \in SUBSET (DOMAIN Rows) |->
             IF s = {} THEN base ELSE TailVisit(h[s \ {Max(s)}], Rows[Max(s)], match, limit)]
  <2>1. PICK g \in Iters(n, Acc, base, step) : TRUE
    BY <1>1, <1>3, IterExists
  <2>2. /\ g \in [SUBSET (1..n) -> Acc]
        /\ \A s \in SUBSET (1..n) :
             g[s] = IF s = {} THEN base ELSE step[<<g[s \ {Max(s)}], Max(s)>>]
    BY <2>1 DEF Iters
  <2>3. ASSUME NEW s \in SUBSET (1..n), s # {}
        PROVE  g[s] = TailVisit(g[s \ {Max(s)}], Rows[Max(s)], match, limit)
    <3>1. Max(s) \in 1..n
      BY <1>1, <2>3, MaxOfBounded
    <3>2. g[s \ {Max(s)}] \in Acc
      BY <2>2
    <3> QED
      BY <1>4, <2>2, <2>3, <3>1, <3>2
  <2>4. g = [s \in SUBSET (DOMAIN Rows) |->
               IF s = {} THEN base ELSE TailVisit(g[s \ {Max(s)}], Rows[Max(s)], match, limit)]
    BY <1>1, <2>2, <2>3
  <2> QED
    BY <2>4 DEF base
<1> HIDE DEF h
<1>7. h[{}] = base
  <2>1. {} \in SUBSET (DOMAIN Rows)
    OBVIOUS
  <2> QED
    BY <1>6, <2>1
<1>8. ASSUME NEW s \in SUBSET (1..n), s # {}, h[s \ {Max(s)}] \in Acc
      PROVE  h[s] = step[<<h[s \ {Max(s)}], Max(s)>>]
  <2>1. Max(s) \in 1..n
    BY <1>1, <1>8, MaxOfBounded
  <2>2. h[s] = TailVisit(h[s \ {Max(s)}], Rows[Max(s)], match, limit)
    BY <1>1, <1>6, <1>8
  <2> QED
    BY <1>4, <1>8, <2>1, <2>2
<1>9. IsIter(h, n, Acc, base, step)
  BY <1>1, <1>3, <1>7, <1>8 DEF IsIter
<1>10. PICK p \in Stages(n, Acc, base, step) : p[n] = h[1..n]
  BY <1>9, IterPrefixes
<1>11. p \in [0..n -> Acc] /\ p[0] = base
  BY <1>10 DEF Stages
<1>12. ASSUME NEW i \in 1..n PROVE p[i] = TailVisit(p[i - 1], Rows[i], match, limit)
  <2>1. i - 1 \in 0..n
    BY <1>1
  <2> QED
    BY <1>4, <1>10, <1>11, <2>1 DEF Stages
<1> QED
  BY <1>1, <1>5, <1>10, <1>11, <1>12 DEF n, Acc, base

LEMMA OffsetStages ==
    ASSUME rows \in Nat, NEW match, NEW limit \in Nat, NEW offset \in Nat
    PROVE  \E p \in [0..rows -> Windows] :
              /\ p[0] = NoRows /\ p[rows] = OffsetFold(match, offset, limit)
              /\ \A i \in 1..rows : p[i] = OffsetVisit(p[i - 1], Rows[i], match, offset, limit)
<1> DEFINE n == rows
<1> DEFINE Acc == Windows
<1> DEFINE base == NoRows
<1> DEFINE step == [q \in Acc \X (1..n) |-> OffsetVisit(q[1], Rows[q[2]], match, offset, limit)]
<1> DEFINE h == CHOOSE h : h = [s \in SUBSET (DOMAIN Rows) |->
                  IF s = {} THEN NoRows ELSE OffsetVisit(h[s \ {Max(s)}], Rows[Max(s)], match, offset, limit)]
<1>1. n \in Nat /\ DOMAIN Rows = 1..n /\ base \in Acc
  <2>1. << >> \in Seq(Nat)
    OBVIOUS
  <2> QED
    BY <2>1, RowsFacts DEF NoRows, Windows
<1>2. \A a \in Acc, i \in 1..n : OffsetVisit(a, Rows[i], match, offset, limit) \in Acc
  <2> SUFFICES ASSUME NEW a \in Windows, NEW i \in 1..rows PROVE OffsetVisit(a, Rows[i], match, offset, limit) \in Windows
    OBVIOUS
  <2>1. Rows[i] = i /\ i \in Nat
    BY RowsFacts
  <2> QED
    BY <2>1, OffsetType
<1> HIDE DEF n, Acc, base
<1>3. step \in [Acc \X (1..n) -> Acc]
  BY <1>1, <1>2
<1>4. \A a \in Acc, i \in 1..n : step[<<a, i>>] = OffsetVisit(a, Rows[i], match, offset, limit)
  BY <1>1
<1>5. OffsetFold(match, offset, limit) = h[DOMAIN Rows]
  BY DEF OffsetFold, FoldLeft, MapThenFoldSet
<1> HIDE DEF step
<1>6. h = [s \in SUBSET (DOMAIN Rows) |->
             IF s = {} THEN base ELSE OffsetVisit(h[s \ {Max(s)}], Rows[Max(s)], match, offset, limit)]
  <2>1. PICK g \in Iters(n, Acc, base, step) : TRUE
    BY <1>1, <1>3, IterExists
  <2>2. /\ g \in [SUBSET (1..n) -> Acc]
        /\ \A s \in SUBSET (1..n) :
             g[s] = IF s = {} THEN base ELSE step[<<g[s \ {Max(s)}], Max(s)>>]
    BY <2>1 DEF Iters
  <2>3. ASSUME NEW s \in SUBSET (1..n), s # {}
        PROVE  g[s] = OffsetVisit(g[s \ {Max(s)}], Rows[Max(s)], match, offset, limit)
    <3>1. Max(s) \in 1..n
      BY <1>1, <2>3, MaxOfBounded
    <3>2. g[s \ {Max(s)}] \in Acc
      BY <2>2
    <3> QED
      BY <1>4, <2>2, <2>3, <3>1, <3>2
  <2>4. g = [s \in SUBSET (DOMAIN Rows) |->
               IF s = {} THEN base ELSE OffsetVisit(g[s \ {Max(s)}], Rows[Max(s)], match, offset, limit)]
    BY <1>1, <2>2, <2>3
  <2> QED
    BY <2>4 DEF base
<1> HIDE DEF h
<1>7. h[{}] = base
  <2>1. {} \in SUBSET (DOMAIN Rows)
    OBVIOUS
  <2> QED
    BY <1>6, <2>1
<1>8. ASSUME NEW s \in SUBSET (1..n), s # {}, h[s \ {Max(s)}] \in Acc
      PROVE  h[s] = step[<<h[s \ {Max(s)}], Max(s)>>]
  <2>1. Max(s) \in 1..n
    BY <1>1, <1>8, MaxOfBounded
  <2>2. h[s] = OffsetVisit(h[s \ {Max(s)}], Rows[Max(s)], match, offset, limit)
    BY <1>1, <1>6, <1>8
  <2> QED
    BY <1>4, <1>8, <2>1, <2>2
<1>9. IsIter(h, n, Acc, base, step)
  BY <1>1, <1>3, <1>7, <1>8 DEF IsIter
<1>10. PICK p \in Stages(n, Acc, base, step) : p[n] = h[1..n]
  BY <1>9, IterPrefixes
<1>11. p \in [0..n -> Acc] /\ p[0] = base
  BY <1>10 DEF Stages
<1>12. ASSUME NEW i \in 1..n PROVE p[i] = OffsetVisit(p[i - 1], Rows[i], match, offset, limit)
  <2>1. i - 1 \in 0..n
    BY <1>1
  <2> QED
    BY <1>4, <1>10, <1>11, <2>1 DEF Stages
<1> QED
  BY <1>1, <1>5, <1>10, <1>11, <1>12 DEF n, Acc, base

\* A tail page, and a page at an offset, of the matches found so far.
IsTail(w, all, limit) ==
    /\ w.total = Len(all) /\ Len(w.page) = Least(limit, Len(all))
    /\ \A k \in 1..Len(w.page) : w.page[k] = all[Len(all) - Len(w.page) + k]

IsPage(w, all, offset, limit) ==
    /\ w.total = Len(all)
    /\ Len(w.page) = IF offset < Len(all) THEN Least(limit, Len(all) - offset) ELSE 0
    /\ \A k \in 1..Len(w.page) : w.page[k] = all[offset + k]

\* One more row for each loop.
LEMMA TailVisitStep ==
    ASSUME NEW w \in Windows, NEW all \in Seq(Nat), NEW i \in Nat, NEW match, NEW limit \in Nat \ {0},
           IsTail(w, all, limit)
    PROVE  IsTail(TailVisit(w, i, match, limit), KeepMatch(all, i, match), limit)
<1>1. CASE i \notin match
  BY <1>1 DEF TailVisit, KeepMatch
<1>2. CASE i \in match
  <2> DEFINE more == Append(all, i)
  <2> DEFINE page == Slide(w.page, i, limit)
  <2>1. /\ KeepMatch(all, i, match) = more /\ TailVisit(w, i, match, limit).page = page
        /\ TailVisit(w, i, match, limit).total = w.total + 1
    BY <1>2 DEF TailVisit, KeepMatch
  <2>2. /\ w.page \in Seq(Nat) /\ w.total = Len(all) /\ Len(w.page) = Least(limit, Len(all))
        /\ \A k \in 1..Len(w.page) : w.page[k] = all[Len(all) - Len(w.page) + k]
    BY DEF IsTail, Windows
  <2>3. /\ Len(more) = Len(all) + 1 /\ more[Len(all) + 1] = i /\ Len(all) \in Nat
        /\ \A k \in 1..Len(all) : more[k] = all[k]
    OBVIOUS
  <2>4. CASE Len(w.page) = limit
    <3>1. Len(w.page) <= Len(all) /\ Least(limit, Len(all) + 1) = limit
      BY <2>2, <2>3, <2>4 DEF Least
    <3> DEFINE rest == Tail(w.page)
    <3>2. /\ rest \in Seq(Nat) /\ Len(rest) = limit - 1
          /\ \A k \in 1..(limit - 1) : rest[k] = w.page[k + 1]
      BY <2>2, <2>4
    <3> HIDE DEF rest
    <3>3. page = Append(rest, i)
      BY <2>4 DEF Slide, rest
    <3>4. Len(page) = limit /\ page[limit] = i /\ \A k \in 1..(limit - 1) : page[k] = rest[k]
      BY <3>2, <3>3
    <3> HIDE DEF page, more
    <3>5. ASSUME NEW k \in 1..limit PROVE page[k] = more[(Len(all) + 1) - limit + k]
      <4>1. CASE k = limit
        BY <2>3, <3>4, <4>1
      <4>2. CASE k # limit
        <5>1. k \in 1..(limit - 1) /\ k + 1 \in 1..Len(w.page)
          BY <2>4, <4>2
        <5>2. page[k] = all[Len(all) - limit + (k + 1)]
          BY <2>2, <2>4, <3>2, <3>4, <5>1
        <5>3. Len(all) - limit + (k + 1) \in 1..Len(all)
              /\ Len(all) - limit + (k + 1) = (Len(all) + 1) - limit + k
          BY <2>3, <2>4, <3>1, <5>1
        <5> QED
          BY <2>3, <5>2, <5>3
      <4> QED
        BY <4>1, <4>2
    <3> QED
      BY <2>1, <2>2, <2>3, <3>1, <3>4, <3>5 DEF IsTail
  <2>5. CASE Len(w.page) # limit
    <3>1. Len(w.page) = Len(all) /\ Len(all) < limit /\ Least(limit, Len(all) + 1) = Len(all) + 1
      BY <2>2, <2>3, <2>5 DEF Least
    <3>2. page = Append(w.page, i)
      BY <2>5 DEF Slide
    <3>3. /\ Len(page) = Len(all) + 1 /\ page[Len(all) + 1] = i
          /\ \A k \in 1..Len(all) : page[k] = w.page[k]
      BY <2>2, <3>1, <3>2
    <3> HIDE DEF page, more
    <3>4. ASSUME NEW k \in 1..(Len(all) + 1) PROVE page[k] = more[k]
      <4>1. CASE k = Len(all) + 1
        BY <2>3, <3>3, <4>1
      <4>2. CASE k # Len(all) + 1
        <5>1. k \in 1..Len(all) /\ Len(all) - Len(w.page) + k = k
          BY <2>3, <3>1, <4>2
        <5> QED
          BY <2>2, <2>3, <3>1, <3>3, <5>1
      <4> QED
        BY <4>1, <4>2
    <3>5. \A k \in 1..Len(page) : page[k] = more[Len(more) - Len(page) + k]
      <4> SUFFICES ASSUME NEW k \in 1..Len(page) PROVE page[k] = more[Len(more) - Len(page) + k]
        OBVIOUS
      <4>1. Len(more) - Len(page) + k = k /\ k \in 1..(Len(all) + 1)
        BY <2>3, <3>3
      <4> QED
        BY <3>4, <4>1
    <3> QED
      BY <2>1, <2>2, <2>3, <3>1, <3>3, <3>5 DEF IsTail
  <2> QED
    BY <2>4, <2>5
<1> QED
  BY <1>1, <1>2

LEMMA OffsetVisitStep ==
    ASSUME NEW w \in Windows, NEW all \in Seq(Nat), NEW i \in Nat, NEW match,
           NEW limit \in Nat \ {0}, NEW offset \in Nat, IsPage(w, all, offset, limit)
    PROVE  IsPage(OffsetVisit(w, i, match, offset, limit), KeepMatch(all, i, match), offset, limit)
<1>1. CASE i \notin match
  BY <1>1 DEF OffsetVisit, KeepMatch
<1>2. CASE i \in match
  <2> DEFINE more == Append(all, i)
  <2> DEFINE v == OffsetVisit(w, i, match, offset, limit)
  <2>1. /\ KeepMatch(all, i, match) = more /\ v.total = w.total + 1
        /\ v.page = IF w.total >= offset /\ Len(w.page) < limit THEN Append(w.page, i) ELSE w.page
    BY <1>2 DEF OffsetVisit, KeepMatch
  <2>2. /\ w.page \in Seq(Nat) /\ w.total = Len(all)
        /\ Len(w.page) = IF offset < Len(all) THEN Least(limit, Len(all) - offset) ELSE 0
        /\ \A k \in 1..Len(w.page) : w.page[k] = all[offset + k]
    BY DEF IsPage, Windows
  <2>3. /\ Len(more) = Len(all) + 1 /\ more[Len(all) + 1] = i /\ Len(all) \in Nat
        /\ \A k \in 1..Len(all) : more[k] = all[k]
    OBVIOUS
  <2> HIDE DEF more, v
  <2>4. CASE w.total >= offset /\ Len(w.page) < limit
    <3>1. Len(w.page) = Len(all) - offset /\ offset <= Len(all)
      BY <2>2, <2>3, <2>4 DEF Least
    <3>2. /\ Len(v.page) = Len(w.page) + 1 /\ v.page[Len(w.page) + 1] = i
          /\ \A k \in 1..Len(w.page) : v.page[k] = w.page[k]
      BY <2>1, <2>2, <2>4
    <3>3. Len(v.page) = IF offset < Len(more) THEN Least(limit, Len(more) - offset) ELSE 0
      BY <2>2, <2>3, <2>4, <3>1, <3>2 DEF Least
    <3>4. ASSUME NEW k \in 1..Len(v.page) PROVE v.page[k] = more[offset + k]
      <4>1. CASE k = Len(w.page) + 1
        BY <2>3, <3>1, <3>2, <4>1
      <4>2. CASE k # Len(w.page) + 1
        <5>1. Len(w.page) \in Nat
          BY <2>2
        <5>2. k \in 1..Len(w.page)
          BY <3>2, <4>2, <5>1
        <5>3. offset + k \in 1..Len(all)
          BY <2>3, <3>1, <5>1, <5>2
        <5> QED
          BY <2>2, <2>3, <3>2, <5>2, <5>3
      <4> QED
        BY <4>1, <4>2
    <3> QED
      BY <2>1, <2>2, <2>3, <3>3, <3>4 DEF IsPage, v
  <2>5. CASE ~(w.total >= offset /\ Len(w.page) < limit)
    <3>1. v.page = w.page
      BY <2>1, <2>5
    <3>2. Len(v.page) = IF offset < Len(more) THEN Least(limit, Len(more) - offset) ELSE 0
      BY <2>2, <2>3, <2>5, <3>1 DEF Least
    <3>3. ASSUME NEW k \in 1..Len(v.page) PROVE v.page[k] = more[offset + k]
      <4>1. k \in 1..Len(w.page) /\ offset + k \in 1..Len(all)
        BY <2>2, <2>3, <3>1 DEF Least
      <4> QED
        BY <2>2, <2>3, <3>1, <4>1
    <3> QED
      BY <2>1, <2>2, <2>3, <3>2, <3>3 DEF IsPage, v
  <2> QED
    BY <2>4, <2>5
<1> QED
  BY <1>1, <1>2

\* What the loops leave after the last row.
LEMMA TailResult ==
    ASSUME rows \in Nat, NEW match, NEW limit \in Nat \ {0}
    PROVE  /\ TailFold(match, limit) \in Windows /\ Matching(match) \in Seq(Nat)
           /\ IsTail(TailFold(match, limit), Matching(match), limit)
<1>1. PICK m \in [0..rows -> Seq(Nat)] :
         /\ m[0] = << >> /\ m[rows] = Matching(match)
         /\ \A i \in 1..rows : m[i] = KeepMatch(m[i - 1], Rows[i], match)
  BY MatchStages
<1>2. PICK w \in [0..rows -> Windows] :
         /\ w[0] = NoRows /\ w[rows] = TailFold(match, limit)
         /\ \A i \in 1..rows : w[i] = TailVisit(w[i - 1], Rows[i], match, limit)
  BY TailStages
<1> DEFINE T == {i \in 0..rows : IsTail(w[i], m[i], limit)}
<1>3. 0 \in T
  <2>1. NoRows.page = << >> /\ NoRows.total = 0
    BY DEF NoRows
  <2>2. IsTail(NoRows, << >>, limit)
    BY <2>1 DEF IsTail, Least
  <2> QED
    BY <1>1, <1>2, <2>2
<1>4. ASSUME NEW i \in 1..rows, i - 1 \in T PROVE i \in T
  <2>1. /\ IsTail(w[i - 1], m[i - 1], limit) /\ i \in 0..rows /\ w[i - 1] \in Windows
        /\ m[i - 1] \in Seq(Nat) /\ Rows[i] = i /\ i \in Nat
    BY <1>4, RowsFacts
  <2>2. IsTail(TailVisit(w[i - 1], i, match, limit), KeepMatch(m[i - 1], i, match), limit)
    BY <2>1, TailVisitStep
  <2> QED
    BY <1>1, <1>2, <2>1, <2>2
<1>5. \A i \in 0..rows : i \in T
  <2> HIDE DEF T
  <2> QED
    BY <1>3, <1>4, BoundedInduction
<1>6. rows \in 0..rows
  OBVIOUS
<1>7. IsTail(w[rows], m[rows], limit) /\ w[rows] \in Windows /\ m[rows] \in Seq(Nat)
  BY <1>5, <1>6
<1> QED
  BY <1>1, <1>2, <1>7

LEMMA OffsetResult ==
    ASSUME rows \in Nat, NEW match, NEW limit \in Nat \ {0}, NEW offset \in Nat
    PROVE  /\ OffsetFold(match, offset, limit) \in Windows
           /\ IsPage(OffsetFold(match, offset, limit), Matching(match), offset, limit)
<1>1. PICK m \in [0..rows -> Seq(Nat)] :
         /\ m[0] = << >> /\ m[rows] = Matching(match)
         /\ \A i \in 1..rows : m[i] = KeepMatch(m[i - 1], Rows[i], match)
  BY MatchStages
<1>2. PICK w \in [0..rows -> Windows] :
         /\ w[0] = NoRows /\ w[rows] = OffsetFold(match, offset, limit)
         /\ \A i \in 1..rows : w[i] = OffsetVisit(w[i - 1], Rows[i], match, offset, limit)
  BY OffsetStages
<1> DEFINE T == {i \in 0..rows : IsPage(w[i], m[i], offset, limit)}
<1>3. 0 \in T
  <2>1. NoRows.page = << >> /\ NoRows.total = 0
    BY DEF NoRows
  <2>2. IsPage(NoRows, << >>, offset, limit)
    BY <2>1 DEF IsPage, Least
  <2> QED
    BY <1>1, <1>2, <2>2
<1>4. ASSUME NEW i \in 1..rows, i - 1 \in T PROVE i \in T
  <2>1. /\ IsPage(w[i - 1], m[i - 1], offset, limit) /\ i \in 0..rows /\ w[i - 1] \in Windows
        /\ m[i - 1] \in Seq(Nat) /\ Rows[i] = i /\ i \in Nat
    BY <1>4, RowsFacts
  <2>2. IsPage(OffsetVisit(w[i - 1], i, match, offset, limit), KeepMatch(m[i - 1], i, match), offset, limit)
    BY <2>1, OffsetVisitStep
  <2> QED
    BY <1>1, <1>2, <2>1, <2>2
<1>5. \A i \in 0..rows : i \in T
  <2> HIDE DEF T
  <2> QED
    BY <1>3, <1>4, BoundedInduction
<1>6. rows \in 0..rows
  OBVIOUS
<1>7. IsPage(w[rows], m[rows], offset, limit) /\ w[rows] \in Windows
  BY <1>5, <1>6
<1> QED
  BY <1>1, <1>2, <1>7

\* The first n rows that match, in ascending order.
Ascending(s, n, match) ==
    /\ \A i \in 1..n : i \in match <=> \E k \in 1..Len(s) : s[k] = i
    /\ \A k \in 1..Len(s) : s[k] \in match /\ s[k] \in 1..n
    /\ \A j, k \in 1..Len(s) : j < k => s[j] < s[k]

\* What Matching stands for: the matching rows, each once and in ascending order.
LEMMA MatchingIsOrdered ==
    ASSUME rows \in Nat, NEW match
    PROVE  Ascending(Matching(match), rows, match)
<1>1. PICK m \in [0..rows -> Seq(Nat)] :
         /\ m[0] = << >> /\ m[rows] = Matching(match)
         /\ \A i \in 1..rows : m[i] = KeepMatch(m[i - 1], Rows[i], match)
  BY MatchStages
<1> DEFINE T == {i \in 0..rows : Ascending(m[i], i, match)}
<1>2. 0 \in T
  <2>1. Len(<< >>) = 0 /\ 1..0 = {}
    OBVIOUS
  <2> QED
    BY <1>1, <2>1 DEF Ascending
<1>3. ASSUME NEW n \in 1..rows, n - 1 \in T PROVE n \in T
  <2> DEFINE s == m[n - 1]
  <2>1. Ascending(s, n - 1, match) /\ s \in Seq(Nat) /\ n \in 0..rows
    BY <1>3
  <2>2. m[n] = KeepMatch(s, n, match)
    BY <1>1, RowsFacts
  <2> HIDE DEF s
  <2>3. /\ \A i \in 1..(n - 1) : i \in match <=> \E k \in 1..Len(s) : s[k] = i
        /\ \A k \in 1..Len(s) : s[k] \in match /\ s[k] \in 1..(n - 1)
        /\ \A j, k \in 1..Len(s) : j < k => s[j] < s[k]
    BY <2>1 DEF Ascending
  <2>4. \A k \in 1..Len(s) : s[k] \in match /\ s[k] \in 1..n /\ s[k] < n
    BY <2>3
  <2>5. CASE n \notin match
    <3>1. m[n] = s
      BY <2>2, <2>5 DEF KeepMatch
    <3>2. ASSUME NEW i \in 1..n PROVE i \in match <=> \E k \in 1..Len(s) : s[k] = i
      <4>1. CASE i = n
        BY <2>4, <2>5, <4>1
      <4>2. CASE i # n
        <5>1. i \in 1..(n - 1)
          BY <4>2
        <5> QED
          BY <2>3, <5>1
      <4> QED
        BY <4>1, <4>2
    <3>3. Ascending(s, n, match)
      BY <2>3, <2>4, <3>2 DEF Ascending
    <3> QED
      BY <2>1, <3>1, <3>3
  <2>6. CASE n \in match
    <3> DEFINE t == Append(s, n)
    <3>1. m[n] = t
      BY <2>2, <2>6 DEF KeepMatch
    <3>2. /\ Len(t) = Len(s) + 1 /\ t[Len(s) + 1] = n /\ Len(s) \in Nat
          /\ \A k \in 1..Len(s) : t[k] = s[k]
      BY <2>1
    <3> HIDE DEF t
    <3>3. \A k \in 1..Len(t) : k = Len(s) + 1 \/ k \in 1..Len(s)
      BY <3>2
    <3>4. ASSUME NEW k \in 1..Len(t) PROVE t[k] \in match /\ t[k] \in 1..n
      <4>1. CASE k = Len(s) + 1
        BY <2>6, <3>2, <4>1
      <4>2. CASE k \in 1..Len(s)
        BY <2>4, <3>2, <4>2
      <4> QED
        BY <3>3, <4>1, <4>2
    <3>5. ASSUME NEW j \in 1..Len(t), NEW k \in 1..Len(t), j < k PROVE t[j] < t[k]
      <4>1. j \in 1..Len(s)
        BY <3>2, <3>5
      <4>2. CASE k = Len(s) + 1
        BY <2>4, <3>2, <4>1, <4>2
      <4>3. CASE k \in 1..Len(s)
        BY <2>3, <3>2, <3>5, <4>1, <4>3
      <4> QED
        BY <3>3, <4>2, <4>3
    <3>6. ASSUME NEW i \in 1..n PROVE i \in match <=> \E k \in 1..Len(t) : t[k] = i
      <4>1. CASE i = n
        <5>1. Len(s) + 1 \in 1..Len(t)
          BY <3>2
        <5> QED
          BY <2>6, <3>2, <4>1, <5>1
      <4>2. CASE i # n
        <5>1. i \in 1..(n - 1)
          BY <4>2
        <5>2. i \in match <=> \E k \in 1..Len(s) : s[k] = i
          BY <2>3, <5>1
        <5>3. \A k \in 1..Len(s) : k \in 1..Len(t)
          BY <3>2
        <5> QED
          BY <3>2, <3>4, <5>2, <5>3
      <4> QED
        BY <4>1, <4>2
    <3>7. Ascending(t, n, match)
      BY <3>4, <3>5, <3>6 DEF Ascending
    <3> QED
      BY <2>1, <3>1, <3>7
  <2> QED
    BY <2>5, <2>6
<1>4. \A i \in 0..rows : i \in T
  <2> HIDE DEF T
  <2> QED
    BY <1>2, <1>3, BoundedInduction
<1>5. Ascending(m[rows], rows, match)
  BY <1>4
<1> QED
  BY <1>1, <1>5

\* The collected windows are the subsequences that the property names.
LEMMA PagesFollow == ASSUME TypeOK PROVE PagesExact
<1>1. rows \in Nat /\ scope.events \in Nat
  BY Numbers DEF TypeOK
<1> SUFFICES ASSUME NEW match \in SUBSET (1..scope.events), NEW limit \in 1..scope.events
             PROVE  LET all == Matching(match)
                        n == Least(limit, Len(all))
                    IN  /\ TailPage(match, limit) =
                             [page |-> SubSeq(all, Len(all) - n + 1, Len(all)), total |-> Len(all),
                              offset |-> Len(all) - n]
                        /\ \A offset \in 0..rows :
                             OffsetPage(match, offset, limit) =
                               [page |-> SubSeq(all, offset + 1, Least(offset + limit, Len(all))),
                                total |-> Len(all), offset |-> offset]
  BY DEF PagesExact
<1> DEFINE all == Matching(match)
<1> DEFINE n == Least(limit, Len(all))
<1>2. limit \in Nat \ {0}
  BY <1>1
<1> DEFINE w == TailFold(match, limit)
<1>3. w \in Windows /\ all \in Seq(Nat) /\ IsTail(w, all, limit)
  BY <1>1, <1>2, TailResult
<1>4. TailPage(match, limit) = [page |-> w.page, total |-> w.total, offset |-> w.total - Len(w.page)]
  BY DEF TailPage, TailFold
<1> HIDE DEF all, w
<1>5. /\ w.page \in Seq(Nat) /\ w.total = Len(all) /\ Len(w.page) = n /\ n \in Nat
      /\ n <= Len(all) /\ Len(all) \in Nat /\ \A k \in 1..n : w.page[k] = all[Len(all) - n + k]
  <2>1. /\ w.page \in Seq(Nat) /\ w.total = Len(all) /\ Len(w.page) = n /\ Len(all) \in Nat
        /\ \A k \in 1..Len(w.page) : w.page[k] = all[Len(all) - Len(w.page) + k]
    BY <1>3 DEF IsTail, Windows
  <2>2. n \in Nat /\ n <= Len(all)
    BY <1>2, <2>1 DEF Least
  <2> HIDE DEF n
  <2> QED
    BY <2>1, <2>2
<1>6. w.page = SubSeq(all, Len(all) - n + 1, Len(all))
  <2> DEFINE a == Len(all) - n + 1
  <2> HIDE DEF n
  <2>1. a \in 1..(Len(all) + 1) /\ Len(all) - a + 1 = n
    BY <1>5
  <2>2. ASSUME NEW k \in 1..n PROVE a + k - 1 = Len(all) - n + k
    BY <1>5
  <2> HIDE DEF a
  <2>3. /\ SubSeq(all, a, Len(all)) \in Seq(Nat) /\ Len(SubSeq(all, a, Len(all))) = n
        /\ \A k \in 1..n : SubSeq(all, a, Len(all))[k] = all[a + k - 1]
    <3>1. CASE a <= Len(all)
      BY <1>3, <1>5, <2>1, <3>1, SMTT(40)
    <3>2. CASE a = Len(all) + 1
      BY <1>3, <1>5, <2>1, <3>2, SMTT(40)
    <3> QED
      BY <1>5, <2>1, <3>1, <3>2, SMTT(40)
  <2> DEFINE t == SubSeq(all, a, Len(all))
  <2>4. ASSUME NEW k \in 1..n PROVE w.page[k] = t[k]
    <3>1. w.page[k] = all[Len(all) - n + k] /\ t[k] = all[a + k - 1]
      BY <1>5, <2>3
    <3> QED
      BY <2>2, <3>1
  <2>5. w.page \in Seq(Nat) /\ t \in Seq(Nat) /\ Len(w.page) = n /\ Len(t) = n
    BY <1>5, <2>3
  <2> HIDE DEF t
  <2>6. w.page = t
    BY <2>4, <2>5, SamePage
  <2> QED
    BY <2>6 DEF a, t
<1>7. ASSUME NEW offset \in 0..rows
      PROVE  OffsetPage(match, offset, limit) =
               [page |-> SubSeq(all, offset + 1, Least(offset + limit, Len(all))),
                total |-> Len(all), offset |-> offset]
  <2> DEFINE v == OffsetFold(match, offset, limit)
  <2>1. v \in Windows /\ IsPage(v, all, offset, limit) /\ offset \in Nat
    BY <1>1, <1>2, OffsetResult DEF all
  <2>2. OffsetPage(match, offset, limit) = [page |-> v.page, total |-> v.total, offset |-> offset]
    BY DEF OffsetPage, OffsetFold
  <2> HIDE DEF v
  <2> DEFINE e == Least(offset + limit, Len(all))
  <2> DEFINE l == IF offset < Len(all) THEN e - offset ELSE 0
  <2>3. /\ v.page \in Seq(Nat) /\ v.total = Len(all) /\ Len(v.page) = l /\ Len(all) \in Nat
        /\ \A k \in 1..l : v.page[k] = all[offset + k]
    BY <1>2, <1>3, <2>1 DEF IsPage, Least, Windows
  <2>4. v.page = SubSeq(all, offset + 1, e)
    <3>1. CASE offset < Len(all)
      <4>1. e \in Nat /\ e <= Len(all) /\ offset + 1 <= e /\ l = e - offset /\ offset + 1 \in Nat
        BY <1>2, <2>1, <2>3, <3>1 DEF Least
      <4> HIDE DEF e, l
      <4>2. /\ SubSeq(all, offset + 1, e) \in Seq(Nat) /\ Len(SubSeq(all, offset + 1, e)) = l
            /\ \A k \in 1..l : SubSeq(all, offset + 1, e)[k] = all[offset + k]
        BY <1>3, <2>1, <4>1
      <4> QED
        BY <2>3, <4>2
    <3>2. CASE ~(offset < Len(all))
      <4>1. l = 0 /\ e \in Nat /\ e < offset + 1 /\ e <= Len(all)
        BY <1>2, <2>1, <2>3, <3>2 DEF Least
      <4> HIDE DEF e, l
      <4>2. SubSeq(all, offset + 1, e) = << >>
        BY <1>3, <2>1, <4>1
      <4>3. v.page = << >>
        BY <2>3, <4>1
      <4> QED
        BY <4>2, <4>3
    <3> QED
      BY <3>1, <3>2
  <2> QED
    BY <2>2, <2>3, <2>4
<1> QED
  BY <1>4, <1>5, <1>6, <1>7 DEF all

\* Viewer.serveEvents: whatever filter, limit and offset a request gives and however many rows
\* the index has, a tail page holds exactly the last matching rows up to the limit, and a
\* page at an offset the matching rows from there on; no row is missing, repeated or out of
\* order, and total and offset say where the page lies.
THEOREM PagesAlwaysExact == Spec => []PagesExact
<1>1. IndInv => PagesExact
  BY PagesFollow DEF IndInv
<1>2. QED
  BY <1>1, Invariance, PTL
=============================================================================

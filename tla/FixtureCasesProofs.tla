--------------------------- MODULE FixtureCasesProofs ---------------------------
(***************************************************************************)
(* The default prepare hooks, for every declared write limit: a ready case *)
(* passes the vetting of its check, is the state its program starts from,  *)
(* and lets a publication be told from the content before it.              *)
(*                                                                         *)
(* The inductive invariant says where a prepare hook is: the calls that    *)
(* remain are the end of the case's calls, and the calls that were made,   *)
(* and nothing else, are visible in the world.                             *)
(***************************************************************************)
EXTENDS FixtureCases, TLAPS

-----------------------------------------------------------------------------
(* The requests, by the shape of their case.                               *)

CreationIds == {"WriteBasic", "WriteAbort", "WriteDurable"} \cup OwningWriteIds
ConditionalIds == {"WriteIfAbsent", "WriteIfMatch"}
ExistingIds == {"WriteReplace", "WriteCreateConflict", "AppendBasic", "WriteAtomicReplaceExisting"}
PlainCopyIds == {"CopyBasic", "CopyRepeatedExecute", "CopyAtomicFile", "CopyDurableFile"}
ReadIds == DOMAIN ReadCapability

\* Every request has one shape, and is of one family of checks.
LEMMA Families ==
    /\ \A id \in WriteRequestIds : id \notin CopyRequestIds \cup DeleteRequestIds \cup ReadIds
    /\ \A id \in CopyRequestIds : id \notin DeleteRequestIds \cup ReadIds
    /\ \A id \in DeleteRequestIds : id \notin ReadIds
  BY DEF WriteRequestIds, WriteCheckIds, OwningWriteIds, CopyRequestIds, CopyIds,
     DeleteRequestIds, ReadIds, ReadCapability

\* The shapes make up the families.
LEMMA Shapes ==
    /\ WriteRequestIds = CreationIds \cup ConditionalIds \cup ExistingIds
    /\ CopyRequestIds = PlainCopyIds \cup TreeCopyIds
                          \cup {"CopyServerSide", "CopyFallbackOverwriteRejected"}
  BY DEF WriteRequestIds, WriteCheckIds, OwningWriteIds, CopyRequestIds, CopyIds,
     CreationIds, ConditionalIds, ExistingIds, PlainCopyIds, TreeCopyIds

-----------------------------------------------------------------------------
(* The cases.                                                              *)

\* What an existing target is seeded with.
Existing(id) ==
    CASE id = "WriteReplace" -> Bytes("previous contents", 17)
      [] id = "AppendBasic" -> Bytes("before", 6)
      [] OTHER -> Bytes("a", 1)

\* The calls of prepare_write.
LEMMA WriteCase ==
    ASSUME request \in Requests, request.check \in WriteRequestIds
    PROVE  /\ Case = PrepareWrite(request.check)
           /\ request.check \in CreationIds => Case.calls = <<MapPath>>
           /\ request.check \in ConditionalIds => Case.calls = Undefined
           /\ request.check \in ExistingIds =>
                 Case.calls = <<SeedFile("target", Existing(request.check))>>
<1> DEFINE id == request.check
<1>1. Case = PrepareWrite(id)
  BY Families DEF Case, DefaultCase, SyncPrepareWrite
<1>2. id \in CreationIds => PrepareWrite(id).calls = <<MapPath>>
  BY DEF PrepareWrite, CreationIds, OwningWriteIds, Creation
<1>3. id \in ConditionalIds => PrepareWrite(id).calls = Undefined
  BY DEF PrepareWrite, ConditionalIds
<1>4. id \in ExistingIds => PrepareWrite(id).calls = <<SeedFile("target", Existing(id))>>
  BY DEF PrepareWrite, ExistingIds, Existing, ConflictSeed
<1> QED
  BY <1>1, <1>2, <1>3, <1>4

\* The calls of prepare_copy.
LEMMA CopyCase ==
    ASSUME request \in Requests, request.check \in CopyRequestIds
    PROVE  /\ Case = PrepareCopy(request.check)
           /\ request.check \in PlainCopyIds =>
                 Case.calls = <<SeedFile("source", Payload(request.check)), MapPath>>
           /\ request.check = "CopyServerSide" =>
                 Case.calls = <<Seed("copy_fast_path_case", "source", Payload(request.check))>>
           /\ request.check = "CopyFallbackOverwriteRejected" =>
                 Case.calls = <<SeedFile("source", Payload(request.check)),
                                SeedFile("target", Bytes("existing", 8))>>
           /\ request.check \in TreeCopyIds =>
                 Case.calls = <<SeedDirectory("source"), SeedDirectory("sourceSub"),
                                SeedFile("sourceChild", Payload(request.check)), MapPath>>
<1> DEFINE id == request.check
<1>1. Case = PrepareCopy(id)
  BY Families DEF Case, DefaultCase, SyncPrepareCopy
<1>2. id \in PlainCopyIds =>
        PrepareCopy(id).calls = <<SeedFile("source", Payload(id)), MapPath>>
  BY DEF PrepareCopy, PlainCopyIds, TreeCopyIds
<1>3. id = "CopyServerSide" =>
        PrepareCopy(id).calls = <<Seed("copy_fast_path_case", "source", Payload(id))>>
  BY DEF PrepareCopy, TreeCopyIds
<1>4. id = "CopyFallbackOverwriteRejected" =>
        PrepareCopy(id).calls = <<SeedFile("source", Payload(id)),
                                  SeedFile("target", Bytes("existing", 8))>>
  BY DEF PrepareCopy, TreeCopyIds
<1>5. id \in TreeCopyIds =>
        PrepareCopy(id).calls = <<SeedDirectory("source"), SeedDirectory("sourceSub"),
                                  SeedFile("sourceChild", Payload(id)), MapPath>>
  BY DEF PrepareCopy, TreeCopyIds
<1> QED
  BY <1>1, <1>2, <1>3, <1>4, <1>5

\* The call of prepare_delete and of prepare_read.
LEMMA TargetCase ==
    ASSUME request \in Requests, request.check \in DeleteRequestIds \cup ReadIds
    PROVE  \E hook \in Hooks : Case.calls = <<Seed(hook, "target", Payload(request.check))>>
<1> DEFINE id == request.check
<1>1. "seed_file" \in Hooks /\ "checksum_failure_case" \in Hooks
  BY DEF Hooks
<1>2. CASE id \in DeleteRequestIds
  BY <1>1, <1>2, Families DEF Case, DefaultCase, SyncPrepareDelete, PrepareDelete, SeedFile
<1>3. CASE id \in ReadIds
  <2>1. Case = PrepareRead(id)
    BY <1>3, Families DEF Case, DefaultCase, SyncPrepareRead
  <2>2. \/ PrepareRead(id).calls = <<Seed("seed_file", "target", Payload(id))>>
        \/ PrepareRead(id).calls = <<Seed("checksum_failure_case", "target", Payload(id))>>
    BY DEF PrepareRead, SeedFile
  <2> QED
    BY <1>1, <2>1, <2>2
<1> QED
  BY <1>2, <1>3

\* The calls of the case; no two of them are for the same role.
Calls == {Case.calls[i] : i \in DOMAIN Case.calls}

CaseShape ==
    /\ Case.calls \in Seq(Calls)
    /\ \A c \in Calls : c.role \in CaseRoles
    /\ \A i, j \in DOMAIN Case.calls : Case.calls[i].role = Case.calls[j].role => i = j

\* Every default case is a sequence of calls for different roles.
LEMMA CaseIsShaped ==
    ASSUME request \in Requests
    PROVE  CaseShape
<1> DEFINE C == Case.calls
           id == request.check
<1>1. id \in WriteRequestIds \cup CopyRequestIds \cup DeleteRequestIds \cup ReadIds
  BY DEF Requests, ReadIds
<1>2. ASSUME NEW a, C = <<a>>, a.role \in CaseRoles PROVE CaseShape
  BY <1>2 DEF CaseShape, Calls
<1>3. ASSUME NEW a, NEW b, C = <<a, b>>, a.role \in CaseRoles, b.role \in CaseRoles, a.role # b.role
      PROVE  CaseShape
  BY <1>3 DEF CaseShape, Calls
<1>4. ASSUME NEW a, NEW b, NEW c, NEW d, C = <<a, b, c, d>>,
             a.role = "source", b.role = "sourceSub", c.role = "sourceChild", d.role = "target"
      PROVE  CaseShape
  BY <1>4 DEF CaseShape, Calls, CaseRoles
<1>5. /\ MapPath.role = "target"
      /\ \A r, x : SeedFile(r, x).role = r /\ SeedDirectory(r).role = r
      /\ \A h, r, x : Seed(h, r, x).role = r
  BY DEF MapPath, SeedFile, SeedDirectory, Seed
<1>6. "source" \in CaseRoles /\ "target" \in CaseRoles /\ "source" # "target"
  BY DEF CaseRoles
<1>7. CASE id \in WriteRequestIds
  <2>1. id \in CreationIds \cup ConditionalIds \cup ExistingIds
    BY <1>7, Shapes
  <2>2. \E a : C = <<a>> /\ a.role = "target"
    BY <1>5, <1>7, <2>1, WriteCase DEF Undefined
  <2> QED
    BY <1>2, <1>6, <2>2
<1>8. CASE id \in CopyRequestIds
  <2>1. CASE id = "CopyServerSide"
    BY <1>2, <1>5, <1>6, <1>8, <2>1, CopyCase
  <2>2. CASE id = "CopyFallbackOverwriteRejected"
    BY <1>3, <1>5, <1>6, <1>8, <2>2, CopyCase
  <2>3. CASE id \in PlainCopyIds
    BY <1>3, <1>5, <1>6, <1>8, <2>3, CopyCase
  <2>4. CASE id \in TreeCopyIds
    BY <1>4, <1>5, <1>8, <2>4, CopyCase
  <2> QED
    BY <1>8, <2>1, <2>2, <2>3, <2>4, Shapes
<1>9. CASE id \in DeleteRequestIds \cup ReadIds
  BY <1>2, <1>5, <1>6, <1>9, TargetCase
<1> QED
  BY <1>1, <1>7, <1>8, <1>9

-----------------------------------------------------------------------------
(* The invariant.                                                          *)

\* How many calls have been made.
Progress == Len(Case.calls) - Len(calls)

\* The remaining calls are the end of the case's calls.
Remaining ==
    /\ calls \in Seq(Calls) /\ Progress \in Nat
    /\ \A j \in 1 .. Len(calls) : calls[j] = Case.calls[Progress + j]

\* What was seeded, and nothing else, is visible.
Visible ==
    /\ DOMAIN contents = CaseRoles
    /\ \A i \in 1 .. Progress :
          /\ contents[Case.calls[i].role] = Case.calls[i].content
          /\ Case.calls[i].hook \in Hooks \cup {"path"}
    /\ \A r \in CaseRoles : contents[r] = Absent \/ \E i \in 1 .. Progress : Case.calls[i].role = r

Answers == {"pending", "Ready", "Unavailable", "Error", "accepted", "rejected"}
TypeInv ==
    /\ request \in Requests /\ limit \in Nat /\ supports \subseteq Hooks
    /\ answer \in Answers
ReadyInv == answer \in {"Ready", "accepted", "rejected"} => calls = <<>>
WorldInv == answer # "Error" => Remaining /\ Visible
VetInv == answer # "rejected"
IInv == TypeInv /\ ReadyInv /\ WorldInv /\ VetInv

-----------------------------------------------------------------------------
(* What a ready case looks like.                                           *)

\* Every call of a ready case is visible.
LEMMA ReadyWorld ==
    ASSUME request \in Requests, Remaining, Visible, calls = <<>>
    PROVE  /\ \A i \in 1 .. Len(Case.calls) :
                 /\ contents[Case.calls[i].role] = Case.calls[i].content
                 /\ Case.calls[i].hook \in Hooks \cup {"path"}
           /\ \A r \in CaseRoles :
                 (\A i \in 1 .. Len(Case.calls) : Case.calls[i].role # r) => contents[r] = Absent
<1>1. Len(Case.calls) \in Nat
  BY CaseIsShaped DEF CaseShape
<1>2. Progress = Len(Case.calls)
  BY <1>1 DEF Progress
<1> QED
  BY <1>2 DEF Visible

\* A ready write: its target, and that it was not one without preparation.
LEMMA ReadyWrite ==
    ASSUME request \in Requests, Remaining, Visible, calls = <<>>,
           request.check \in WriteRequestIds
    PROVE  \/ request.check \in CreationIds /\ contents["target"] = Absent
           \/ request.check \in ExistingIds /\ contents["target"] = Existing(request.check)
<1> DEFINE id == request.check
<1>1. id \in CreationIds \cup ConditionalIds \cup ExistingIds
  BY Shapes
<1>2. ASSUME NEW a, Case.calls = <<a>>
      PROVE  contents[a.role] = a.content /\ a.hook \in Hooks \cup {"path"}
  BY <1>2, ReadyWorld
<1>3. CASE id \in CreationIds
  BY <1>2, <1>3, WriteCase DEF MapPath, Seed
<1>4. CASE id \in ExistingIds
  BY <1>2, <1>4, WriteCase DEF SeedFile, Seed
<1>5. CASE id \in ConditionalIds
  BY <1>2, <1>5, WriteCase DEF Undefined, Seed, Hooks
<1> QED
  BY <1>1, <1>3, <1>4, <1>5

\* A ready copy: its source, and its target.
LEMMA ReadyCopy ==
    ASSUME request \in Requests, Remaining, Visible, calls = <<>>,
           request.check \in CopyRequestIds
    PROVE  /\ request.check \notin TreeCopyIds => contents["source"] = Payload(request.check)
           /\ request.check \in TreeCopyIds =>
                 /\ contents["source"] = Dir /\ contents["sourceSub"] = Dir
                 /\ contents["sourceChild"] = Payload(request.check)
           /\ contents["target"] = IF request.check = "CopyFallbackOverwriteRejected"
                                THEN Bytes("existing", 8) ELSE Absent
<1> DEFINE id == request.check
           C == Case.calls
<1>0. "target" \in CaseRoles
  BY DEF CaseRoles
<1>1. CASE id = "CopyServerSide"
  <2>1. C = <<Seed("copy_fast_path_case", "source", Payload(id))>> /\ id \notin TreeCopyIds
    BY <1>1, CopyCase DEF TreeCopyIds
  <2>2. /\ contents[C[1].role] = C[1].content
        /\ C[1].role # "target" => contents["target"] = Absent
    BY <1>0, <2>1, ReadyWorld
  <2> QED
    BY <1>1, <2>1, <2>2 DEF Seed
<1>2. CASE id \in PlainCopyIds \cup {"CopyFallbackOverwriteRejected"}
  <2>1. /\ id \notin TreeCopyIds
        /\ C = <<SeedFile("source", Payload(id)),
                 IF id = "CopyFallbackOverwriteRejected"
                 THEN SeedFile("target", Bytes("existing", 8)) ELSE MapPath>>
    BY <1>2, CopyCase DEF TreeCopyIds, PlainCopyIds
  <2>2. contents[C[1].role] = C[1].content /\ contents[C[2].role] = C[2].content
    BY <2>1, ReadyWorld
  <2> QED
    BY <1>2, <2>1, <2>2 DEF SeedFile, MapPath, Seed
<1>3. CASE id \in TreeCopyIds
  <2>1. /\ id # "CopyFallbackOverwriteRejected"
        /\ C = <<SeedDirectory("source"), SeedDirectory("sourceSub"),
                 SeedFile("sourceChild", Payload(id)), MapPath>>
    BY <1>3, CopyCase DEF TreeCopyIds
  <2>2. /\ contents[C[1].role] = C[1].content /\ contents[C[2].role] = C[2].content
        /\ contents[C[3].role] = C[3].content /\ contents[C[4].role] = C[4].content
    BY <2>1, ReadyWorld
  <2> QED
    BY <1>3, <2>1, <2>2 DEF SeedDirectory, SeedFile, MapPath, Seed
<1> QED
  BY <1>1, <1>2, <1>3, Shapes

\* A ready delete or read.
LEMMA ReadyTarget ==
    ASSUME request \in Requests, Remaining, Visible, calls = <<>>,
           request.check \in DeleteRequestIds \cup ReadIds
    PROVE  contents["target"] = Payload(request.check)
<1>1. PICK hook \in Hooks : Case.calls = <<Seed(hook, "target", Payload(request.check))>>
  BY TargetCase
<1>2. contents[Case.calls[1].role] = Case.calls[1].content
  BY <1>1, ReadyWorld
<1> QED
  BY <1>1, <1>2 DEF Seed

-----------------------------------------------------------------------------
(* The vetting.                                                            *)

\* A payload is neither longer than its text nor the content seeded before it.
LEMMA WritePayload ==
    ASSUME limit \in Nat
    PROVE  /\ Payload("WriteReplace").length \in 0 .. 3
           /\ Payload("WriteCreateConflict") # Bytes("a", 1)
           /\ Payload("WriteAtomicReplaceExisting") # Bytes("a", 1)
<1>1. /\ Payload("WriteReplace") = Filled("new", 3, "n")
      /\ Payload("WriteCreateConflict") = Filled("unexpected", 10, "u")
      /\ Payload("WriteAtomicReplaceExisting") = Filled("b", 1, "b")
  BY DEF Payload, OwningWriteIds, ReadCapability
<1>2. Filled("new", 3, "n").length \in 0 .. 3
  <2>1. CASE 3 <= limit
    BY <2>1 DEF Filled, Bytes
  <2>2. CASE ~(3 <= limit)
    BY <2>2 DEF Filled, Bytes
  <2> QED
    BY <2>1, <2>2
<1>3. Bytes("a", 1).text = "a"
  BY DEF Bytes
<1>4. Filled("unexpected", 10, "u").text # "a"
  <2>1. CASE 10 <= limit
    BY <2>1 DEF Filled, Bytes
  <2>2. CASE ~(10 <= limit)
    BY <2>2 DEF Filled, Bytes
  <2> QED
    BY <2>1, <2>2
<1>5. Filled("b", 1, "b").text # "a"
  <2>1. CASE 1 <= limit
    BY <2>1 DEF Filled, Bytes
  <2>2. CASE ~(1 <= limit)
    BY <2>2 DEF Filled, Bytes
  <2> QED
    BY <2>1, <2>2
<1> QED
  BY <1>1, <1>2, <1>3, <1>4, <1>5

\* A ready write case is what its check compares it with.
LEMMA ReadyWriteVetted ==
    ASSUME request \in Requests, limit \in Nat, Remaining, Visible, calls = <<>>,
           request.check \in WriteRequestIds
    PROVE  VettedWrite(request.check, Case.options)
<1> DEFINE id == request.check
           o == PrepareWrite(id).options
<1>1. Case.options = o
  BY WriteCase
<1>2. CASE id \in CreationIds /\ contents["target"] = Absent
  BY <1>1, <1>2 DEF VettedWrite, PrepareWrite, CreationIds, OwningWriteIds, Default
<1>3. CASE id \in ExistingIds /\ contents["target"] = Existing(id)
  <2>1. CASE id = "WriteReplace"
    <3>1. o.disposition = "CreateOrReplace"
      BY <2>1 DEF PrepareWrite, Default
    <3>2. contents["target"].length = 17
      <4>1. contents["target"] = Bytes("previous contents", 17)
        <5>1. Existing("WriteReplace") = Bytes("previous contents", 17)
          BY DEF Existing
        <5> QED
          BY <1>3, <2>1, <5>1
      <4>2. \A text, n : Bytes(text, n).length = n
        BY DEF Bytes
      <4>3. Bytes("previous contents", 17).length = 17
        BY <4>2, Zenon
      <4> QED
        BY <4>1, <4>3, Zenon
    <3>3. contents["target"].length > Payload(id).length
      BY <2>1, <3>2, WritePayload
    <3> QED
      BY <1>1, <2>1, <3>1, <3>3 DEF VettedWrite
  <2>2. CASE id = "WriteCreateConflict"
    <3>1. o.disposition = "CreateNew" /\ contents["target"] = Bytes("a", 1)
      BY <1>3, <2>2 DEF PrepareWrite, Default, Existing
    <3> QED
      BY <1>1, <2>2, <3>1, WritePayload DEF VettedWrite
  <2>3. CASE id = "AppendBasic"
    <3>1. o.disposition = "Append" /\ contents["target"].length = 6 /\ Empty.length = 0
      BY <1>3, <2>3 DEF PrepareWrite, Default, Existing, Bytes, Empty
    <3> QED
      BY <1>1, <2>3, <3>1 DEF VettedWrite
  <2>4. CASE id = "WriteAtomicReplaceExisting"
    <3>1. /\ o.disposition = "CreateOrReplace" /\ o.atomic
          /\ contents["target"] = Bytes("a", 1) /\ Bytes("a", 1) # Absent
      BY <1>3, <2>4 DEF PrepareWrite, Default, Existing, Bytes, Absent
    <3> QED
      BY <1>1, <2>4, <3>1, WritePayload DEF VettedWrite
  <2> QED
    BY <1>3, <2>1, <2>2, <2>3, <2>4 DEF ExistingIds
<1> QED
  BY <1>2, <1>3, ReadyWrite

\* A ready copy case is what its check compares it with.
LEMMA ReadyCopyVetted ==
    ASSUME request \in Requests, Remaining, Visible, calls = <<>>,
           request.check \in CopyRequestIds
    PROVE  VettedCopy(request.check, Case.options)
<1> DEFINE id == request.check
           o == PrepareCopy(id).options
<1>1. Case.options = o
  BY CopyCase
<1>2. CASE id = "CopyServerSide"
  BY <1>1, <1>2, ReadyCopy DEF VettedCopy, PrepareCopy, CopyOptions, TreeCopyIds
<1>3. CASE id = "CopyFallbackOverwriteRejected"
  BY <1>1, <1>3, ReadyCopy DEF VettedCopy, PrepareCopy, CopyOptions, TreeCopyIds
<1>4. CASE id \in {"CopyBasic", "CopyRepeatedExecute"}
  <2>1. o = Required(id, CopyOptions("file"))
    BY <1>4 DEF PrepareCopy, TreeCopyIds
  <2>2. Required(id, CopyOptions("file")) = CopyOptions("file")
    <3>1. /\ (id \in {"CopyAtomicFile", "CopyAtomicTree"}) = FALSE
          /\ (id \in {"CopyDurableFile", "CopyDurableTree"}) = FALSE
      BY <1>4
    <3>2. CopyOptions("file").atomic = FALSE /\ CopyOptions("file").durable = FALSE
      BY DEF CopyOptions
    <3> QED
      BY <3>1, <3>2 DEF Required, CopyOptions
  <2> QED
    BY <1>1, <1>4, <2>1, <2>2, ReadyCopy DEF VettedCopy, TreeCopyIds
<1>5. CASE id \in {"CopyAtomicFile", "CopyDurableFile"}
  <2>1. o = Required(id, CopyOptions("file"))
    BY <1>5 DEF PrepareCopy, TreeCopyIds
  <2> QED
    BY <1>1, <1>5, <2>1, ReadyCopy DEF VettedCopy, TreeCopyIds
<1>6. CASE id \in TreeCopyIds
  <2>1. o = Required(id, CopyOptions("tree"))
    BY <1>6 DEF PrepareCopy, TreeCopyIds
  <2>2. Dir # Absent /\ id # "CopyFallbackOverwriteRejected"
    BY <1>6 DEF Dir, Absent, TreeCopyIds
  <2>3. /\ contents["source"] = Dir /\ contents["sourceSub"] = Dir
        /\ contents["sourceChild"] = Payload(id) /\ contents["target"] = Absent
    BY <1>6, <2>2, ReadyCopy
  <2> QED
    BY <1>1, <1>6, <2>1, <2>2, <2>3 DEF VettedCopy, TreeCopyIds
<1> QED
  BY <1>2, <1>3, <1>4, <1>5, <1>6, Shapes DEF PlainCopyIds

\* A ready default case is never rejected.
LEMMA ReadyIsVetted ==
    ASSUME request \in Requests, limit \in Nat, Remaining, Visible, calls = <<>>
    PROVE  Vetted(request.check)
<1> DEFINE id == request.check
<1>1. id \in WriteRequestIds \cup CopyRequestIds \cup DeleteRequestIds \cup ReadIds
  BY DEF Requests, ReadIds
<1>2. CASE id \in WriteRequestIds
  BY <1>2, Families, ReadyWriteVetted DEF Vetted
<1>3. CASE id \in CopyRequestIds
  BY <1>3, Families, ReadyCopyVetted DEF Vetted
<1>4. CASE id \in DeleteRequestIds
  BY <1>4, Families, ReadyTarget DEF Vetted
<1>5. CASE id \in ReadIds
  BY <1>5, Families DEF Vetted
<1> QED
  BY <1>1, <1>2, <1>3, <1>4, <1>5

-----------------------------------------------------------------------------
(* The invariant is inductive.                                             *)

\* Before the first call nothing is seeded and every call remains.
LEMMA InitHolds == CaseInit => IInv
<1> SUFFICES ASSUME CaseInit PROVE IInv
  OBVIOUS
<1>1. TypeInv /\ ReadyInv /\ VetInv
  BY WriteLimitsAssumption DEF CaseInit, TypeInv, ReadyInv, VetInv, Answers
<1>2. CaseShape
  BY <1>1, CaseIsShaped DEF TypeInv
<1>3. Len(Case.calls) \in Nat /\ calls = Case.calls
  BY <1>2 DEF CaseShape, CaseInit
<1>4. Progress = 0
  BY <1>3 DEF Progress
<1>5. Remaining
  BY <1>2, <1>3, <1>4 DEF Remaining, CaseShape
<1>6. Visible
  BY <1>4 DEF Visible, CaseInit
<1> QED
  BY <1>1, <1>5, <1>6 DEF IInv, WorldInv

\* The case depends on the request and the limit alone.
LEMMA CaseStays ==
    ASSUME request' = request, limit' = limit
    PROVE  Case' = Case /\ Calls' = Calls
<1>1. \A id : Payload(id)' = Payload(id)
  BY DEF Payload, Filled, Prefix
<1>2. \A id : PrepareCopy(id)' = PrepareCopy(id)
  BY <1>1, Zenon DEF PrepareCopy
<1>3. \A id : PrepareDelete(id)' = PrepareDelete(id) /\ PrepareRead(id)' = PrepareRead(id)
  BY <1>1, Zenon DEF PrepareDelete, PrepareRead
<1>4. \A id, mode : DefaultCase(id, mode)' = DefaultCase(id, mode)
  BY <1>2, <1>3, Zenon DEF DefaultCase, SyncPrepareCopy, SyncPrepareDelete, SyncPrepareRead
<1>5. Case' = Case
  BY <1>4, Zenon DEF Case
<1> QED
  BY <1>5 DEF Calls

\* A supported call is made.
LEMMA CallSeeds ==
    ASSUME IInv, answer = "pending", calls # <<>>,
           request' = request, limit' = limit,
           Supported(Head(calls)), calls' = Tail(calls),
           contents' = [contents EXCEPT ![Head(calls).role] = Head(calls).content]
    PROVE  Remaining' /\ Visible'
<1> DEFINE C == Case.calls
           p == Progress
           c == Head(calls)
<1>1. /\ CaseShape /\ Remaining /\ Visible /\ supports \subseteq Hooks
      /\ Case' = Case /\ Calls' = Calls
  BY CaseIsShaped, CaseStays DEF IInv, TypeInv, WorldInv
<1>2. /\ C \in Seq(Calls) /\ calls \in Seq(Calls) /\ p \in Nat /\ Len(calls) \in Nat \ {0}
      /\ Len(C) = p + Len(calls) /\ p + 1 \in 1 .. Len(C)
  BY <1>1 DEF CaseShape, Remaining, Progress
<1>3. /\ calls' \in Seq(Calls) /\ Len(calls') = Len(calls) - 1
      /\ \A j \in 1 .. Len(calls') : calls'[j] = calls[j + 1]
      /\ c = calls[1]
  BY <1>2
<1>4. Progress' = p + 1
  BY <1>1, <1>2, <1>3 DEF Progress
<1>5. c = C[p + 1] /\ c.role \in CaseRoles
  BY <1>1, <1>2, <1>3 DEF Remaining, CaseShape, Calls
<1>6. Remaining'
  <2>1. ASSUME NEW j \in 1 .. Len(calls') PROVE calls'[j] = C[p + 1 + j]
    <3>1. j + 1 \in 1 .. Len(calls) /\ p + (j + 1) = p + 1 + j
      BY <1>2, <1>3
    <3> QED
      BY <1>1, <1>3, <3>1 DEF Remaining
  <2> QED
    BY <1>1, <1>2, <1>3, <1>4, <2>1 DEF Remaining
<1>7. Visible'
  <2>1. DOMAIN contents' = CaseRoles
    BY <1>1 DEF Visible
  <2>2. c.hook \in Hooks \cup {"path"}
    BY <1>1 DEF Supported
  <2>3. ASSUME NEW i \in 1 .. p + 1
        PROVE  contents'[C[i].role] = C[i].content /\ C[i].hook \in Hooks \cup {"path"}
    <3>1. CASE i = p + 1
      BY <1>1, <1>5, <2>2, <3>1 DEF Visible
    <3>2. CASE i \in 1 .. p
      <4>1. i \in DOMAIN C /\ p + 1 \in DOMAIN C /\ i # p + 1
        BY <1>2, <3>2
      <4>2. C[i].role # c.role /\ C[i].role \in CaseRoles
        BY <1>1, <1>5, <4>1 DEF CaseShape, Calls
      <4> QED
        BY <1>1, <3>2, <4>2 DEF Visible
    <3> QED
      BY <1>2, <3>1, <3>2
  <2>4. ASSUME NEW r \in CaseRoles
        PROVE  contents'[r] = Absent \/ \E i \in 1 .. p + 1 : C[i].role = r
    <3>1. CASE r = c.role
      BY <1>2, <1>5, <3>1
    <3>2. CASE r # c.role
      <4>1. contents'[r] = contents[r]
        BY <1>1, <3>2 DEF Visible
      <4>2. contents[r] = Absent \/ \E i \in 1 .. p : C[i].role = r
        BY <1>1 DEF Visible
      <4>3. \A i \in 1 .. p : i \in 1 .. p + 1
        BY <1>2
      <4> QED
        BY <4>1, <4>2, <4>3
    <3> QED
      BY <3>1, <3>2
  <2> QED
    BY <1>1, <1>4, <2>1, <2>3, <2>4 DEF Visible
<1> QED
  BY <1>6, <1>7

\* Nothing is called.
LEMMA CallsStay ==
    ASSUME UNCHANGED <<request, limit, calls, contents>>, Remaining, Visible
    PROVE  Remaining' /\ Visible'
<1>1. Case' = Case /\ Calls' = Calls
  BY CaseStays
<1>2. Progress' = Progress
  BY <1>1 DEF Progress
<1> QED
  BY <1>1, <1>2 DEF Remaining, Visible

\* Every step of the hook and of the check keeps the invariant.
LEMMA StepHolds == IInv /\ [CaseNext]_caseVars => IInv'
<1> SUFFICES ASSUME IInv, [CaseNext]_caseVars PROVE IInv'
  OBVIOUS
<1>1. CASE CallHook
  <2> DEFINE c == Head(calls)
             seeded == [contents EXCEPT ![c.role] = c.content]
  <2>1. /\ answer = "pending" /\ calls # <<>> /\ UNCHANGED <<request, limit, supports>>
        /\ \/ Supported(c) /\ contents' = seeded /\ calls' = Tail(calls) /\ UNCHANGED answer
           \/ answer' = "Unavailable" /\ UNCHANGED <<calls, contents>>
           \/ answer' = "Error"
    BY <1>1 DEF CallHook
  <2>2. Remaining /\ Visible /\ TypeInv
    BY <2>1 DEF IInv, WorldInv
  <2>3. TypeInv' /\ ReadyInv' /\ VetInv'
    BY <2>1, <2>2 DEF TypeInv, ReadyInv, VetInv, Answers
  <2>4. answer' # "Error" => Remaining' /\ Visible'
    BY <2>1, <2>2, CallSeeds, CallsStay
  <2> QED
    BY <2>3, <2>4 DEF IInv, WorldInv
<1>2. CASE AnswerReady
  <2>1. /\ answer = "pending" /\ calls = <<>> /\ answer' = "Ready"
        /\ UNCHANGED <<request, limit, supports, calls, contents>>
    BY <1>2 DEF AnswerReady
  <2>2. Remaining' /\ Visible'
    BY <2>1, CallsStay DEF IInv, WorldInv
  <2>3. TypeInv' /\ ReadyInv' /\ VetInv'
    BY <2>1 DEF IInv, TypeInv, ReadyInv, VetInv, Answers
  <2> QED
    BY <2>2, <2>3 DEF IInv, WorldInv
<1>3. CASE VetCase
  <2>1. /\ answer = "Ready" /\ calls = <<>>
        /\ answer' = IF Vetted(request.check) THEN "accepted" ELSE "rejected"
        /\ UNCHANGED <<request, limit, supports, calls, contents>>
    BY <1>3 DEF VetCase, IInv, ReadyInv
  <2>2. Remaining /\ Visible /\ request \in Requests /\ limit \in Nat
    BY <2>1 DEF IInv, WorldInv, TypeInv
  <2>3. Remaining' /\ Visible'
    BY <2>1, <2>2, CallsStay
  <2>4. request' \in Requests /\ limit' \in Nat /\ calls' = <<>>
    BY <2>1, <2>2
  <2>5. answer' = "accepted"
    BY <2>1, <2>2, ReadyIsVetted
  <2>6. TypeInv' /\ ReadyInv' /\ VetInv'
    BY <2>1, <2>4, <2>5 DEF IInv, TypeInv, ReadyInv, VetInv, Answers
  <2> QED
    BY <2>3, <2>6 DEF IInv, WorldInv
<1>4. CASE UNCHANGED caseVars
  <2>1. UNCHANGED <<request, limit, supports, calls, contents, answer>>
    BY <1>4 DEF caseVars
  <2>2. answer # "Error" => Remaining' /\ Visible'
    BY <2>1, CallsStay DEF IInv, WorldInv
  <2> QED
    BY <2>1, <2>2 DEF IInv, TypeInv, ReadyInv, WorldInv, VetInv
<1> QED
  BY <1>1, <1>2, <1>3, <1>4 DEF CaseNext

\* The invariant holds throughout.
LEMMA InvariantHolds == CaseSpec => []IInv
  BY InitHolds, StepHolds, PTL DEF CaseSpec

-----------------------------------------------------------------------------
(* The evidence.                                                           *)

\* No payload of a creation looks like an absent target.
LEMMA CreationPayload ==
    ASSUME limit \in Nat, request.check \in CreationIds
    PROVE  Payload(request.check) # Absent
<1> DEFINE id == request.check
<1>1. \E text, letter, n : /\ Payload(id) = Filled(text, n, letter)
                           /\ text # "absent" /\ letter # "absent"
  <2>1. CASE id = "WriteBasic"
    BY <2>1 DEF Payload, OwningWriteIds, ReadCapability
  <2>2. CASE id = "WriteAbort"
    <3>1. Payload(id) = Filled("aborted", 7, "a")
      BY <2>2 DEF Payload, OwningWriteIds, ReadCapability
    <3> QED
      BY <3>1
  <2>3. CASE id = "WriteDurable"
    <3>1. Payload(id) = Filled("b", 1, "b")
      BY <2>3 DEF Payload, OwningWriteIds, ReadCapability
    <3> QED
      BY <3>1
  <2>4. CASE id \in OwningWriteIds
    <3>1. Payload(id) = Filled("owning write", 12, "o")
      BY <2>4 DEF Payload, OwningWriteIds, ReadCapability
    <3>2. "owning write" # "absent" /\ "o" # "absent"
      OBVIOUS
    <3> QED
      BY <3>1, <3>2, Zenon
  <2> QED
    BY <2>1, <2>2, <2>3, <2>4 DEF CreationIds
<1>2. \A text, n : text # "absent" => Bytes(text, n).text # "absent"
  BY DEF Bytes
<1>3. Payload(id).text # "absent"
  <2>1. PICK text, letter, n : /\ Payload(id) = Filled(text, n, letter)
                               /\ text # "absent" /\ letter # "absent"
    BY <1>1
  <2> QED
    BY <1>2, <2>1 DEF Filled
<1> QED
  BY <1>3 DEF Absent

\* An append shows, unless the write limit is zero.
LEMMA AppendPayload ==
    ASSUME limit \in Nat, limit # 0
    PROVE  Payload("AppendBasic") # Empty
<1>1. Payload("AppendBasic") = Filled("-after", 6, "a")
  BY DEF Payload, OwningWriteIds, ReadCapability
<1>2. Filled("-after", 6, "a").length # 0
  <2>1. CASE 6 <= limit
    BY <2>1 DEF Filled, Bytes
  <2>2. CASE ~(6 <= limit)
    BY <2>2 DEF Filled, Bytes
  <2> QED
    BY <2>1, <2>2
<1>3. Empty.length = 0
  BY DEF Empty, Bytes
<1> QED
  BY <1>1, <1>2, <1>3

\* Every accepted default write case lets the observation tell whether the
\* write published, for every write limit except an append limited to nothing.
THEOREM EvidenceTheorem == CaseSpec => []EvidenceDistinguishes
<1>1. IInv => EvidenceDistinguishes
  <2> SUFFICES ASSUME IInv, answer = "accepted", request.check \in WriteRequestIds
               PROVE  Publishes # Untouched \/ (Appends /\ limit = 0)
    BY DEF EvidenceDistinguishes
  <2>1. request \in Requests /\ limit \in Nat /\ Remaining /\ Visible /\ calls = <<>>
    BY DEF IInv, TypeInv, ReadyInv, WorldInv
  <2>2. CASE request.check = "AppendBasic"
    BY <2>1, <2>2, AppendPayload DEF Appends, Publishes, Untouched
  <2>3. CASE request.check # "AppendBasic"
    <3>1. Payload(request.check) # contents["target"]
      <4>1. CASE request.check \in CreationIds /\ contents["target"] = Absent
        BY <2>1, <4>1, CreationPayload
      <4>2. CASE request.check \in ExistingIds /\ contents["target"] = Existing(request.check)
        <5>1. CASE request.check = "WriteReplace"
          <6>1. Existing("WriteReplace").length = 17
            <7>1. Existing("WriteReplace") = Bytes("previous contents", 17)
              BY DEF Existing
            <7>2. \A text, n : Bytes(text, n).length = n
              BY DEF Bytes
            <7> QED
              BY <7>1, <7>2, Zenon
          <6> QED
            BY <2>1, <4>2, <5>1, <6>1, WritePayload
        <5>2. CASE request.check \in {"WriteCreateConflict", "WriteAtomicReplaceExisting"}
          <6>1. Existing(request.check) = Bytes("a", 1)
            BY <5>2 DEF Existing
          <6> QED
            BY <2>1, <4>2, <5>2, <6>1, WritePayload
        <5> QED
          BY <2>3, <4>2, <5>1, <5>2 DEF ExistingIds
      <4> QED
        BY <2>1, <4>1, <4>2, ReadyWrite
    <3> QED
      BY <2>3, <3>1 DEF Appends, Publishes, Untouched
  <2> QED
    BY <2>2, <2>3
<1> QED
  BY <1>1, InvariantHolds, PTL

-----------------------------------------------------------------------------
(* What the program of a check takes for granted.                          *)

\* The first preparation of a program is its step k.
Prepares(id, k, seed) ==
    LET steps == ProgramOf(id).sections[1]
    IN  /\ k \in DOMAIN steps
        /\ steps[k].kind = "prepare" /\ steps[k].seed = seed
        /\ \A j \in 1 .. k - 1 : steps[j].kind # "prepare"

\* What that step seeds is what the program takes for granted.
LEMMA PreparedSeed ==
    ASSUME NEW k \in Nat, NEW seed, Prepares(request.check, k, seed),
           DOMAIN ProgramOf(request.check).sections[1] \subseteq Nat \ {0}
    PROVE  Assumed = seed
<1> DEFINE steps == ProgramOf(request.check).sections[1]
           P(i) == steps[i].kind = "prepare" /\ \A j \in 1 .. i - 1 : steps[j].kind # "prepare"
<1>1. k \in DOMAIN steps /\ P(k) /\ steps[k].seed = seed
  BY DEF Prepares
<1>2. \A i \in DOMAIN steps : P(i) => i = k
  <2> SUFFICES ASSUME NEW i \in DOMAIN steps, P(i), i # k PROVE FALSE
    OBVIOUS
  <2>1. i \in Nat \ {0} /\ k \in Nat \ {0}
    BY <1>1
  <2>2. CASE i < k
    <3>1. i \in 1 .. k - 1
      BY <2>1, <2>2
    <3> QED
      BY <1>1, <3>1
  <2>3. CASE k < i
    <3>1. k \in 1 .. i - 1
      BY <2>1, <2>3
    <3> QED
      BY <1>1, <3>1
  <2> QED
    BY <2>1, <2>2, <2>3
<1> HIDE DEF P
<1>3. (CHOOSE i \in DOMAIN steps : P(i)) = k
  BY <1>1, <1>2
<1>4. Assumed = steps[CHOOSE i \in DOMAIN steps : P(i)].seed
  BY DEF Assumed, P
<1> QED
  BY <1>1, <1>3, <1>4

\* A sequence, of whatever.
IsSteps(s) == \E S : s \in Seq(S)

\* Tuples are sequences.
LEMMA Literals ==
    /\ IsSteps(<<>>)
    /\ \A a : IsSteps(<<a>>)
    /\ \A a, b : IsSteps(<<a, b>>)
    /\ \A a, b, c : IsSteps(<<a, b, c>>)
    /\ \A a, b, c, d : IsSteps(<<a, b, c, d>>)
    /\ \A a, b, c, d, e : IsSteps(<<a, b, c, d, e>>)
    /\ \A a, b, c, d, e, f : IsSteps(<<a, b, c, d, e, f>>)
<1>1. <<>> \in Seq({})
  OBVIOUS
<1>2. ASSUME NEW a PROVE <<a>> \in Seq({a})
  OBVIOUS
<1>3. ASSUME NEW a, NEW b PROVE <<a, b>> \in Seq({a, b})
  OBVIOUS
<1>4. ASSUME NEW a, NEW b, NEW c PROVE <<a, b, c>> \in Seq({a, b, c})
  OBVIOUS
<1>5. ASSUME NEW a, NEW b, NEW c, NEW d PROVE <<a, b, c, d>> \in Seq({a, b, c, d})
  OBVIOUS
<1>6. ASSUME NEW a, NEW b, NEW c, NEW d, NEW e
      PROVE  <<a, b, c, d, e>> \in Seq({a, b, c, d, e})
  OBVIOUS
<1>7. ASSUME NEW a, NEW b, NEW c, NEW d, NEW e, NEW f
      PROVE  <<a, b, c, d, e, f>> \in Seq({a, b, c, d, e, f})
  OBVIOUS
<1> QED
  BY <1>1, <1>2, <1>3, <1>4, <1>5, <1>6, <1>7 DEF IsSteps

\* The start of a concatenation.
LEMMA Joined ==
    ASSUME NEW p, NEW q, IsSteps(p), IsSteps(q)
    PROVE  /\ IsSteps(p \o q) /\ Len(p) \in Nat /\ Len(p \o q) = Len(p) + Len(q)
           /\ \A i \in 1 .. Len(p) : (p \o q)[i] = p[i]
<1>1. PICK S : p \in Seq(S)
  BY DEF IsSteps
<1>2. PICK T : q \in Seq(T)
  BY DEF IsSteps
<1>3. p \in Seq(S \cup T) /\ q \in Seq(S \cup T)
  BY <1>1, <1>2
<1>4. p \o q \in Seq(S \cup T)
  BY <1>3
<1> QED
  BY <1>3, <1>4 DEF IsSteps

\* Steps that start with a preparation.
Opens(steps, seed) ==
    /\ IsSteps(steps) /\ Len(steps) # 0
    /\ steps[1].kind = "prepare" /\ steps[1].seed = seed

\* More steps do not change the start.
LEMMA OpensOn ==
    ASSUME NEW p, NEW q, NEW seed, Opens(p, seed), IsSteps(q)
    PROVE  Opens(p \o q, seed)
<1>1. IsSteps(p) /\ Len(p) \in Nat \ {0} /\ Len(q) \in Nat
  BY DEF Opens, IsSteps
<1>2. IsSteps(p \o q) /\ Len(p \o q) # 0 /\ (p \o q)[1] = p[1]
  BY <1>1, Joined
<1> QED
  BY <1>2 DEF Opens

\* A program that starts with a preparation takes its seed for granted.
LEMMA OpensWith ==
    ASSUME NEW seed, Opens(ProgramOf(request.check).sections[1], seed)
    PROVE  Assumed = seed
<1> DEFINE steps == ProgramOf(request.check).sections[1]
<1>1. DOMAIN steps = 1 .. Len(steps) /\ Len(steps) \in Nat \ {0}
  BY DEF Opens, IsSteps
<1>2. Prepares(request.check, 1, seed)
  BY <1>1 DEF Opens, Prepares
<1> QED
  BY <1>1, <1>2, PreparedSeed

\* The steps of a program of one section.
LEMMA Sections == \A p, o, w : Check(p, o, w).sections[1] = p
  BY DEF Check, Program

\* The writes.
LEMMA WriteOpens ==
    ASSUME NEW content
    PROVE  /\ Opens(RecordedCase(content), [target |-> content])
           /\ Opens(VettedCase(content), [target |-> content])
<1>1. IsSteps(RecordedCase(content)) /\ IsSteps(VettedCase(content))
  BY Literals DEF RecordedCase, VettedCase
<1>2. /\ Len(RecordedCase(content)) = 2
      /\ RecordedCase(content)[1] = Prepare([target |-> content], "Unverified")
      /\ Len(VettedCase(content)) = 3
      /\ VettedCase(content)[1] = Unrecorded([target |-> content], "Unverified")
  BY DEF RecordedCase, VettedCase
<1>3. \A seed, unready :
         /\ Prepare(seed, unready).kind = "prepare" /\ Prepare(seed, unready).seed = seed
         /\ Unrecorded(seed, unready).kind = "prepare" /\ Unrecorded(seed, unready).seed = seed
  BY DEF Prepare, Unrecorded, PrepareOr
<1> QED
  BY <1>1, <1>2, <1>3 DEF Opens

\* Every write check prepares before it does anything else.
LEMMA WriteSeed ==
    ASSUME request.check \in CreationIds \cup ExistingIds
    PROVE  /\ request.check \in CreationIds => Assumed = [target |-> "absent"]
           /\ request.check \in ExistingIds => Assumed = [target |-> "old"]
<1> DEFINE id == request.check
           program == WriteCheck(id, WriteCapabilities)
           created == [target |-> "absent"]
           existing == [target |-> "old"]
<1>1. ProgramOf(id) = program
  <2>1. id \in WriteRequestIds
    BY Shapes
  <2> QED
    BY <2>1, Families DEF ProgramOf
<1>2. /\ "Write" \in WriteCapabilities /\ "Append" \in WriteCapabilities
      /\ "AtomicReplace" \in WriteCapabilities /\ "DurableWrite" \in WriteCapabilities
  BY DEF WriteCapabilities
<1>3. CASE id = "WriteBasic"
  <2>1. program = WriteBasic(WriteCapabilities)
    BY <1>2, <1>3 DEF WriteCheck
  <2>2. Opens(program.sections[1], created)
    BY <1>2, <2>1, Sections, WriteOpens, OpensOn, Literals DEF WriteBasic
  <2> QED
    BY <1>1, <1>3, <2>2, OpensWith DEF ExistingIds
<1>4. CASE id = "WriteAbort"
  <2>1. program = WriteAbort(WriteCapabilities)
    BY <1>2, <1>4 DEF WriteCheck
  <2>2. Opens(program.sections[1], created)
    BY <2>1, Sections, WriteOpens, OpensOn, Literals DEF WriteAbort
  <2> QED
    BY <1>1, <1>4, <2>2, OpensWith DEF ExistingIds
<1>5. CASE id = "WriteDurable"
  <2>1. program = WriteGuarantee("DurableWrite", DurableCreation, WriteCapabilities)
    BY <1>2, <1>5 DEF WriteCheck
  <2>2. Opens(program.sections[1], created)
    BY <1>2, <2>1, Sections, WriteOpens, OpensOn, Literals DEF WriteGuarantee, DurableCreation
  <2> QED
    BY <1>1, <1>5, <2>2, OpensWith DEF ExistingIds
<1>6. CASE id \in OwningWriteIds
  <2>1. program = WriteOwning(id, WriteCapabilities)
    BY <1>2, <1>6 DEF WriteCheck, OwningWriteIds
  <2> DEFINE p == VettedCase("absent") \o <<WriteAll("new"), Published("new")>>
             q == IF id = "WriteOwningOperation" THEN <<>>
                  ELSE <<RefuseOn({"target"}, {}, {"target"}, {}, FALSE), Published("new")>>
  <2>2. Opens(p, created) /\ IsSteps(q)
    BY WriteOpens, OpensOn, Literals
  <2>3. program = Check(p \o q, "Passed", Holds("new"))
    BY <1>2, <2>1, Zenon DEF WriteOwning
  <2> HIDE DEF p, q, program
  <2>4. program.sections[1] = p \o q
    BY <2>3, Sections
  <2> QED
    BY <1>1, <1>6, <2>2, <2>4, OpensOn, OpensWith DEF ExistingIds, OwningWriteIds
<1>7. CASE id = "WriteCreateConflict"
  <2>1. program = WriteCreateConflict(WriteCapabilities)
    BY <1>2, <1>7 DEF WriteCheck
  <2>2. Opens(program.sections[1], existing)
    BY <2>1, Sections, WriteOpens, OpensOn, Literals DEF WriteCreateConflict, RefusedWrite
  <2> QED
    BY <1>1, <1>7, <2>2, OpensWith DEF CreationIds, OwningWriteIds
<1>8. CASE id = "WriteReplace"
  <2>1. program = WriteReplace(WriteCapabilities)
    BY <1>2, <1>8 DEF WriteCheck
  <2>2. Opens(program.sections[1], existing)
    BY <2>1, Sections, WriteOpens, OpensOn, Literals DEF WriteReplace
  <2> QED
    BY <1>1, <1>8, <2>2, OpensWith DEF CreationIds, OwningWriteIds
<1>9. CASE id = "AppendBasic"
  <2>1. program = AppendBasic(WriteCapabilities)
    BY <1>2, <1>9 DEF WriteCheck
  <2>2. Opens(program.sections[1], existing)
    BY <1>2, <2>1, Sections, WriteOpens, OpensOn, Literals DEF AppendBasic
  <2> QED
    BY <1>1, <1>9, <2>2, OpensWith DEF CreationIds, OwningWriteIds
<1>10. CASE id = "WriteAtomicReplaceExisting"
  <2>1. program = WriteGuarantee("AtomicReplace", AtomicReplacement, WriteCapabilities)
    BY <1>2, <1>10 DEF WriteCheck
  <2>2. Opens(program.sections[1], existing)
    BY <1>2, <2>1, Sections, WriteOpens, OpensOn, Literals DEF WriteGuarantee, AtomicReplacement
  <2> QED
    BY <1>1, <1>10, <2>2, OpensWith DEF CreationIds, OwningWriteIds
<1> QED
  BY <1>3, <1>4, <1>5, <1>6, <1>7, <1>8, <1>9, <1>10 DEF CreationIds, ExistingIds

\* The copies.
LEMMA CopySeed ==
    ASSUME request.check \in CopyRequestIds
    PROVE  /\ request.check \in PlainCopyIds \cup {"CopyServerSide"} =>
                 Assumed = Both("new", "absent")
           /\ request.check = "CopyFallbackOverwriteRejected" => Assumed = Both("new", "old")
           /\ request.check \in TreeCopyIds => Assumed = Tree("dir", "absent", "new", "absent")
<1> DEFINE id == request.check
           has == CopyPrerequisites \cup {"ServerSideCopy", "AtomicFileCopy",
                     "DurableFileCopy", "AtomicTreeCopy", "DurableTreeCopy"}
           program == CopyCheck(id, has)
<1>1. ProgramOf(id) = program
  BY Families DEF ProgramOf
<1>2. /\ CopyPrerequisites \subseteq has /\ "Copy" \in has /\ "ServerSideCopy" \in has
      /\ \A x \in {"AtomicFileCopy", "DurableFileCopy", "AtomicTreeCopy", "DurableTreeCopy"} :
            x \in has
  BY DEF CopyPrerequisites
<1>3. /\ CopyRenameCapability["CopyAtomicFile"] = "AtomicFileCopy"
      /\ CopyRenameCapability["CopyDurableFile"] = "DurableFileCopy"
      /\ CopyRenameCapability["CopyAtomicTree"] = "AtomicTreeCopy"
      /\ CopyRenameCapability["CopyDurableTree"] = "DurableTreeCopy"
  BY DEF CopyRenameCapability
<1> HIDE DEF has
<1>4. \A seed, records, x, y :
         /\ PrepareOr(seed, records, x, y).kind = "prepare"
         /\ PrepareOr(seed, records, x, y).seed = seed
  BY DEF PrepareOr
<1>5. Opens(StrongCopy, Both("new", "absent"))
  <2>1. IsSteps(StrongCopy)
    BY Literals DEF StrongCopy
  <2>2. Len(StrongCopy) = 5 /\ StrongCopy[1] = Prepare(Both("new", "absent"), "Unverified")
    BY DEF StrongCopy
  <2> QED
    BY <1>4, <2>1, <2>2 DEF Opens, Prepare
<1>6. CASE id = "CopyServerSide"
  <2>1. program.sections[1] = StrongCopy
    BY <1>2, <1>6, Sections DEF CopyCheck, CopyServerSide
  <2> QED
    BY <1>1, <1>5, <1>6, <2>1, OpensWith DEF TreeCopyIds
<1>7. CASE id \in {"CopyAtomicFile", "CopyDurableFile"}
  <2>1. program = StrongFileCopy(CopyRenameCapability[id], has)
    BY <1>7 DEF CopyCheck
  <2>2. program.sections[1] = StrongCopy
    BY <1>2, <1>3, <1>7, <2>1, Sections DEF StrongFileCopy, AvailableFileGuarantee
  <2> QED
    BY <1>1, <1>5, <1>7, <2>2, OpensWith DEF TreeCopyIds
<1>8. CASE id \in TreeCopyIds
  <2> DEFINE seed == Tree("dir", "absent", "new", "absent")
  <2>1. program = StrongTreeCopy(CopyRenameCapability[id], has)
    BY <1>8 DEF CopyCheck, TreeCopyIds
  <2>2. program.sections[1] = StrongTreeSteps
    BY <1>2, <1>3, <1>8, <2>1, Sections DEF StrongTreeCopy, TreeCopyIds
  <2>3. /\ IsSteps(StrongTreeSteps) /\ Len(StrongTreeSteps) = 6
        /\ StrongTreeSteps[1] = PrepareOr(seed, {"source", "target"}, "Unverified", "Unverified")
    BY Literals DEF StrongTreeSteps
  <2>4. Opens(StrongTreeSteps, seed)
    BY <1>4, <2>3 DEF Opens
  <2> QED
    BY <1>1, <1>8, <2>2, <2>4, OpensWith DEF TreeCopyIds, PlainCopyIds
<1>9. CASE id = "CopyFallbackOverwriteRejected"
  <2> DEFINE seed == Both("new", "old")
             p == <<Prepare(seed, "Unverified"), Vet, CopyContents(seed)>>
             F == "CopyFallbackOnly" \in has
             policies == p \o ConflictPolicy("Fail", F) \o ConflictPolicy("Skip", F)
                           \o ConflictPolicy("Overwrite", F)
  <2>1. program = CopyConflict(has)
    BY <1>9 DEF CopyCheck
  <2>2. program.sections[1] = policies
    <3>1. \E o, w : program = Check(policies, o, w)
      BY <1>2, <2>1, Zenon DEF CopyConflict, CopyConflictOf
    <3> HIDE DEF policies, program
    <3> QED
      BY <3>1, Sections
  <2>3. Opens(p, seed)
    BY <1>4, Literals DEF Opens, Prepare
  <2>4. \A x : IsSteps(ConflictPolicy(x, F))
    BY Literals DEF ConflictPolicy
  <2> HIDE DEF p, seed
  <2>5. Opens(policies, seed)
    BY <2>3, <2>4, OpensOn
  <2> QED
    BY <1>1, <1>9, <2>2, <2>5, OpensWith DEF seed, TreeCopyIds, PlainCopyIds
<1>10. CASE id \in {"CopyBasic", "CopyRepeatedExecute"}
  <2> DEFINE seed == Both("new", "absent")
             p == <<Path, Record({"target"})>>
             q == <<CopyContents([source |-> "new"])>>
             steps == p \o BasicCopyCase \o q \o BasicCopyExecution(id)
  <2>1. program = BasicCopy(id, has)
    BY <1>10 DEF CopyCheck
  <2>2. program.sections[1] = steps
    <3>1. program = Check(steps, "Passed", Copied)
      BY <1>2, <2>1, Zenon DEF BasicCopy
    <3> HIDE DEF steps, program
    <3> QED
      BY <3>1, Sections
  <2>3. /\ IsSteps(p) /\ Len(p) = 2 /\ p[1] = Path /\ p[2] = Record({"target"})
        /\ IsSteps(BasicCopyCase) /\ Len(BasicCopyCase) = 4
        /\ BasicCopyCase[1] = PrepareOr(seed, {"target"}, "Unverified", "Unverified")
        /\ IsSteps(q) /\ Len(q) = 1
    BY Literals DEF BasicCopyCase
  <2>4. IsSteps(BasicCopyExecution(id))
    BY Literals, Joined DEF BasicCopyExecution
  <2> HIDE DEF p, q
  <2>5. /\ IsSteps(p \o BasicCopyCase) /\ Len(p \o BasicCopyCase) = 6
        /\ (p \o BasicCopyCase)[1] = Path /\ (p \o BasicCopyCase)[2] = Record({"target"})
        /\ (p \o BasicCopyCase)[3] = BasicCopyCase[1]
    <3>1. 1 \in 1 .. Len(p) /\ 2 \in 1 .. Len(p) /\ 1 \in 1 .. Len(BasicCopyCase)
            /\ Len(p) + 1 = 3
      BY <2>3
    <3>2. /\ IsSteps(p \o BasicCopyCase) /\ Len(p \o BasicCopyCase) = Len(p) + Len(BasicCopyCase)
          /\ \A i \in 1 .. Len(p) : (p \o BasicCopyCase)[i] = p[i]
          /\ \A i \in 1 .. Len(BasicCopyCase) : (p \o BasicCopyCase)[Len(p) + i] = BasicCopyCase[i]
      <4>1. IsSteps(p) /\ IsSteps(BasicCopyCase)
        BY <2>3
      <4>2. IsSteps(p \o BasicCopyCase) /\ Len(p \o BasicCopyCase) = Len(p) + Len(BasicCopyCase)
        BY <4>1, Joined, Zenon
      <4>3. \A i \in 1 .. Len(p) : (p \o BasicCopyCase)[i] = p[i]
        BY <4>1, Joined, Zenon
      <4>4. \A i \in 1 .. Len(BasicCopyCase) :
               (p \o BasicCopyCase)[Len(p) + i] = BasicCopyCase[i]
        <5>1. PICK S : p \in Seq(S)
          BY <4>1 DEF IsSteps
        <5>2. PICK T : BasicCopyCase \in Seq(T)
          BY <4>1 DEF IsSteps
        <5>3. p \in Seq(S \cup T) /\ BasicCopyCase \in Seq(S \cup T)
          BY <5>1, <5>2
        <5> QED
          BY <5>3
      <4> QED
        BY <4>2, <4>3, <4>4
    <3>3. (p \o BasicCopyCase)[3] = BasicCopyCase[1]
      BY <3>1, <3>2
    <3> QED
      BY <2>3, <3>1, <3>2, <3>3
  <2> DEFINE a == p \o BasicCopyCase
  <2> HIDE DEF a
  <2>6. IsSteps(a \o q) /\ Len(a \o q) = 7 /\ \A i \in 1 .. 6 : (a \o q)[i] = a[i]
    <3>1. IsSteps(a) /\ IsSteps(q) /\ Len(a) = 6 /\ Len(q) = 1
      BY <2>3, <2>5 DEF a
    <3>2. /\ IsSteps(a \o q) /\ Len(a \o q) = Len(a) + Len(q)
          /\ \A i \in 1 .. Len(a) : (a \o q)[i] = a[i]
      BY <3>1, Joined, Zenon
    <3> QED
      BY <3>1, <3>2
  <2> DEFINE b == a \o q
  <2> HIDE DEF b
  <2>7. IsSteps(steps) /\ \A i \in 1 .. 7 : steps[i] = b[i]
    BY <2>4, <2>6, Joined DEF a, b
  <2>8. DOMAIN steps \subseteq Nat \ {0} /\ 3 \in DOMAIN steps
    <3>1. Len(steps) = 7 + Len(BasicCopyExecution(id)) /\ Len(BasicCopyExecution(id)) \in Nat
      BY <2>4, <2>6, Joined DEF a, b, IsSteps
    <3>2. DOMAIN steps = 1 .. Len(steps)
      BY <2>7 DEF IsSteps
    <3> QED
      BY <3>1, <3>2
  <2>9. steps[1] = Path /\ steps[2] = Record({"target"}) /\ steps[3] = BasicCopyCase[1]
    BY <2>5, <2>6, <2>7 DEF a, b
  <2> HIDE DEF steps
  <2>10. steps[1].kind # "prepare" /\ steps[2].kind # "prepare"
    BY <2>9 DEF Path, Record
  <2>11. steps[3].kind = "prepare" /\ steps[3].seed = seed
    BY <1>4, <2>3, <2>9
  <2>12. Prepares(id, 3, seed)
    BY <1>1, <2>2, <2>8, <2>10, <2>11 DEF Prepares
  <2>13. Assumed = seed
    BY <1>1, <2>2, <2>8, <2>12, PreparedSeed
  <2> QED
    BY <1>10, <2>13 DEF TreeCopyIds
<1> QED
  BY <1>6, <1>7, <1>8, <1>9, <1>10, Shapes DEF PlainCopyIds

\* The deletes and the reads.
LEMMA TargetSeed ==
    ASSUME request.check \in DeleteRequestIds \cup ReadIds
    PROVE  Assumed = [target |-> "old"]
<1> DEFINE id == request.check
           seed == [target |-> "old"]
<1>1. \A s, records, x, y :
         PrepareOr(s, records, x, y).kind = "prepare" /\ PrepareOr(s, records, x, y).seed = s
  BY DEF PrepareOr
<1>2. CASE id \in DeleteRequestIds
  <2> DEFINE p == <<Prepare(seed, "Unverified"), Observe(seed, "Failed")>>
             q == IF id = "DeleteIfMatch" THEN StaleDelete ELSE <<>>
             r == <<Call([target |-> "absent"]), Observe([target |-> "absent"], "Failed")>>
             program == ProgramOf(id)
  <2>1. program = SeededDelete(id)
    BY <1>2, Families DEF ProgramOf
  <2>2. program = Check(p \o q \o r, "Passed", [target |-> "absent"])
    BY <2>1, Zenon DEF SeededDelete
  <2>3. Opens(p, seed)
    BY <1>1, Literals DEF Opens, Prepare
  <2>4. IsSteps(q) /\ IsSteps(r)
    BY Literals DEF StaleDelete
  <2> HIDE DEF p, q, r, seed, program
  <2>5. Opens(p \o q \o r, seed)
    BY <2>3, <2>4, OpensOn
  <2>6. program.sections[1] = p \o q \o r
    BY <2>2, Sections
  <2> QED
    BY <2>5, <2>6, OpensWith DEF program, seed
<1>3. CASE id \in ReadIds
  <2> DEFINE has == {"Read", "FiniteRange", ReadCapability[id]}
             p == <<PrepareOr(seed, {"target"},
                              IF id \in OptionalRead THEN "SkippedOptional" ELSE "Unverified",
                              "Unverified")>>
             q == CASE id = "ReadRangeLimit" -> ReadRangeLimit
                    [] id \in Rejection -> <<RefusedQuery>>
                    [] OTHER -> <<Query>> \o ReadResult(id)
             program == ProgramOf(id)
             outcome == IF id \in Rejection THEN "RejectedAsExpected" ELSE "Passed"
  <2>1. program = Read(id, has)
    BY <1>3, Families DEF ProgramOf
  <2>2. program = Check(p \o ReadVersions(id) \o q, outcome, Nothing)
    <3>1. /\ ~({"Read", ReadCapability[id]} \ has # {})
          /\ "FiniteRange" \in has
      OBVIOUS
    <3> HIDE DEF has
    <3> QED
      BY <2>1, <3>1, Zenon DEF Read, ReadOf
  <2>3. Opens(p, seed)
    BY <1>1, Literals DEF Opens
  <2>4. IsSteps(ReadVersions(id))
    BY Literals, Joined DEF ReadVersions
  <2>5. IsSteps(q)
    <3>1. IsSteps(ReadResult(id))
      BY Literals DEF ReadResult
    <3>2. IsSteps(<<Query>> \o ReadResult(id))
      BY <3>1, Literals, Joined
    <3>3. IsSteps(ReadRangeLimit) /\ IsSteps(<<RefusedQuery>>)
      BY Literals DEF ReadRangeLimit
    <3>4. "ReadRangeLimit" \notin Rejection
      BY DEF Rejection
    <3> QED
      BY <3>2, <3>3, <3>4
  <2> HIDE DEF p, q, seed, program, outcome
  <2>6. Opens(p \o ReadVersions(id) \o q, seed)
    BY <2>3, <2>4, <2>5, OpensOn
  <2>7. program.sections[1] = p \o ReadVersions(id) \o q
    BY <2>2, Sections
  <2> QED
    BY <2>6, <2>7, OpensWith DEF program, seed
<1> QED
  BY <1>2, <1>3

-----------------------------------------------------------------------------
(* The default case fits the check that asks for it.                       *)

\* The contents a check calls old are neither absence nor a directory.
LEMMA OldContents ==
    /\ \A id \in ExistingIds : Existing(id) \notin {Absent, Dir}
    /\ \A id \in DeleteRequestIds \cup ReadIds : Payload(id) \notin {Absent, Dir}
    /\ Bytes("existing", 8) \notin {Absent, Dir}
<1>1. \A text, n : n # 0 => Bytes(text, n) \notin {Absent, Dir}
  <2>1. \A text, n : Bytes(text, n).length = n
    BY DEF Bytes
  <2>2. Absent.length = 0 /\ Dir.length = 0
    BY DEF Absent, Dir
  <2> QED
    BY <2>1, <2>2
<1>2. ASSUME NEW id \in ExistingIds
      PROVE  Existing(id) \in {Bytes("previous contents", 17), Bytes("before", 6), Bytes("a", 1)}
  BY DEF Existing
<1>3. ASSUME NEW id \in DeleteRequestIds PROVE Payload(id) = Bytes("delete evidence", 15)
  BY DEF Payload, OwningWriteIds, ReadCapability, DeleteRequestIds
<1>4. ASSUME NEW id \in ReadIds PROVE Payload(id) = Bytes("read contract bytes", 19)
  BY DEF Payload, OwningWriteIds, ReadCapability, ReadIds
<1>5. 17 # 0 /\ 6 # 0 /\ 1 # 0 /\ 15 # 0 /\ 19 # 0 /\ 8 # 0
  OBVIOUS
<1> QED
  BY <1>1, <1>2, <1>3, <1>4, <1>5

\* A ready default case holds what the program of its check starts from.
LEMMA ReadyAgrees ==
    ASSUME request \in Requests, Remaining, Visible, calls = <<>>
    PROVE  \A r \in DOMAIN Assumed \cap CaseRoles : Agrees(Assumed[r], contents[r])
<1> DEFINE id == request.check
           T(s) == [target |-> s]
<1>1. id \in WriteRequestIds \cup CopyRequestIds \cup DeleteRequestIds \cup ReadIds
  BY DEF Requests, ReadIds
<1>2. /\ \A w : w = Absent => Agrees("absent", w)
      /\ \A w : w = Dir => Agrees("dir", w)
      /\ \A w : w = Payload(id) => Agrees("new", w)
      /\ \A w : w \notin {Absent, Dir} => Agrees("old", w)
  BY DEF Agrees
<1>3. ASSUME NEW s, Assumed = [target |-> s], Agrees(s, contents["target"])
      PROVE  \A r \in DOMAIN Assumed \cap CaseRoles : Agrees(Assumed[r], contents[r])
  BY <1>3
<1>4. CASE id \in WriteRequestIds
  <2>1. CASE id \in CreationIds /\ contents["target"] = Absent
    BY <1>2, <1>3, <2>1, WriteSeed
  <2>2. CASE id \in ExistingIds /\ contents["target"] = Existing(id)
    BY <1>2, <1>3, <2>2, WriteSeed, OldContents
  <2> QED
    BY <1>4, <2>1, <2>2, ReadyWrite
<1>5. CASE id \in DeleteRequestIds \cup ReadIds
  BY <1>2, <1>3, <1>5, ReadyTarget, TargetSeed, OldContents
<1>6. CASE id \in CopyRequestIds /\ id \notin TreeCopyIds
  <2> DEFINE s == IF id = "CopyFallbackOverwriteRejected" THEN "old" ELSE "absent"
  <2>1. Assumed = Both("new", s)
    BY <1>6, CopySeed, Shapes
  <2>2. Agrees("new", contents["source"]) /\ Agrees(s, contents["target"])
    BY <1>2, <1>6, ReadyCopy, OldContents
  <2>3. /\ DOMAIN Assumed = {"source", "target"}
        /\ Assumed["source"] = "new" /\ Assumed["target"] = s
    BY <2>1 DEF Both
  <2> QED
    BY <2>2, <2>3
<1>7. CASE id \in TreeCopyIds
  <2>1. id \in CopyRequestIds /\ id # "CopyFallbackOverwriteRejected"
    BY <1>7, Shapes DEF TreeCopyIds
  <2>2. Assumed = Tree("dir", "absent", "new", "absent")
    BY <1>7, <2>1, CopySeed
  <2>3. /\ DOMAIN Assumed = {"source", "target", "sourceChild", "targetChild"}
        /\ Assumed["source"] = "dir" /\ Assumed["target"] = "absent"
        /\ Assumed["sourceChild"] = "new"
    BY <2>2 DEF Tree
  <2>4. /\ Agrees("dir", contents["source"]) /\ Agrees("absent", contents["target"])
        /\ Agrees("new", contents["sourceChild"])
    BY <1>2, <1>7, <2>1, ReadyCopy
  <2>5. "targetChild" \notin CaseRoles
    BY DEF CaseRoles
  <2> QED
    BY <2>3, <2>4, <2>5
<1> QED
  BY <1>1, <1>4, <1>5, <1>6, <1>7

\* Whatever the write limit and the hooks a fixture implements, no default
\* case is rejected by the check that asked for it, and an accepted one is the
\* state the program of the check starts from (prepare_write, prepare_copy,
\* prepare_delete, prepare_read of both fixture traits).
THEOREM DefaultCaseTheorem == CaseSpec => []DefaultCaseFits
<1>1. IInv => DefaultCaseFits
  <2> SUFFICES ASSUME IInv PROVE DefaultCaseFits
    OBVIOUS
  <2>1. answer # "rejected"
    BY DEF IInv, VetInv
  <2>2. answer = "accepted" =>
          request \in Requests /\ Remaining /\ Visible /\ calls = <<>>
    BY DEF IInv, TypeInv, ReadyInv, WorldInv
  <2> QED
    BY <2>1, <2>2, ReadyAgrees DEF DefaultCaseFits
<1> QED
  BY <1>1, InvariantHolds, PTL
=============================================================================

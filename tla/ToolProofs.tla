------------------------------ MODULE ToolProofs ------------------------------
(***************************************************************************)
(* Every session of ndtool, on every image, with host writes that fail at  *)
(* fopen, at fwrite or unnoticed at fclose: with -n the host is left       *)
(* alone, an image without the modified mark is the stored one, and what   *)
(* is said of a command is true, but for what fclose hides.                *)
(***************************************************************************)
EXTENDS Tool, TLAPS

\* What a command may do to the host: nothing with -n, and -n stays as it is.
Quiet == dry' = dry /\ (dry => host' = host)

\* Saving with -n is saving nothing.
LEMMA DrySave ==
  ASSUME dry, NEW i, NEW rest, NEW s \in SaveImage(i, rest)
  PROVE  s.host = host
BY DEF SaveImage, Unwritten

\* A command that stores at once asks first.
LEMMA StoreQuiet ==
  ASSUME NEW found, NEW result, NEW rest, Store(found, result, rest)
  PROVE  Quiet
BY DEF Quiet, Store, Command, KeepsAll, KeepsFiles

\* A command of the shell changes memory only.
LEMMA ChangeQuiet ==
  ASSUME NEW result, Change(result)
  PROVE  Quiet
BY DEF Quiet, Change, Command, KeepsFiles

\* The commands of cmd_user.c.
LEMMA OnUsersQuiet ==
  ASSUME OnUsers
  PROVE  Quiet
<1>1. ASSUME NEW n, Userdel(n)  PROVE Quiet
  BY <1>1, StoreQuiet DEF Userdel
<1>2. ASSUME NEW n, Passwd(n)  PROVE Quiet
  BY <1>2, StoreQuiet DEF Passwd
<1>3. ASSUME NEW n, NEW a, Useradd(n, a)  PROVE Quiet
  BY <1>3, StoreQuiet DEF Useradd
<1>4. ASSUME NEW n, NEW a, Quotaadd(n, a)  PROVE Quiet
  BY <1>4, StoreQuiet DEF Quotaadd
<1>5. ASSUME NEW n, NEW a, Quotadel(n, a)  PROVE Quiet
  BY <1>5, StoreQuiet DEF Quotadel
<1>6. ASSUME NEW n, NEW a, Giveobjblocks(n, a)  PROVE Quiet
  BY <1>6, StoreQuiet DEF Giveobjblocks
<1>7. ASSUME NEW n, NEW a, Takeobjblocks(n, a)  PROVE Quiet
  BY <1>7, StoreQuiet DEF Takeobjblocks
<1>8. ASSUME NEW n, NEW ref, Frienddel(n, ref)  PROVE Quiet
  BY <1>8, StoreQuiet, ChangeQuiet DEF Frienddel
<1>9. ASSUME NEW n, NEW ref, NEW r, Friendadd(n, ref, r)  PROVE Quiet
  BY <1>9, StoreQuiet, ChangeQuiet DEF Friendadd
<1>. QED
  BY <1>1, <1>2, <1>3, <1>4, <1>5, <1>6, <1>7, <1>8, <1>9 DEF OnUsers

\* put saves once, and what it saves with -n is nothing.
LEMMA PutQuiet ==
  ASSUME NEW b, NEW n, NEW t, NEW replace, NEW rest, Put(b, n, t, replace, rest)
  PROVE  Quiet
<1>. DEFINE all  == PutAll(b, n, t, replace)
            save == all.ok /\ all.modified
<1>1. dry' = dry
  BY DEF Put, Command
<1>2. PICK s \in IF save THEN SaveImage(all.im, rest) ELSE {Unwritten(TRUE)} :
        host' = s.host
  BY DEF Put, Ended
<1>3. CASE save
  BY <1>1, <1>2, <1>3, DrySave DEF Quiet
<1>4. CASE ~save
  BY <1>1, <1>2, <1>4 DEF Quiet, Unwritten
<1>. QED  BY <1>3, <1>4

\* The commands on files, of the shell and of the command line.
LEMMA OnFilesQuiet ==
  ASSUME OnFiles
  PROVE  Quiet
<1>1. ASSUME NEW u, NEW n, Rm(u, n)  PROVE Quiet
  BY <1>1, StoreQuiet, ChangeQuiet DEF Rm
<1>2. ASSUME NEW u, NEW n, NEW new, Mv(u, n, new)  PROVE Quiet
  BY <1>2, ChangeQuiet DEF Mv
<1>3. ASSUME NEW u, NEW n, NEW c, Chmod(u, n, c)  PROVE Quiet
  BY <1>3 DEF Quiet, Chmod, Command, KeepsAll, KeepsFiles
<1>4. ASSUME NEW u, NEW n, NEW t, Edit(u, n, t)  PROVE Quiet
  BY <1>4, ChangeQuiet DEF Quiet, Edit, Command, KeepsAll, KeepsFiles
<1>. QED
  BY <1>1, <1>2, <1>3, <1>4, PutQuiet DEF OnFiles

\* save, save F and quit, whether they save or not.
LEMMA LeavingQuiet ==
  ASSUME Leaving
  PROVE  Quiet
<1>1. CASE Save
  BY <1>1, DrySave DEF Quiet, Save, Command, Ended
<1>2. ASSUME NEW f, SaveAs(f)  PROVE Quiet
  BY <1>2, DrySave DEF Quiet, SaveAs, Command, Ended
<1>3. CASE Quit
  BY <1>3, DrySave DEF Quiet, Quit, Leave, Ended
<1>4. CASE EndOfInput
  BY <1>4 DEF Quiet, EndOfInput, Leave
<1>. QED  BY <1>1, <1>2, <1>3, <1>4 DEF Leaving

\* With -n no host file is ever written: by no command, no save and no quit, however many
\* commands there are and whatever the image holds.
THEOREM DryRunKeepsHost == Spec => []DryRunWritesNothing
<1>1. Init => DryRunWritesNothing
  BY DEF Init, DryRunWritesNothing
<1>2. DryRunWritesNothing /\ [Next]_vars => DryRunWritesNothing'
  <2>. SUFFICES ASSUME DryRunWritesNothing, [Next]_vars
                PROVE  DryRunWritesNothing'
    OBVIOUS
  <2>1. CASE UNCHANGED vars
    BY <2>1 DEF vars, DryRunWritesNothing
  <2>2. CASE Next
    <3>1. Quiet
      BY <2>2, OnUsersQuiet, OnFilesQuiet, LeavingQuiet DEF Next
    <3>. QED  BY <3>1 DEF Quiet, DryRunWritesNothing
  <2>. QED  BY <2>1, <2>2
<1>. QED  BY <1>1, <1>2, PTL DEF Spec

-----------------------------------------------------------------------------
(***************************************************************************)
(* What is on the host.                                                    *)
(***************************************************************************)
\* The host files there are stay the same ones, and a command line works on the image it was
\* started on until its one command is done.  Only fclose fails unnoticed.
HostKept ==
  /\ DOMAIN host = HostFiles
  /\ short => "close" \in Faults
  /\ mode = "once" => path = "opened" /\ host["opened"] = First

ToldRight == HostKept /\ UnmarkedIsStored /\ ExitStatusTellsTruth

\* A call that is refused leaves the image as it was.
RefusesWhole(result) == result.ok \/ result.im = im

\* A host file is written whole, left alone with a message, or cut short: with a message when
\* fwrite fails, without one when fclose does.
LEMMA WriteEnds ==
  ASSUME NEW f, NEW i, NEW s \in WriteLocal(host, f, i)
  PROVE  /\ s.host \in {host, [host EXCEPT ![f] = i], [host EXCEPT ![f] = Torn]}
         /\ s.whole => s.ok /\ s.host = [host EXCEPT ![f] = i]
         /\ s.ok /\ ~s.whole => "close" \in Faults /\ s.host = [host EXCEPT ![f] = Torn]
         /\ ~s.ok => s.host \in {host, [host EXCEPT ![f] = Torn]}
<1>1. CASE s = [host |-> [host EXCEPT ![f] = i], ok |-> TRUE, whole |-> TRUE]
  BY <1>1
<1>2. CASE s = [host |-> host, ok |-> FALSE, whole |-> FALSE]
  BY <1>2
<1>3. ASSUME NEW fault \in Faults \intersect {"write", "close"},
             s = [host |-> [host EXCEPT ![f] = Torn], ok |-> fault = "close", whole |-> FALSE]
      PROVE  /\ s.host = [host EXCEPT ![f] = Torn] /\ ~s.whole
             /\ s.ok => "close" \in Faults
  BY <1>3
<1>. QED  BY <1>1, <1>2, <1>3 DEF WriteLocal

\* Saving over the image opened stores it, or cuts it short at fclose, or the operator is told;
\* whatever the outcome the other host files are still there.
LEMMA SavedOrTold ==
  ASSUME HostKept, NEW i, NEW rest, NEW s \in SaveImage(i, rest)
  PROVE  /\ DOMAIN s.host = HostFiles
         /\ path = "opened" /\ ~dry /\ s.ok => s.host["opened"] = IF s.whole THEN i ELSE Torn
         /\ (s.whole => s.ok) /\ (s.ok /\ ~s.whole => "close" \in Faults)
         /\ path = "opened" /\ (dry \/ ~s.ok) => s.host["opened"] \in {host["opened"], Torn}
<1>1. CASE dry \/ Target(rest) = "nothing"
  BY <1>1 DEF SaveImage, Unwritten, HostKept
<1>2. CASE ~dry /\ Target(rest) # "nothing"
  <2>1. s \in WriteLocal(host, Target(rest), i)
    BY <1>2 DEF SaveImage
  <2>. DEFINE f == Target(rest)
  <2>2. /\ s.host \in {host, [host EXCEPT ![f] = i], [host EXCEPT ![f] = Torn]}
        /\ s.whole => s.ok /\ s.host = [host EXCEPT ![f] = i]
        /\ s.ok /\ ~s.whole => "close" \in Faults /\ s.host = [host EXCEPT ![f] = Torn]
        /\ ~s.ok => s.host \in {host, [host EXCEPT ![f] = Torn]}
    BY <2>1, WriteEnds
  <2>3. path = "opened" => f = "opened"
    BY DEF Target
  <2>. HIDE DEF f
  <2>. QED  BY <1>2, <2>2, <2>3 DEF HostKept, HostFiles
<1>. QED  BY <1>1, <1>2

\* The commands that store at once.
LEMMA StoreTold ==
  ASSUME ToldRight, NEW found, NEW result, NEW rest, Store(found, result, rest)
  PROVE  ToldRight'
<1>1. /\ mode \in {"shell", "once"} /\ dry' = dry /\ path' = path
      /\ mode' = IF mode = "once" THEN "left" ELSE mode
  BY DEF Store, Command, KeepsAll, KeepsFiles, Saved
<1>2. CASE KeepsAll /\ said' \in {"refused", "dry"}
  BY <1>1, <1>2 DEF KeepsAll, KeepsFiles, ToldRight, HostKept, UnmarkedIsStored, ExitStatusTellsTruth
<1>3. ASSUME ~dry, NEW s \in SaveImage(result.im, rest),
             Saved(result.im, s, IF s.ok THEN "stored" ELSE "unsaved")
      PROVE  ToldRight'
  <2>1. /\ DOMAIN s.host = HostFiles
        /\ path = "opened" /\ ~dry /\ s.ok => s.host["opened"] = IF s.whole THEN result.im ELSE Torn
        /\ (s.whole => s.ok) /\ (s.ok /\ ~s.whole => "close" \in Faults)
        /\ path = "opened" /\ (dry \/ ~s.ok) => s.host["opened"] \in {host["opened"], Torn}
    BY SavedOrTold DEF ToldRight
  <2>. QED  BY <1>1, <1>3, <2>1 DEF Saved, Ended, Says, ToldRight, HostKept, UnmarkedIsStored, ExitStatusTellsTruth
<1>. QED  BY <1>2, <1>3 DEF Store, Says

\* The commands of the shell that change memory only.
LEMMA ChangeTold ==
  ASSUME ToldRight, NEW result, Change(result), RefusesWhole(result)
  PROVE  ToldRight'
BY DEF Change, Command, Says, KeepsFiles, RefusesWhole, ToldRight, HostKept, UnmarkedIsStored,
       ExitStatusTellsTruth

\* They change nothing when they are refused.
LEMMA CallsRefuseWhole ==
  /\ \A owner, ref, rights : RefusesWhole(AddFriend(im, owner, ref, rights))
  /\ \A owner, ref : RefusesWhole(RemoveFriend(im, owner, ref))
  /\ \A u, name : RefusesWhole(DeleteFile(im, u, name))
  /\ \A u, name, new : RefusesWhole(Rename(im, u, name, new))
  /\ \A user, name, text, access : RefusesWhole(WriteFile(im, user, name, text, access))
BY DEF RefusesWhole, AddFriend, RemoveFriend, DeleteFile, Rename, WriteFile, When, Done, Refusal

\* The commands of cmd_user.c.
LEMMA OnUsersTold ==
  ASSUME ToldRight, OnUsers
  PROVE  ToldRight'
<1>1. ASSUME NEW n, Userdel(n)  PROVE ToldRight'
  BY <1>1, StoreTold DEF Userdel
<1>2. ASSUME NEW n, Passwd(n)  PROVE ToldRight'
  BY <1>2, StoreTold DEF Passwd
<1>3. ASSUME NEW n, NEW a, Useradd(n, a)  PROVE ToldRight'
  BY <1>3, StoreTold DEF Useradd
<1>4. ASSUME NEW n, NEW a, Quotaadd(n, a)  PROVE ToldRight'
  BY <1>4, StoreTold DEF Quotaadd
<1>5. ASSUME NEW n, NEW a, Quotadel(n, a)  PROVE ToldRight'
  BY <1>5, StoreTold DEF Quotadel
<1>6. ASSUME NEW n, NEW a, Giveobjblocks(n, a)  PROVE ToldRight'
  BY <1>6, StoreTold DEF Giveobjblocks
<1>7. ASSUME NEW n, NEW a, Takeobjblocks(n, a)  PROVE ToldRight'
  BY <1>7, StoreTold DEF Takeobjblocks
<1>8. ASSUME NEW n, NEW ref, Frienddel(n, ref)  PROVE ToldRight'
  BY <1>8, StoreTold, ChangeTold, CallsRefuseWhole DEF Frienddel
<1>9. ASSUME NEW n, NEW ref, NEW r, Friendadd(n, ref, r)  PROVE ToldRight'
  BY <1>9, StoreTold, ChangeTold, CallsRefuseWhole DEF Friendadd
<1>. QED
  BY <1>1, <1>2, <1>3, <1>4, <1>5, <1>6, <1>7, <1>8, <1>9 DEF OnUsers

\* put marks the image in the shell even when it has just saved it, and saves from the
\* command line only what it could copy whole.
LEMMA PutTold ==
  ASSUME ToldRight, NEW b, NEW n, NEW t, NEW replace, NEW rest, Put(b, n, t, replace, rest)
  PROVE  ToldRight'
<1>. DEFINE all  == PutAll(b, n, t, replace)
            save == all.ok /\ all.modified
<1>1. /\ mode \in {"shell", "once"} /\ dry' = dry /\ path' = path /\ im' = all.im
      /\ mode' = IF mode = "once" THEN "left" ELSE mode
  BY DEF Put, Command
<1>2. PICK s \in IF save THEN SaveImage(all.im, rest) ELSE {Unwritten(TRUE)} :
        /\ Ended(s)
        /\ mode = "shell" => modified'
        /\ Says(CASE ~all.ok        -> "refused"
                  [] all.ok /\ ~save -> "skipped"
                  [] save /\ s.ok    -> IF dry THEN "dry" ELSE "stored"
                  [] OTHER           -> "unsaved")
  BY DEF Put
<1>. HIDE DEF all
<1>3. CASE save
  <2>1. /\ DOMAIN s.host = HostFiles
        /\ path = "opened" /\ ~dry /\ s.ok => s.host["opened"] = IF s.whole THEN all.im ELSE Torn
        /\ (s.whole => s.ok) /\ (s.ok /\ ~s.whole => "close" \in Faults)
        /\ path = "opened" /\ (dry \/ ~s.ok) => s.host["opened"] \in {host["opened"], Torn}
    BY <1>2, <1>3, SavedOrTold DEF ToldRight
  <2>2. dry => s.host = host
    BY <1>2, <1>3, DrySave
  <2>3. said' = IF s.ok THEN IF dry THEN "dry" ELSE "stored" ELSE "unsaved"
    BY <1>2, <1>3 DEF Says
  <2>4. CASE mode = "shell"
    BY <1>1, <1>2, <2>1, <2>3, <2>4 DEF Ended, ToldRight, HostKept, UnmarkedIsStored, ExitStatusTellsTruth
  <2>5. CASE mode = "once"
    BY <1>1, <1>2, <2>1, <2>2, <2>3, <2>5 DEF Ended, ToldRight, HostKept, UnmarkedIsStored, ExitStatusTellsTruth
  <2>. QED  BY <1>1, <2>4, <2>5
<1>4. CASE ~save
  <2>1. host' = host /\ said' \in {"refused", "skipped"}
    BY <1>2, <1>4 DEF Ended, Unwritten, Says
  <2>2. s.whole /\ s.ok
    BY <1>2, <1>4 DEF Unwritten
  <2>. QED  BY <1>1, <1>2, <2>1, <2>2 DEF Ended, ToldRight, HostKept, UnmarkedIsStored, ExitStatusTellsTruth
<1>. QED  BY <1>3, <1>4

\* chmod clears the mark before it saves.
LEMMA ChmodTold ==
  ASSUME ToldRight, NEW u, NEW name, NEW clause, Chmod(u, name, clause)
  PROVE  ToldRight'
<1>1. /\ mode \in {"shell", "once"} /\ dry' = dry /\ path' = path
      /\ mode' = IF mode = "once" THEN "left" ELSE mode
  BY DEF Chmod, Command, KeepsAll, KeepsFiles
<1>2. CASE KeepsAll /\ said' \in {"refused", "dry"}
  BY <1>1, <1>2 DEF KeepsAll, KeepsFiles, ToldRight, HostKept, UnmarkedIsStored, ExitStatusTellsTruth
<1>3. ASSUME NEW i, ~dry, NEW s \in SaveImage(i, "nothing"), im' = i, Ended(s), said' = (IF s.ok THEN "stored" ELSE "unsaved")
      PROVE  ToldRight'
  <2>1. /\ DOMAIN s.host = HostFiles
        /\ path = "opened" /\ ~dry /\ s.ok => s.host["opened"] = IF s.whole THEN i ELSE Torn
        /\ (s.whole => s.ok) /\ (s.ok /\ ~s.whole => "close" \in Faults)
        /\ path = "opened" /\ (dry \/ ~s.ok) => s.host["opened"] \in {host["opened"], Torn}
    BY SavedOrTold DEF ToldRight
  <2>. QED  BY <1>1, <1>3, <2>1 DEF Ended, ToldRight, HostKept, UnmarkedIsStored, ExitStatusTellsTruth
<1>. QED  BY <1>2, <1>3 DEF Chmod, Says

\* The commands on files.
LEMMA OnFilesTold ==
  ASSUME ToldRight, OnFiles
  PROVE  ToldRight'
<1>1. ASSUME NEW u, NEW n, Rm(u, n)  PROVE ToldRight'
  BY <1>1, StoreTold, ChangeTold, CallsRefuseWhole DEF Rm
<1>2. ASSUME NEW u, NEW n, NEW new, Mv(u, n, new)  PROVE ToldRight'
  BY <1>2, ChangeTold, CallsRefuseWhole DEF Mv
<1>3. ASSUME NEW u, NEW n, NEW t, Edit(u, n, t)  PROVE ToldRight'
  <2>1. CASE Change(WriteFile(im, im.files[FirstFile(im, u, n)].owner, n, t, DefaultAccess))
    BY <2>1, ChangeTold, CallsRefuseWhole
  <2>2. CASE mode = "shell" /\ Command /\ KeepsAll /\ Says("unchanged")
    BY <2>2 DEF Command, KeepsAll, KeepsFiles, Says, ToldRight, HostKept, UnmarkedIsStored,
                ExitStatusTellsTruth
  <2>. QED  BY <1>3, <2>1, <2>2 DEF Edit
<1>. QED  BY <1>1, <1>2, <1>3, ChmodTold, PutTold DEF OnFiles

\* save, save F, quit and the end of input.
LEMMA LeavingTold ==
  ASSUME ToldRight, Leaving
  PROVE  ToldRight'
<1>1. CASE Save
  <2>1. PICK s \in SaveImage(im, "nothing") : Ended(s)
    BY <1>1 DEF Save
  <2>2. /\ DOMAIN s.host = HostFiles
        /\ path = "opened" /\ ~dry /\ s.whole => s.host["opened"] = im
        /\ s.ok /\ ~s.whole => "close" \in Faults
    BY SavedOrTold DEF ToldRight
  <2>. QED  BY <1>1, <2>1, <2>2 DEF Save, Ended, Command, Says, ToldRight, HostKept, UnmarkedIsStored,
                                    ExitStatusTellsTruth
<1>2. ASSUME NEW f, SaveAs(f)  PROVE ToldRight'
  <2>1. DOMAIN host' = HostFiles /\ (short' => "close" \in Faults)
    <3>1. PICK s \in IF dry THEN SaveImage(im, f) ELSE WriteLocal(host, f, im) : Ended(s)
      BY <1>2 DEF SaveAs
    <3>2. CASE dry
      BY <3>1, <3>2, SavedOrTold DEF Ended, ToldRight
    <3>3. CASE ~dry
      <4>1. s \in WriteLocal(host, f, im)
        BY <3>1, <3>3
      <4>2. /\ s.host \in {host, [host EXCEPT ![f] = im], [host EXCEPT ![f] = Torn]}
            /\ s.ok /\ ~s.whole => "close" \in Faults
        BY <4>1, WriteEnds
      <4>. QED  BY <3>1, <4>2 DEF Ended, ToldRight, HostKept
    <3>. QED  BY <3>2, <3>3
  <2>. QED  BY <1>2, <2>1 DEF SaveAs, Command, Says, ToldRight, HostKept, UnmarkedIsStored,
                              ExitStatusTellsTruth
<1>3. CASE Quit
  <2>1. DOMAIN host' = HostFiles /\ (short' => "close" \in Faults)
    <3>1. CASE UNCHANGED <<host, failed, short>>
      BY <3>1 DEF ToldRight, HostKept
    <3>2. ASSUME NEW s \in SaveImage(im, "nothing"), Ended(s)
          PROVE  DOMAIN host' = HostFiles /\ (short' => "close" \in Faults)
      BY <3>2, SavedOrTold DEF Ended, ToldRight
    <3>. QED  BY <1>3, <3>1, <3>2 DEF Quit
  <2>. QED  BY <1>3, <2>1 DEF Quit, Leave, Says, ToldRight, HostKept, UnmarkedIsStored,
                              ExitStatusTellsTruth
<1>4. CASE EndOfInput
  BY <1>4 DEF EndOfInput, Leave, Says, ToldRight, HostKept, UnmarkedIsStored, ExitStatusTellsTruth
<1>. QED  BY <1>1, <1>2, <1>3, <1>4 DEF Leaving

\* Every session.
LEMMA SessionsTold == Spec => []ToldRight
<1>1. Init => ToldRight
  BY DEF Init, HostFiles, ToldRight, HostKept, UnmarkedIsStored, ExitStatusTellsTruth
<1>2. ToldRight /\ [Next]_vars => ToldRight'
  <2>. SUFFICES ASSUME ToldRight, [Next]_vars
                PROVE  ToldRight'
    OBVIOUS
  <2>1. CASE UNCHANGED vars
    BY <2>1 DEF vars, ToldRight, HostKept, UnmarkedIsStored, ExitStatusTellsTruth
  <2>. QED  BY <2>1, OnUsersTold, OnFilesTold, LeavingTold DEF Next
<1>. QED  BY <1>1, <1>2, PTL DEF Spec

\* Until a name has been given to save and while no write has failed, noticed or not, an image
\* that is not marked modified is the image on the host, whatever mix of commands that save, save for
\* those before them, or only mark has been given.
THEOREM UnmarkedStaysStored == Spec => []UnmarkedIsStored
<1>1. ToldRight => UnmarkedIsStored
  BY DEF ToldRight
<1>. QED  BY <1>1, SessionsTold, PTL

\* A command that reports success has stored all of its change, or its write was cut short at
\* fclose, which goes unnoticed and is the only way to have success reported and less stored.  A
\* command line that reports failure has left the image as it was, or cut short by a write that
\* failed.
THEOREM ExitStatusTrue == Spec => []ExitStatusTellsTruth
<1>1. ToldRight => ExitStatusTellsTruth
  BY DEF ToldRight
<1>. QED  BY <1>1, SessionsTold, PTL

\* Where fclose does not fail, success reported is all of the change stored, however often the
\* host has failed to open or to write a file before.
THEOREM StoredWhereCloseWorks ==
  ASSUME "close" \notin Faults
  PROVE  Spec => [](said = "stored" /\ path = "opened" => host["opened"] = im)
<1>1. ToldRight => (said = "stored" /\ path = "opened" => host["opened"] = im)
  BY DEF ToldRight, HostKept, ExitStatusTellsTruth
<1>. QED  BY <1>1, SessionsTold, PTL
===============================================================================

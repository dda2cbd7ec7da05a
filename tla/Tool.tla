--------------------------------- MODULE Tool ---------------------------------
(***************************************************************************)
(* ndtool: a command, or a shell, over an image read into memory.  Which   *)
(* changes reach the file on the host, when, and what the operator is told *)
(* about it.                                                               *)
(***************************************************************************)
EXTENDS Accounts

CONSTANTS
  First,         \* the image in the file the tool is started on
  UserNames, FileNames, Texts,
  Amounts,       \* pages and blocks given or taken
  Rights,        \* what a friend is given
  Clauses,       \* the changes of chmod
  Batches,       \* the host files of one put, in directory order
  Unreadable,    \* a host file that cannot be read
  DefaultAccess, \* the access word of a new file
  Absent, Torn,  \* no host file, and one whose writing was cut short
  Modes,         \* of "shell" and "once"
  Faults,        \* of "open", "write" and "close": where writing a host file may fail
  MaxCommands    \* bound: the commands of a session

ASSUME ToolAssumption ==
  /\ Amounts \subseteq Nat \ {0}
  /\ Modes \subseteq {"shell", "once"} /\ Faults \subseteq {"open", "write", "close"}
  /\ MaxCommands \in Nat

VARIABLES
  im,        \* the image in memory
  host,      \* the host files: the one opened, the one named by save, any other
  path,      \* ctx->image_path: "opened", or "line" for a pointer into the shell's line
  modified,  \* ctx->modified
  mode,      \* "shell" or "once" while the tool runs, then "left"
  dry,       \* -n
  named,     \* the host file the operator works on: opened, or named by the last save
  said,      \* how the last command ended
  failed,    \* history: a host file was not written whole, whether the tool noticed or not
  short,     \* history: the last one was cut short by an fclose that failed, unnoticed
  commands

vars == <<im, host, path, modified, mode, dry, named, said, failed, short, commands>>

HostFiles == {"opened", "other", "stray"}

Init ==
  /\ im = First
  /\ host = [f \in HostFiles |-> IF f = "opened" THEN First ELSE Absent]
  /\ path = "opened" /\ named = "opened"
  /\ modified = FALSE
  /\ mode \in Modes
  /\ dry \in BOOLEAN
  /\ said = "nothing"
  /\ failed = FALSE /\ short = FALSE
  /\ commands = 0

-----------------------------------------------------------------------------
(***************************************************************************)
(* Saving.                                                                 *)
(***************************************************************************)
\* ndtool_write_local_file: how writing the image i to f may end.  fopen empties the file
\* before it is written.  What stdio still holds is written by fclose, whose result is
\* dropped: the file may be cut short and the caller told that it was written.
WriteLocal(h, f, i) ==
  {[host |-> [h EXCEPT ![f] = i], ok |-> TRUE, whole |-> TRUE]}
  \union {[host |-> h, ok |-> FALSE, whole |-> FALSE] : fault \in Faults \intersect {"open"}}
  \union {[host |-> [h EXCEPT ![f] = Torn], ok |-> fault = "close", whole |-> FALSE] :
            fault \in Faults \intersect {"write", "close"}}

\* What a save comes to that writes nothing, with success or without.
Unwritten(ok) == [host |-> host, ok |-> ok, whole |-> ok]

\* Where image_path leads.  After "save F" it points at offset 5 of the line buffer, which
\* the next command overwrites: what stands there is the rest of the command word, an
\* argument, or nothing.
Target(rest) == IF path = "line" THEN rest ELSE path

\* Bug: -n is left to the commands.
SaveImageAlways(i, rest) ==
  IF Target(rest) = "nothing" THEN {Unwritten(FALSE)}
  ELSE WriteLocal(host, Target(rest), i)

\* ndtool_save_image: the outcomes of saving i.
SaveImage(i, rest) ==
  IF dry THEN {Unwritten(TRUE)}
  ELSE IF Target(rest) = "nothing" THEN {Unwritten(FALSE)}
  ELSE WriteLocal(host, Target(rest), i)

-----------------------------------------------------------------------------
\* A command line is done after its command, the shell reads the next.
Command ==
  /\ mode \in {"shell", "once"} /\ commands < MaxCommands
  /\ commands' = commands + 1
  /\ mode' = IF mode = "once" THEN "left" ELSE mode
  /\ UNCHANGED dry

Says(what)  == said' = what
KeepsFiles  == UNCHANGED <<host, path, named, failed, short>>
KeepsAll    == UNCHANGED <<im, modified>> /\ KeepsFiles

\* Saving ended with the outcome s.
Ended(s) ==
  /\ host' = s.host
  /\ failed' = (failed \/ ~s.whole)
  /\ short' = (s.ok /\ ~s.whole)

\* The image i is in memory and was saved with the outcome s.
Saved(i, s, word) ==
  /\ im' = i
  /\ Ended(s)
  /\ modified' = IF s.ok THEN FALSE ELSE modified
  /\ Says(word)
  /\ UNCHANGED <<path, named>>

(***************************************************************************)
(* The commands of cmd_user.c and cmd_delete.c.  What they look up comes   *)
(* first; with -n they only say what they would do; otherwise they make    *)
(* the call and save the image.                                            *)
(***************************************************************************)
\* Bug: a command that could not save the image says that it has.
StoreCarelessly(found, result, rest) ==
  /\ Command
  /\ \/ ~found /\ KeepsAll /\ Says("refused")
     \/ found /\ dry /\ KeepsAll /\ Says("dry")
     \/ found /\ ~dry /\ ~result.ok /\ KeepsAll /\ Says("refused")
     \/ found /\ ~dry /\ result.ok /\ \E s \in SaveImage(result.im, rest) :
          Saved(result.im, s, "stored")

Store(found, result, rest) ==
  /\ Command
  /\ \/ ~found /\ KeepsAll /\ Says("refused")
     \/ found /\ dry /\ KeepsAll /\ Says("dry")
     \/ found /\ ~dry /\ ~result.ok /\ KeepsAll /\ Says("refused")
     \/ found /\ ~dry /\ result.ok /\ \E s \in SaveImage(result.im, rest) :
          Saved(result.im, s, IF s.ok THEN "stored" ELSE "unsaved")

Useradd(name, quota) == Store(TRUE, AddUser(im, name, quota), "stray")

Userdel(name) ==
  Store(Named(im, name) # {}, RemoveUser(im, TheUser(im, name)), "stray")

Quotaadd(name, pages) ==
  LET u == TheUser(im, name) IN
  Store(Named(im, name) # {} /\ pages <= FreePages(im),
        SetQuota(im, u, im.users[u].reserved + pages), "stray")

\* Bug: the pages in use are not looked at.
QuotadelBelowUse(name, pages) ==
  LET u == TheUser(im, name) IN
  Store(Named(im, name) # {} /\ pages <= im.users[u].reserved,
        SetQuota(im, u, im.users[u].reserved - pages), "stray")

Quotadel(name, pages) ==
  LET u == TheUser(im, name) IN
  Store(Named(im, name) # {} /\ pages <= im.users[u].reserved
          /\ im.users[u].reserved - pages >= UsedBy(im, u),
        SetQuota(im, u, im.users[u].reserved - pages), "stray")

Passwd(name) == Store(TRUE, ClearPassword(im, name), "stray")

\* Object blocks are given and taken by a command line only.
Giveobjblocks(name, n) ==
  /\ mode = "once"
  /\ Store(Named(im, name) # {} /\ im.users[TheUser(im, name)].max + n <= MaxBlocks,
           GiveBlocks(im, name, n), "stray")
Takeobjblocks(name, n) ==
  mode = "once" /\ Store(Named(im, name) # {}, TakeBlocks(im, name, n), "stray")

-----------------------------------------------------------------------------
(***************************************************************************)
(* What the shell does itself, it does to the image in memory only, -n or  *)
(* not, and marks the image modified.                                      *)
(***************************************************************************)
\* Bug: the image is not marked.
ChangeUnmarked(result) ==
  /\ mode = "shell" /\ Command
  /\ im' = result.im
  /\ Says(IF result.ok THEN "changed" ELSE "refused")
  /\ UNCHANGED modified /\ KeepsFiles

Change(result) ==
  /\ mode = "shell" /\ Command
  /\ im' = result.im
  /\ modified' = (modified \/ result.ok)
  /\ Says(IF result.ok THEN "changed" ELSE "refused")
  /\ KeepsFiles

\* cmd_friend_add and cmd_friend_del of a command line, friendadd and frienddel of the shell.
Friendadd(owner, ref, rights) ==
  LET added == AddFriend(im, owner, ref, rights) IN
  Change(added) \/ (mode = "once" /\ Store(TRUE, added, "stray"))
Frienddel(owner, ref) ==
  LET removed == RemoveFriend(im, owner, ref) IN
  Change(removed) \/ (mode = "once" /\ Store(TRUE, removed, "stray"))

Rm(u, name) ==
  LET removed == DeleteFile(im, u, name) IN
  Change(removed) \/ (mode = "once" /\ Store(TRUE, removed, "stray"))
Mv(u, name, new) == Change(Rename(im, u, name, new))

\* The edited file is written back, unless the editor was done within the second in which
\* it started: the size compared is the one before.
Edit(u, name, text) ==
  /\ HasFile(im, u, name)
  /\ \/ Change(WriteFile(im, im.files[FirstFile(im, u, name)].owner, name, text, DefaultAccess))
     \/ mode = "shell" /\ Command /\ KeepsAll /\ Says("unchanged")

-----------------------------------------------------------------------------
(***************************************************************************)
(* cmd_put: one host file, or all that match a wildcard.  The image is     *)
(* saved once, and only when every file could be copied.                   *)
(***************************************************************************)
PutOne(state, file, user, text, replace) ==
  LET u       == TheUser(state.im, user)
      exists  == IsUser(state.im, user) /\ HasFile(state.im, u, file)
      written == WriteFile(state.im, user, file, text, DefaultAccess) IN
  IF file = Unreadable THEN [state EXCEPT !.ok = FALSE]
  ELSE IF dry \/ (exists /\ ~replace) THEN state
  ELSE IF ~written.ok THEN [state EXCEPT !.ok = FALSE]
  ELSE [state EXCEPT !.im = written.im, !.modified = TRUE]

PutAll(batch, user, text, replace) ==
  FoldLeftDomain(LAMBDA state, k : PutOne(state, batch[k], user, text, replace[k]),
                 [im |-> im, modified |-> modified, ok |-> batch # <<>>], batch)

Put(batch, user, text, replace, rest) ==
  LET all  == PutAll(batch, user, text, replace)
      save == all.ok /\ all.modified IN
  /\ Command
  /\ im' = all.im
  /\ \E s \in IF save THEN SaveImage(all.im, rest) ELSE {Unwritten(TRUE)} :
       /\ Ended(s)
       /\ modified' = (mode = "shell" \/ (all.modified /\ ~(save /\ s.ok)))
       /\ Says(CASE ~all.ok        -> "refused"
                 [] all.ok /\ ~save -> "skipped"
                 [] save /\ s.ok    -> IF dry THEN "dry" ELSE "stored"
                 [] OTHER           -> "unsaved")
  /\ UNCHANGED <<path, named>>

(***************************************************************************)
(* cmd_chmod looks the file up under its user, and sets the access of the  *)
(* first file of that name, whoever owns it.  The mark is cleared before   *)
(* the image is saved.                                                     *)
(***************************************************************************)
Chmod(u, name, clause) ==
  LET found  == HasFile(im, u, name)
      before == im.files[FirstFile(im, u, name)].access
      after  == Apply(before, clause)
      set    == SetAccess(im, NoOne, name, after) IN
  /\ Command
  /\ \/ ~found /\ KeepsAll /\ Says("refused")
     \/ found /\ (dry \/ after = before) /\ KeepsAll /\ Says("dry")
     \/ found /\ ~dry /\ after # before /\ \E s \in SaveImage(set.im, "nothing") :
          /\ im' = set.im
          /\ Ended(s)
          /\ modified' = FALSE
          /\ Says(IF s.ok THEN "stored" ELSE "unsaved")
          /\ UNCHANGED <<path, named>>

-----------------------------------------------------------------------------
(***************************************************************************)
(* save [F], quit, and the end of input.  Whether saving worked is not     *)
(* looked at by either.                                                    *)
(***************************************************************************)
\* save without a name: offset 5 of "save" is past its end.
Save ==
  /\ mode = "shell" /\ Command
  /\ \E s \in SaveImage(im, "nothing") : Ended(s)
  /\ modified' = FALSE
  /\ Says("saved")
  /\ UNCHANGED <<im, path, named>>

SaveAs(f) ==
  /\ mode = "shell" /\ Command
  /\ path' = "line"
  /\ named' = f
  /\ \E s \in IF dry THEN SaveImage(im, f) ELSE WriteLocal(host, f, im) : Ended(s)
  /\ modified' = FALSE
  /\ Says("saved")
  /\ UNCHANGED im

Leave(word) == mode' = "left" /\ Says(word) /\ UNCHANGED <<im, path, modified, dry, named, commands>>

Quit ==
  /\ mode = "shell"
  /\ \/ ~modified /\ Leave("left") /\ UNCHANGED <<host, failed, short>>
     \/ modified /\ Leave("discarded") /\ UNCHANGED <<host, failed, short>>
     \/ modified /\ Leave("saved") /\ \E s \in SaveImage(im, "nothing") : Ended(s)

EndOfInput == mode = "shell" /\ Leave("discarded") /\ UNCHANGED <<host, failed, short>>

-----------------------------------------------------------------------------
OnUsers ==
  \E n \in UserNames :
    \/ Userdel(n) \/ Passwd(n)
    \/ \E a \in Amounts :
         Useradd(n, a) \/ Quotaadd(n, a) \/ Quotadel(n, a) \/ Giveobjblocks(n, a) \/ Takeobjblocks(n, a)
    \/ \E ref \in UserNames \union UserIds : Frienddel(n, ref) \/ \E r \in Rights : Friendadd(n, ref, r)

OnFiles ==
  \/ \E u \in UserIds, n \in FileNames :
       \/ Rm(u, n)
       \/ \E new \in FileNames : Mv(u, n, new)
       \/ \E c \in Clauses : Chmod(u, n, c)
       \/ \E t \in Texts : Edit(u, n, t)
  \/ \E b \in Batches, n \in UserNames, t \in Texts, rest \in {"stray", "nothing"} :
       \E replace \in [DOMAIN b -> BOOLEAN] : Put(b, n, t, replace, rest)

Leaving == Save \/ (\E f \in {"opened", "other"} : SaveAs(f)) \/ Quit \/ EndOfInput

Next == OnUsers \/ OnFiles \/ Leaving

Spec == Init /\ [][Next]_vars

-----------------------------------------------------------------------------
\* ctx->modified is what quit relies on to ask: until a name has been given to save, and
\* while no write has failed, noticed or not, an image that is not marked is the image on the
\* host.  It is set and cleared by a dozen commands, some of which save for those before them.
UnmarkedIsStored ==
  mode = "shell" /\ ~modified /\ ~dry /\ ~failed /\ path = "opened" => host["opened"] = im

\* A command that reports success has stored its change, all of it, unless its write failed at
\* fclose only, whose result is dropped: then the file is cut short and success is reported all
\* the same.  A command line that reports failure has left the file on the host as it was, or
\* cut short by a write that failed.
ExitStatusTellsTruth ==
  /\ said = "stored" /\ path = "opened" => host["opened"] = IF short THEN Torn ELSE im
  /\ mode = "left" /\ said \in {"refused", "skipped", "dry"} => host["opened"] = First
  /\ mode = "left" /\ said = "unsaved" => host["opened"] \in {First, Torn}

\* With -n no host file is ever written, also by save and quit.
DryRunWritesNothing ==
  dry => host = [f \in HostFiles |-> IF f = "opened" THEN First ELSE Absent]

FriendsStayDistinct == FriendsDistinct(im)
QuotaStaysCovered   == QuotaCoversUse(im)

\* "Image saved to" and the answer y to "Save before quitting?": the file the operator named
\* last holds the image.  Asked on a host where no write fails (Faults is empty).
SavedMeansSaved == said = "saved" /\ ~dry => host[named] = im
=============================================================================

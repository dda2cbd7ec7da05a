------------------------------- MODULE Directory -------------------------------
(***************************************************************************)
(* What a volume promises to those who use it: files that belong to users, *)
(* each call done whole or not at all, and a user charged for what his     *)
(* files occupy.  Closing the volume and opening it again changes nothing. *)
(***************************************************************************)
EXTENDS FiniteSets, Naturals

VARIABLES
  files,    \* each with an id, its owner, its name, its text and the pages it is charged for
  users,
  charged,  \* user -> pages
  out,      \* what the last call answered: "ok", a refusal, or "opened"
  broken    \* the volume has lost something: nothing is promised any more

dirVars == <<files, users, charged, out, broken>>

OwnedBy(S, u) == {f \in S : f.user = u}
Charges(S, U) == [u \in U |-> Cardinality(UNION {f.pages : f \in OwnedBy(S, u)})]

Twins(f, g) == f.user = g.user /\ f.name = g.name
Share(f, g) == f.pages \intersect g.pages # {}

DirInit ==
  /\ files = {}
  /\ charged = Charges({}, users)
  /\ broken = FALSE

\* A new file of an existing user, who has none of that name, on pages of its own.
Creates(old, new) ==
  /\ old \subseteq new
  /\ \E f \in new : /\ new \ old = {f}
                    /\ f.user \in users
                    /\ \A g \in old : g.id # f.id /\ ~Twins(f, g) /\ ~Share(f, g)

\* Another text or another name for one file, which stays whose it was.
Changes(old, new) ==
  \E f \in old, g \in new :
    /\ old \ new = {f} /\ new \ old = {g}
    /\ g.id = f.id /\ g.user = f.user
    /\ g.text = f.text \/ g.name = f.name
    /\ \A h \in old \ {f} : ~Share(g, h)

Deletes(old, new) == new \subseteq old /\ Cardinality(old \ new) = 1

\* Users come and go, those who have files stay.
Enrols(old, new) == new = old /\ \A f \in old : f.user \in users'

Done ==
  /\ out' = "ok"
  /\ LET old == files
         new == files' IN
     /\ \/ Enrols(old, new)
        \/ users' = users /\ (Creates(old, new) \/ Changes(old, new) \/ Deletes(old, new))
     /\ charged' = Charges(new, users')

\* A patch that meets a hole has changed what lies before it; nobody pays for that.
DonePartly ==
  /\ out' = "corrupt"
  /\ Changes(files, files')
  /\ UNCHANGED <<users, charged>>
  /\ charged' = Charges(files', users')

\* A call that changes no file, is refused, or opens the volume again.
NothingDone == UNCHANGED <<files, users, charged>>

DirNext ==
  \/ broken'
  \/ ~broken /\ (NothingDone \/ Done \/ DonePartly) /\ UNCHANGED broken

DirSpec == DirInit /\ [][DirNext]_dirVars
==============================================================================

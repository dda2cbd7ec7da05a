------------------------------- MODULE Accounts -------------------------------
(***************************************************************************)
(* An image as its users and files: the calls of filesystem.c on user      *)
(* records, friends, passwords and access words, and the file calls the    *)
(* tool makes, for files of one page.  Each operator is one call: it gives *)
(* the image after it and whether the call succeeded.  How the pages of an *)
(* image change is the subject of module Volume.                           *)
(***************************************************************************)
EXTENDS SequencesExt

CONSTANTS
  UserIds,     \* the user indexes, 0 .. 255 in the code
  MaxFriends,  \* friend slots of a user record, 8 in the code
  MaxBlocks,   \* object blocks a user may be given, 16 in the code
  Disk,        \* the pages files can take
  Tiers,       \* OWN, FRIEND, PUBLIC
  NoOne        \* an inactive friend slot; the user of a path that names none

ASSUME AccountsAssumption ==
  /\ UserIds \subseteq Nat
  /\ MaxFriends \in Nat \ {0} /\ MaxBlocks \in Nat \ {0} /\ Disk \in Nat
  /\ NoOne \notin UserIds \X {"R", "RWA"}

\* A call that went through, and one that is refused and leaves the image as it was.
Done(i)    == [im |-> i, ok |-> TRUE]
Refusal(i) == [im |-> i, ok |-> FALSE]
When(guard, i, j) == IF guard THEN Done(j) ELSE Refusal(i)

-----------------------------------------------------------------------------
\* find_user_by_name and find_user_by_index: a reference is a name or an index.
Named(i, name)  == {u \in DOMAIN i.users : i.users[u].name = name}
UserOf(i, ref)  == IF ref \in UserIds THEN {ref} \intersect DOMAIN i.users ELSE Named(i, ref)
TheUser(i, ref) == CHOOSE u \in UserOf(i, ref) : TRUE
IsUser(i, ref)  == UserOf(i, ref) # {}

\* resolve_friend_index: an index needs no user behind it.
FriendOf(i, ref) == IF ref \in UserIds THEN {ref} ELSE Named(i, ref)

\* find_object: the first file of that name in the table; without user, of any user.
IsFile(f, u, name) == f.name = name /\ u \in {f.owner, NoOne}
HasFile(i, u, name) == \E k \in DOMAIN i.files : IsFile(i.files[k], u, name)
FirstFile(i, u, name) == SelectInSeq(i.files, LAMBDA f : IsFile(f, u, name))

UsedBy(i, u)  == Cardinality({k \in DOMAIN i.files : i.files[k].owner = u})
FreePages(i)  == Disk - Len(i.files)

-----------------------------------------------------------------------------
(***************************************************************************)
(* Users.                                                                  *)
(***************************************************************************)
FreshUser(name, quota) ==
  [name |-> name, reserved |-> quota, password |-> FALSE, max |-> 1,
   friends |-> [s \in 1 .. MaxFriends |-> NoOne]]

WithUser(i, u, record) ==
  [i EXCEPT !.users = [v \in DOMAIN @ \union {u} |-> IF v = u THEN record ELSE @[v]]]

AddUser(i, name, quota) ==
  LET free == UserIds \ DOMAIN i.users IN
  IF Named(i, name) # {} \/ free = {} THEN Refusal(i)
  ELSE Done(WithUser(i, Min(free), FreshUser(name, quota)))

\* The friend slots of others that hold the index keep it.
RemoveUser(i, u) ==
  When(u \in DOMAIN i.users /\ UsedBy(i, u) = 0,
       i, [i EXCEPT !.users = [v \in DOMAIN @ \ {u} |-> @[v]]])

SetQuota(i, u, pages) ==
  IF u \in DOMAIN i.users THEN Done([i EXCEPT !.users[u].reserved = pages]) ELSE Refusal(i)

ClearPassword(i, name) ==
  IF Named(i, name) = {} THEN Refusal(i)
  ELSE Done([i EXCEPT !.users[TheUser(i, name)].password = FALSE])

GiveBlocks(i, name, n) ==
  LET u == TheUser(i, name) IN
  IF Named(i, name) = {} THEN Refusal(i)
  ELSE When(i.users[u].max + n <= MaxBlocks, i, [i EXCEPT !.users[u].max = @ + n])

\* Only the first object block of a user is ever allocated here.
TakeBlocks(i, name, n) ==
  LET u == TheUser(i, name) IN
  IF Named(i, name) = {} THEN Refusal(i)
  ELSE When(i.users[u].max - n >= 1, i, [i EXCEPT !.users[u].max = @ - n])

-----------------------------------------------------------------------------
(***************************************************************************)
(* Friends: eight slots in the owner's record, each an index and rights.   *)
(***************************************************************************)
Befriends(slot, f) == slot # NoOne /\ slot[1] = f
IsFriend(record, f) == \E s \in 1 .. MaxFriends : Befriends(record.friends[s], f)
FreeSlots(record)   == {s \in 1 .. MaxFriends : record.friends[s] = NoOne}
SlotsOf(record, f)  == {s \in 1 .. MaxFriends : Befriends(record.friends[s], f)}

\* Bug: a friend is added without looking for it among the friends there are.
AddFriendTwice(i, owner, ref, rights) ==
  LET u == TheUser(i, owner)
      f == CHOOSE f \in FriendOf(i, ref) : TRUE IN
  IF ~IsUser(i, owner) \/ FriendOf(i, ref) = {} THEN Refusal(i)
  ELSE IF FreeSlots(i.users[u]) = {} THEN Refusal(i)
  ELSE Done([i EXCEPT !.users[u].friends[Min(FreeSlots(i.users[u]))] = <<f, rights>>])

AddFriend(i, owner, ref, rights) ==
  LET u == TheUser(i, owner)
      f == CHOOSE f \in FriendOf(i, ref) : TRUE IN
  IF ~IsUser(i, owner) \/ FriendOf(i, ref) = {} THEN Refusal(i)
  ELSE IF IsFriend(i.users[u], f) \/ FreeSlots(i.users[u]) = {} THEN Refusal(i)
  ELSE Done([i EXCEPT !.users[u].friends[Min(FreeSlots(i.users[u]))] = <<f, rights>>])

RemoveFriend(i, owner, ref) ==
  LET u == TheUser(i, owner)
      f == CHOOSE f \in FriendOf(i, ref) : TRUE IN
  IF ~IsUser(i, owner) \/ FriendOf(i, ref) = {} THEN Refusal(i)
  ELSE IF ~IsFriend(i.users[u], f) THEN Refusal(i)
  ELSE Done([i EXCEPT !.users[u].friends[Min(SlotsOf(i.users[u], f))] = NoOne])

-----------------------------------------------------------------------------
(***************************************************************************)
(* Files.                                                                  *)
(***************************************************************************)
\* ndfs_write_file for one page: an existing file is rewritten where it is, a new one is
\* charged to its owner, whose reservation grows when it has no room left.
WriteFile(i, user, name, text, access) ==
  LET u    == TheUser(i, user)
      new  == [owner |-> u, name |-> name, text |-> text, access |-> access]
      more == IF i.users[u].reserved > UsedBy(i, u) THEN 0 ELSE 1 IN
  IF ~IsUser(i, user) THEN Refusal(i)
  ELSE IF HasFile(i, u, name) THEN Done([i EXCEPT !.files[FirstFile(i, u, name)].text = text])
  ELSE When(FreePages(i) >= 1, i,
            [i EXCEPT !.files = Append(@, new), !.users[u].reserved = @ + more])

DeleteFile(i, u, name) ==
  IF HasFile(i, u, name) THEN Done([i EXCEPT !.files = RemoveAt(@, FirstFile(i, u, name))])
  ELSE Refusal(i)

\* The new name is not looked for among the files of the owner.
Rename(i, u, name, new) ==
  IF HasFile(i, u, name) THEN Done([i EXCEPT !.files[FirstFile(i, u, name)].name = new])
  ELSE Refusal(i)

\* A clause of chmod: the tiers it names get, gain or lose the rights.
Apply(access, clause) ==
  [t \in Tiers |->
     IF t \notin clause.tiers THEN access[t]
     ELSE CASE clause.op = "=" -> clause.rights
            [] clause.op = "+" -> access[t] \union clause.rights
            [] clause.op = "-" -> access[t] \ clause.rights]

SetAccess(i, u, name, access) ==
  IF HasFile(i, u, name) THEN Done([i EXCEPT !.files[FirstFile(i, u, name)].access = access])
  ELSE Refusal(i)

-----------------------------------------------------------------------------
\* No user has one friend in two slots: removing a friend would leave the other slot, with
\* its rights, behind (ndfs_ue_add_friend and ndfs_ue_remove_friend look no further than
\* the first slot that fits).
FriendsDistinct(i) ==
  \A u \in DOMAIN i.users, f \in UserIds : Cardinality(SlotsOf(i.users[u], f)) <= 1

\* Every file has an owner, and no user holds more pages than are reserved for him: writes
\* raise the reservation, --quotadel never takes it below what is in use.
QuotaCoversUse(i) ==
  /\ \A k \in DOMAIN i.files : i.files[k].owner \in DOMAIN i.users
  /\ \A u \in DOMAIN i.users : i.users[u].reserved >= UsedBy(i, u)
=============================================================================

---------------------------- MODULE ScopeProofs ----------------------------
(***************************************************************************)
(* Proofs about Scope: its types, that what is opened is permitted and     *)
(* what is refused forbidden, however many directories there are, whenever *)
(* they come into being, and whatever scopes replace one another while an  *)
(* open is under way.                                                      *)
(***************************************************************************)
EXTENDS Scope, TLAPS

-----------------------------------------------------------------------------
(* The file system.                                                        *)

LEMMA MissingIsNoPath == Missing \notin Paths
BY PathAssumption

LEMMA WorldFacts ==
    ASSUME NEW f \in Worlds
    PROVE  /\ f \in [Paths -> Paths \union {Missing}]
           /\ \A p \in Paths : f[p] # Missing => f[p] \in Paths /\ f[f[p]] = f[p]
           /\ \A c, p \in Paths : f[c] = c /\ under_root(p, c) => f[p] = p
BY PathAssumption DEF World

LEMMA GrownTransitive ==
    ASSUME NEW f, NEW g, NEW h, Grown(f, g), Grown(g, h)
    PROVE  Grown(f, h)
BY DEF Grown

LEMMA GrownReflexive == \A f : Grown(f, f)
BY DEF Grown

-----------------------------------------------------------------------------
(* Roots and the directories they stand for.                               *)

(* A root goes on standing for its directory as the file system grows.     *)
LEMMA StandsGrows ==
    ASSUME NEW f, NEW g, Grown(f, g), NEW root, NEW dir \in Paths,
           Stands(root, dir, f)
    PROVE  Stands(root, dir, g)
BY DEF Grown, Stands

LEMMA ConfiguredGrows ==
    ASSUME NEW f, NEW g, Grown(f, g), NEW roots, NEW dirs \in SUBSET Paths,
           NEW left, Configured(roots, dirs, left, f)
    PROVE  Configured(roots, dirs, left, g)
<1>1. left \subseteq dirs
  BY DEF Configured
<1>2. \A root \in roots : \E dir \in dirs : Stands(root, dir, g)
  <2> SUFFICES ASSUME NEW root \in roots
               PROVE  \E dir \in dirs : Stands(root, dir, g)
    OBVIOUS
  <2>1. PICK dir \in dirs : Stands(root, dir, f)
    BY DEF Configured
  <2>2. QED
    BY <2>1, StandsGrows
<1>3. \A dir \in dirs \ left : \E root \in roots : Stands(root, dir, g)
  <2> SUFFICES ASSUME NEW dir \in dirs \ left
               PROVE  \E root \in roots : Stands(root, dir, g)
    OBVIOUS
  <2>1. PICK root \in roots : Stands(root, dir, f)
    BY DEF Configured
  <2>2. QED
    BY <2>1, StandsGrows
<1>4. QED
  BY <1>1, <1>2, <1>3 DEF Configured

(* A root is compared by the place of the directory it stands for.         *)
LEMMA PlaceOfRoot ==
    ASSUME fs \in Worlds, NEW root, NEW dir \in Paths,
           Stands(root, dir, fs), fs[dir] # Missing
    PROVE  Place(root) = fs[dir]
<1>1. fs[dir] \in Paths /\ fs[fs[dir]] = fs[dir]
  BY WorldFacts
<1>2. CASE root.path = fs[dir]
  BY <1>1, <1>2 DEF Place
<1>3. CASE ~root.pinned /\ root.path = dir
  BY <1>3 DEF Place
<1>4. QED
  BY <1>2, <1>3 DEF Stands

(* What covers a file stands for a directory that exists, above that file. *)
LEMMA CoverIsWithin ==
    ASSUME fs \in Worlds, NEW root, NEW dir \in Paths,
           Stands(root, dir, fs), canon \in Paths, fs[canon] = canon,
           covers(root)
    PROVE  fs[dir] # Missing /\ under_root(fs[dir], canon)
<1>1. CASE fs[dir] # Missing
  BY <1>1, PlaceOfRoot DEF covers
<1>2. CASE fs[dir] = Missing
  <2>1. root.path = dir /\ ~root.pinned
    BY <1>2 DEF Stands
  <2>2. Place(root) = dir
    BY <1>2, <2>1 DEF Place
  <2>3. under_root(dir, canon)
    BY <2>2 DEF covers
  <2>4. fs[dir] = dir
    BY <2>3, WorldFacts
  <2>5. QED
    BY <1>2, <2>4, MissingIsNoPath
<1>3. QED
  BY <1>1, <1>2

LEMMA RootStands ==
    ASSUME fs \in Worlds, NEW dir \in Paths
    PROVE  Root(dir) \in RootType /\ Stands(Root(dir), dir, fs)
<1>1. fs[dir] \in Paths \union {Missing}
  BY WorldFacts
<1>2. CASE fs[dir] # Missing
  BY <1>1, <1>2 DEF Root, RootType, Stands
<1>3. CASE fs[dir] = Missing
  BY <1>3 DEF Root, RootType, Stands
<1>4. QED
  BY <1>2, <1>3

(* An entry that makes the new one superfluous stands for its directory:   *)
(* this is what the test on the path alone, pinned or not, relies on.      *)
LEMMA SuperfluousStands ==
    ASSUME fs \in Worlds, NEW dir \in Paths, NEW r \in RootType,
           r.path = Root(dir).path, NEW e \in Paths, Stands(r, e, fs)
    PROVE  Stands(r, dir, fs)
<1>1. CASE fs[dir] # Missing
  BY <1>1 DEF Root, Stands
<1>2. CASE fs[dir] = Missing
  <2>1. r.path = dir
    BY <1>2 DEF Root
  <2>2. CASE fs[e] # Missing /\ r.path = fs[e]
    BY <1>2, <2>1, <2>2, WorldFacts
  <2>3. CASE ~r.pinned
    BY <2>1, <2>3 DEF Stands
  <2>4. QED
    BY <2>2, <2>3 DEF Stands
<1>3. QED
  BY <1>1, <1>2

(* One more directory configured: allow_dir and deny_dir.                  *)
LEMMA AddedConfigured ==
    ASSUME fs \in Worlds, NEW roots \in SUBSET RootType, OnePerPath(roots),
           NEW dirs \in SUBSET Paths, NEW left, Configured(roots, dirs, left, fs),
           NEW dir \in left
    PROVE  LET new == Added(roots, Root(dir))
           IN  /\ new \in SUBSET RootType /\ OnePerPath(new)
               /\ Configured(new, dirs, left \ {dir}, fs)
<1> DEFINE new == Added(roots, Root(dir))
<1>1. dir \in dirs /\ dir \in Paths /\ left \subseteq dirs
  BY DEF Configured
<1>2. Root(dir) \in RootType /\ Stands(Root(dir), dir, fs)
  BY <1>1, RootStands
<1>3. roots \subseteq new /\ new \subseteq roots \union {Root(dir)}
  BY DEF Added
<1>4. OnePerPath(new)
  BY <1>3 DEF Added, OnePerPath
<1>5. \E r \in new : Stands(r, dir, fs)
  <2>1. CASE \E r \in roots : r.path = Root(dir).path
    <3>1. PICK r \in roots : r.path = Root(dir).path
      BY <2>1
    <3>2. PICK e \in dirs : Stands(r, e, fs)
      BY DEF Configured
    <3>3. Stands(r, dir, fs)
      BY <1>1, <3>1, <3>2, SuperfluousStands
    <3>4. QED
      BY <1>3, <3>3
  <2>2. CASE ~\E r \in roots : r.path = Root(dir).path
    BY <1>2, <2>2 DEF Added
  <2>3. QED
    BY <2>1, <2>2
<1>6. \A r \in new : \E d \in dirs : Stands(r, d, fs)
  BY <1>1, <1>2, <1>3 DEF Configured
<1>7. \A d \in dirs \ (left \ {dir}) : \E r \in new : Stands(r, d, fs)
  BY <1>3, <1>5 DEF Configured
<1> HIDE DEF new
<1>8. Configured(new, dirs, left \ {dir}, fs)
  BY <1>1, <1>6, <1>7 DEF Configured
<1>9. QED
  BY <1>2, <1>3, <1>4, <1>8 DEF new

-----------------------------------------------------------------------------
(* The invariant, thread by thread.                                        *)

LEMMA ScopeFacts ==
    ASSUME NEW sc \in ScopeType
    PROVE  /\ sc # NoScope
           /\ sc.roots \in SUBSET RootType /\ sc.denies \in SUBSET RootType
           /\ sc.policy \in Policies /\ sc.policy.permissive \in BOOLEAN
           /\ sc.policy.allow \in SUBSET Paths
           /\ sc.policy.deny \in SUBSET Paths
BY PolicyAssumption DEF ScopeType

LEMMA TypedScopes ==
    ASSUME TypeOK
    PROVE  /\ draft # NoScope => draft \in ScopeType
           /\ slot # NoScope => slot \in ScopeType
           /\ scope # NoScope => scope \in ScopeType
BY DEF TypeOK

LEMMA InitInv == Init => IInv
<1> SUFFICES ASSUME Init PROVE IInv
  OBVIOUS
<1>1. TypeOK
  BY DEF Init, TypeOK
<1>2. Scopes
  BY DEF Init, Scopes
<1>3. Verdict
  BY GrownReflexive DEF Init, Verdict, ApprovedIsPermitted
<1>4. QED
  BY <1>1, <1>2, <1>3 DEF IInv

(* What the configuring thread does is nothing to an open under way.       *)
LEMMA VerdictKept ==
    ASSUME Verdict, UNCHANGED <<fs, opc, locals>>
    PROVE  Verdict'
BY DEF Verdict, ApprovedIsPermitted, Pending, Within, locals

(* Each directory is added to a draft that stays faithful to its policy.   *)
LEMMA DirInv ==
    ASSUME IInv, NEW dir \in Paths, AllowDir(dir) \/ DenyDir(dir)
    PROVE  IInv'
<1>1. /\ draft # NoScope /\ draft \in ScopeType /\ fs \in Worlds
      /\ OnePerPath(draft.roots) /\ OnePerPath(draft.denies)
      /\ Faithful(draft, to_allow, to_deny)
  BY DEF IInv, Scopes, TypeOK, AllowDir, DenyDir
<1>2. UNCHANGED <<fs, slot, opc, request, scope, canon, todo, begun>>
  BY DEF AllowDir, DenyDir, locals
<1>3. /\ draft' \in ScopeType
      /\ OnePerPath(draft'.roots) /\ OnePerPath(draft'.denies)
      /\ Faithful(draft', to_allow', to_deny')
      /\ to_allow' \subseteq Paths /\ to_deny' \subseteq Paths
  <2>1. CASE AllowDir(dir)
    <3> DEFINE new == Added(draft.roots, Root(dir))
    <3>1. dir \in to_allow /\ draft' = [draft EXCEPT !.roots = new]
          /\ to_allow' = to_allow \ {dir} /\ to_deny' = to_deny
      BY <2>1 DEF AllowDir
    <3>2. Configured(draft.roots, draft.policy.allow, to_allow, fs)
      BY <1>1 DEF Faithful
    <3>3. /\ new \in SUBSET RootType /\ OnePerPath(new)
          /\ Configured(new, draft.policy.allow, to_allow \ {dir}, fs)
      BY <1>1, <3>1, <3>2, ScopeFacts, AddedConfigured
    <3> HIDE DEF new
    <3>4. /\ draft' \in ScopeType /\ draft'.roots = new
          /\ draft'.denies = draft.denies /\ draft'.policy = draft.policy
      BY <1>1, <3>1, <3>3 DEF ScopeType
    <3>5. Faithful(draft', to_allow', to_deny')
      BY <1>1, <1>2, <3>1, <3>3, <3>4 DEF Faithful
    <3>6. QED
      BY <1>1, <3>1, <3>3, <3>4, <3>5 DEF IInv, TypeOK
  <2>2. CASE DenyDir(dir)
    <3> DEFINE new == Added(draft.denies, Root(dir))
    <3>1. dir \in to_deny /\ draft' = [draft EXCEPT !.denies = new]
          /\ to_deny' = to_deny \ {dir} /\ to_allow' = to_allow
      BY <2>2 DEF DenyDir
    <3>2. Configured(draft.denies, draft.policy.deny, to_deny, fs)
      BY <1>1 DEF Faithful
    <3>3. /\ new \in SUBSET RootType /\ OnePerPath(new)
          /\ Configured(new, draft.policy.deny, to_deny \ {dir}, fs)
      BY <1>1, <3>1, <3>2, ScopeFacts, AddedConfigured
    <3> HIDE DEF new
    <3>4. /\ draft' \in ScopeType /\ draft'.denies = new
          /\ draft'.roots = draft.roots /\ draft'.policy = draft.policy
      BY <1>1, <3>1, <3>3 DEF ScopeType
    <3>5. Faithful(draft', to_allow', to_deny')
      BY <1>1, <1>2, <3>1, <3>3, <3>4 DEF Faithful
    <3>6. QED
      BY <1>1, <3>1, <3>3, <3>4, <3>5 DEF IInv, TypeOK
  <2>3. QED
    BY <2>1, <2>2
<1>4. TypeOK'
  BY <1>2, <1>3 DEF IInv, TypeOK
<1>5. draft' # NoScope
  BY <1>3, ScopeFacts
<1>6. Faithful(draft, to_allow, to_deny)'
  BY <1>2, <1>3 DEF Faithful
<1>7. Scopes'
  BY <1>1, <1>2, <1>5, <1>6 DEF IInv, Scopes, Faithful
<1>8. Verdict'
  BY <1>2, VerdictKept DEF IInv, locals
<1>9. QED
  BY <1>4, <1>7, <1>8 DEF IInv

LEMMA ConfigureInv == IInv /\ Configure => IInv'
<1> SUFFICES ASSUME IInv, Configure PROVE IInv'
  OBVIOUS
<1>1. ASSUME NEW p \in Policies, NewScope(p)
      PROVE  IInv'
  <2> DEFINE new == [policy |-> p, roots |-> {}, denies |-> {}]
  <2>1. /\ draft' = new /\ to_allow' = p.allow /\ to_deny' = p.deny
        /\ UNCHANGED <<fs, slot, opc, locals>>
    BY <1>1 DEF NewScope
  <2>2. /\ new \in ScopeType /\ p.allow \subseteq Paths /\ p.deny \subseteq Paths
        /\ new.policy = p /\ new.roots = {} /\ new.denies = {}
    BY PolicyAssumption DEF ScopeType
  <2> HIDE DEF new
  <2>3. TypeOK'
    <3>1. new \in ScopeType /\ OnePerPath(new.roots) /\ OnePerPath(new.denies)
      BY <2>2 DEF OnePerPath
    <3>2. QED
      BY <2>1, <2>2, <3>1 DEF IInv, TypeOK, locals
  <2>4. Faithful(draft, to_allow, to_deny)' /\ draft' # NoScope
    BY <2>1, <2>2, ScopeFacts DEF Faithful, Configured
  <2>5. Scopes'
    BY <2>1, <2>4 DEF IInv, Scopes, Faithful, locals
  <2>6. QED
    BY <2>1, <2>3, <2>5, VerdictKept DEF IInv
<1>2. ASSUME NEW dir \in Paths, AllowDir(dir) \/ DenyDir(dir)
      PROVE  IInv'
  BY <1>2, DirInv
<1>3. CASE Install
  <2>1. /\ to_allow = {} /\ to_deny = {} /\ slot' = draft /\ draft' = NoScope
        /\ draft # NoScope /\ UNCHANGED <<fs, to_allow, to_deny, opc, locals>>
    BY <1>3 DEF Install
  <2>2. Faithful(draft, {}, {})
    BY <2>1 DEF IInv, Scopes
  <2>3. TypeOK'
    BY <2>1 DEF IInv, TypeOK, locals
  <2>4. Scopes'
    BY <2>1, <2>2 DEF IInv, Scopes, Faithful, locals
  <2>5. QED
    BY <2>1, <2>3, <2>4, VerdictKept DEF IInv
<1>4. QED
  BY <1>1, <1>2, <1>3 DEF Configure

-----------------------------------------------------------------------------
(* An open under way.                                                      *)

(* A step that leaves the scopes alone, but for the clone it may take.     *)
LEMMA ScopesKept ==
    ASSUME Scopes, UNCHANGED <<fs, config, slot>>,
           scope' \in {NoScope, scope, slot}
    PROVE  Scopes'
BY DEF Scopes, Faithful, config

(* However a call ends.                                                    *)
LEMMA ReturnInv ==
    ASSUME IInv, NEW outcome, Return(outcome), UNCHANGED <<fs, config, slot>>
    PROVE  IInv'
<1>1. TypeOK'
  BY DEF IInv, TypeOK, Return, config
<1>2. Scopes'
  BY ScopesKept DEF IInv, Return
<1>3. Grown(fs, fs)
  BY GrownReflexive
<1>4. Verdict'
  BY <1>3 DEF Return, Verdict, ApprovedIsPermitted
<1>5. QED
  BY <1>1, <1>2, <1>4 DEF IInv

LEMMA CallInv ==
    ASSUME IInv, NEW path \in Requests, Call(path) PROVE IInv'
<1>1. /\ opc = "idle" /\ opc' = "called" /\ request' = path
      /\ UNCHANGED <<fs, config, slot, scope, canon, todo, begun>>
  BY DEF Call
<1>2. path \in Paths
  BY PathAssumption
<1>3. TypeOK'
  BY <1>1, <1>2 DEF IInv, TypeOK, config
<1>4. Scopes'
  BY <1>1, ScopesKept DEF IInv, Scopes
<1>5. Verdict'
  BY <1>1, <1>2 DEF IInv, Verdict, ApprovedIsPermitted
<1>6. QED
  BY <1>3, <1>4, <1>5 DEF IInv

LEMMA TakeScopeInv == ASSUME IInv, TakeScope PROVE IInv'
<1>1. /\ opc = "called" /\ slot # NoScope /\ scope' = slot
      /\ opc' = "resolving"
      /\ UNCHANGED <<fs, config, slot, request, canon, todo, begun>>
  BY DEF TakeScope
<1>2. TypeOK'
  BY <1>1 DEF IInv, TypeOK, config
<1>3. Scopes'
  BY <1>1, ScopesKept DEF IInv, Scopes
<1>4. Verdict'
  BY <1>1 DEF IInv, Verdict, ApprovedIsPermitted
<1>5. QED
  BY <1>2, <1>3, <1>4 DEF IInv

(* Every deny root is to be compared, so every denied directory is pending.*)
LEMMA CanonicaliseInv == ASSUME IInv, Canonicalise PROVE IInv'
<1>1. /\ opc = "resolving" /\ fs[request] # Missing
      /\ canon' = fs[request] /\ todo' = scope.denies /\ opc' = "denies"
      /\ UNCHANGED <<fs, config, slot, request, scope, begun>>
  BY DEF Canonicalise
<1>2. fs \in Worlds /\ request \in Paths /\ scope # NoScope
      /\ scope \in ScopeType /\ Faithful(scope, {}, {}) /\ Grown(begun, fs)
  BY <1>1, TypedScopes DEF IInv, TypeOK, Scopes, Verdict
<1>3. canon' \in Paths /\ fs[canon'] = canon'
  BY <1>1, <1>2, WorldFacts
<1>4. TypeOK'
  BY <1>1, <1>2, <1>3, ScopeFacts DEF IInv, TypeOK, config
<1>5. Scopes'
  BY <1>1, ScopesKept DEF IInv, Scopes
<1>6. Pending(scope.policy.deny)'
  BY <1>1, <1>2 DEF Pending, Faithful, Configured
<1>7. Verdict'
  BY <1>1, <1>2, <1>3, <1>6 DEF IInv, Verdict, ApprovedIsPermitted
<1>8. QED
  BY <1>4, <1>5, <1>7 DEF IInv

(* A root that does not cover the file stands for no directory that is     *)
(* above it.                                                               *)
LEMMA PendingKept ==
    ASSUME fs \in Worlds, Grown(begun, fs), NEW dirs \in SUBSET Paths,
           Pending(dirs), NEW root \in todo, ~covers(root),
           todo' = todo \ {root}, UNCHANGED <<fs, begun, canon>>
    PROVE  Pending(dirs)'
<1> SUFFICES ASSUME NEW dir \in dirs,
                    begun[dir] # Missing, under_root(begun[dir], canon)
             PROVE  \E r \in todo \ {root} : Stands(r, dir, fs)
  BY DEF Pending
<1>1. PICK r \in todo : Stands(r, dir, fs)
  BY DEF Pending
<1>2. fs[dir] = begun[dir]
  BY DEF Grown
<1>3. Place(r) = fs[dir]
  BY <1>1, <1>2, PlaceOfRoot
<1>4. covers(r)
  BY <1>2, <1>3 DEF covers
<1>5. QED
  BY <1>1, <1>4

LEMMA CompareInv == ASSUME IInv, NEW root \in todo, Compare(root) PROVE IInv'
<1>1. /\ opc \in {"denies", "allows"} /\ ~covers(root)
      /\ todo' = todo \ {root}
      /\ UNCHANGED <<fs, config, slot, opc, request, scope, canon, begun>>
  BY DEF Compare
<1>2. /\ fs \in Worlds /\ Grown(begun, fs)
      /\ scope.policy.deny \in SUBSET Paths
      /\ scope.policy.allow \in SUBSET Paths
  BY <1>1, TypedScopes, ScopeFacts DEF IInv, TypeOK, Verdict
<1>3. TypeOK'
  BY <1>1 DEF IInv, TypeOK, config
<1>4. Scopes'
  BY <1>1, ScopesKept DEF IInv, Scopes
<1>5. opc = "denies" => Pending(scope.policy.deny)'
  BY <1>1, <1>2, PendingKept DEF IInv, Verdict
<1>6. opc = "allows" => Pending(scope.policy.allow)'
  BY <1>1, <1>2, PendingKept DEF IInv, Verdict
<1>7. Verdict'
  BY <1>1, <1>5, <1>6
     DEF IInv, Verdict, ApprovedIsPermitted, Pending, Within
<1>8. QED
  BY <1>3, <1>4, <1>7 DEF IInv

(* Nothing is left to compare, so no denied directory is above the file.   *)
LEMMA NotDeniedInv == ASSUME IInv, NotDenied PROVE IInv'
<1>1. /\ opc = "denies" /\ todo = {}
      /\ \/ /\ scope.policy.permissive /\ opc' = "opening" /\ todo' = {}
         \/ /\ ~scope.policy.permissive
            /\ opc' = "allows" /\ todo' = scope.roots
      /\ UNCHANGED <<fs, config, slot, request, scope, canon, begun>>
  BY DEF NotDenied, AllowRoots
<1>2. /\ scope \in ScopeType /\ Faithful(scope, {}, {}) /\ scope # NoScope
  BY <1>1, TypedScopes DEF IInv, Scopes, Verdict
<1>3. TypeOK'
  BY <1>1, <1>2, ScopeFacts DEF IInv, TypeOK, config
<1>4. Scopes'
  BY <1>1, ScopesKept DEF IInv, Scopes
<1>5. ~Within(canon, scope.policy.deny, begun)
  BY <1>1 DEF IInv, Verdict, Pending, Within
<1>6. opc' = "allows" => Pending(scope.policy.allow)'
  BY <1>1, <1>2 DEF Pending, Faithful, Configured
<1>7. Verdict'
  BY <1>1, <1>5, <1>6 DEF IInv, Verdict, ApprovedIsPermitted, Within
<1>8. QED
  BY <1>3, <1>4, <1>7 DEF IInv

(* The root that covers the file stands for an allowed directory above it. *)
LEMMA AllowedInv == ASSUME IInv, Allowed PROVE IInv'
<1>1. /\ opc = "allows" /\ opc' = "opening" /\ todo' = {}
      /\ UNCHANGED <<fs, config, slot, request, scope, canon, begun>>
  BY DEF Allowed
<1>2. PICK root \in todo : covers(root)
  BY DEF Allowed
<1>3. /\ fs \in Worlds /\ scope # NoScope /\ scope \in ScopeType
      /\ Faithful(scope, {}, {}) /\ root \in scope.roots
      /\ canon \in Paths /\ fs[canon] = canon
  BY <1>1, TypedScopes DEF IInv, TypeOK, Scopes, Verdict
<1>4. PICK dir \in scope.policy.allow : Stands(root, dir, fs)
  BY <1>3 DEF Faithful, Configured
<1>5. Within(canon, scope.policy.allow, fs)
  BY <1>2, <1>3, <1>4, ScopeFacts, CoverIsWithin DEF Within
<1>6. TypeOK'
  BY <1>1 DEF IInv, TypeOK, config
<1>7. Scopes'
  BY <1>1, ScopesKept DEF IInv, Scopes
<1>8. Verdict'
  BY <1>1, <1>5 DEF IInv, Verdict, ApprovedIsPermitted, Within
<1>9. QED
  BY <1>6, <1>7, <1>8 DEF IInv

LEMMA OpeningInv == IInv /\ Opening => IInv'
<1> SUFFICES ASSUME IInv, Opening PROVE IInv'
  OBVIOUS
<1>1. ASSUME NEW path \in Requests, Call(path)
      PROVE  IInv'
  BY <1>1, CallInv
<1>2. CASE NoneInstalled
  BY <1>2, ReturnInv DEF NoneInstalled
<1>3. CASE ResolveFails
  BY <1>3, ReturnInv DEF ResolveFails
<1>4. CASE Denied
  BY <1>4, ReturnInv DEF Denied
<1>5. CASE NotAllowed
  BY <1>5, ReturnInv DEF NotAllowed
<1>6. CASE OpenFile
  BY <1>6, ReturnInv DEF OpenFile
<1>7. CASE TakeScope
  BY <1>7, TakeScopeInv
<1>8. CASE Canonicalise
  BY <1>8, CanonicaliseInv
<1>9. CASE NotDenied
  BY <1>9, NotDeniedInv
<1>10. CASE Allowed
  BY <1>10, AllowedInv
<1>11. ASSUME NEW root \in todo, Compare(root)
       PROVE  IInv'
  BY <1>11, CompareInv
<1>12. QED
  BY <1>1, <1>2, <1>3, <1>4, <1>5, <1>6, <1>7, <1>8, <1>9, <1>10, <1>11
     DEF Opening

-----------------------------------------------------------------------------
(* Files, directories and links come into being.                           *)

LEMMA GrowInv == ASSUME IInv, Grow PROVE IInv'
<1>1. /\ fs' \in Worlds /\ Grown(fs, fs')
      /\ begun' = IF opc = "idle" THEN fs' ELSE begun
      /\ UNCHANGED <<config, slot, opc, request, scope, canon, todo>>
  BY DEF Grow
<1>2. /\ fs \in Worlds /\ begun \in Worlds
      /\ Grown(begun, fs) /\ Grown(begun, fs')
  BY <1>1, GrownTransitive DEF IInv, TypeOK, Verdict
<1>3. TypeOK'
  BY <1>1, <1>2 DEF IInv, TypeOK, config
<1>4. ASSUME NEW sc \in ScopeType, NEW allowing, NEW denying,
             Faithful(sc, allowing, denying)
      PROVE  /\ Configured(sc.roots, sc.policy.allow, allowing, fs')
             /\ Configured(sc.denies, sc.policy.deny, denying, fs')
  BY <1>1, <1>4, ScopeFacts, ConfiguredGrows DEF Faithful
<1>5. Scopes'
  <2>1. draft # NoScope => Faithful(draft, to_allow, to_deny)'
    BY <1>1, <1>4, TypedScopes DEF IInv, Scopes, Faithful, config
  <2>2. slot # NoScope => Faithful(slot, {}, {})'
    BY <1>1, <1>4, TypedScopes DEF IInv, Scopes, Faithful
  <2>3. scope # NoScope => Faithful(scope, {}, {})'
    BY <1>1, <1>4, TypedScopes DEF IInv, Scopes, Faithful
  <2>4. QED
    BY <1>1, <2>1, <2>2, <2>3 DEF IInv, Scopes, config
<1>6. CASE opc = "idle"
  <2>1. begun' = fs' /\ Grown(fs', fs') /\ opc' = "idle"
    BY <1>1, <1>6, GrownReflexive
  <2>2. Verdict'
    BY <2>1 DEF Verdict, ApprovedIsPermitted
  <2>3. QED
    BY <1>3, <1>5, <2>2 DEF IInv
<1>7. CASE opc # "idle"
  <2>1. begun' = begun /\ opc' # "idle"
    BY <1>1, <1>7
  <2>2. ASSUME NEW dirs \in SUBSET Paths, Pending(dirs)
        PROVE  Pending(dirs)'
    BY <1>1, <2>1, <2>2, StandsGrows DEF Pending
  <2>3. ASSUME NEW dirs \in SUBSET Paths, Within(canon, dirs, fs)
        PROVE  Within(canon, dirs, fs')
    BY <1>1, <2>3 DEF Within, Grown
  <2>4. scope # NoScope => /\ scope.policy.allow \in SUBSET Paths
                           /\ scope.policy.deny \in SUBSET Paths
    BY TypedScopes, ScopeFacts DEF IInv
  <2>5. opc = "denies" => Pending(scope.policy.deny)'
    BY <1>1, <2>1, <2>2, <2>4 DEF IInv, Verdict
  <2>6. opc = "allows" => Pending(scope.policy.allow)'
    BY <1>1, <2>1, <2>2, <2>4 DEF IInv, Verdict
  <2>7. canon \in Paths /\ fs[canon] = canon => fs'[canon] = canon
    BY <1>1, MissingIsNoPath DEF Grown
  <2>8. ApprovedIsPermitted'
    BY <1>1, <2>1, <2>3, <2>4 DEF IInv, Verdict, ApprovedIsPermitted, Within
  <2>9. Verdict'
    BY <1>1, <1>2, <2>1, <2>5, <2>6, <2>7, <2>8
       DEF IInv, Verdict, Pending, Within
  <2>10. QED
    BY <1>3, <1>5, <2>9 DEF IInv
<1>8. QED
  BY <1>6, <1>7

LEMMA StepInv == IInv /\ [Next]_vars => IInv'
<1> SUFFICES ASSUME IInv, [Next]_vars PROVE IInv'
  OBVIOUS
<1>1. CASE Configure
  BY <1>1, ConfigureInv
<1>2. CASE Opening
  BY <1>2, OpeningInv
<1>3. CASE Grow
  BY <1>3, GrowInv
<1>4. CASE UNCHANGED vars
  <2>1. UNCHANGED <<fs, opc, locals, config, slot>>
    BY <1>4 DEF vars, locals, config
  <2>2. TypeOK'
    BY <2>1 DEF IInv, TypeOK, locals, config
  <2>3. Scopes'
    BY <2>1, ScopesKept DEF IInv, Scopes, locals
  <2>4. QED
    BY <2>1, <2>2, <2>3, VerdictKept DEF IInv
<1>5. QED
  BY <1>1, <1>2, <1>3, <1>4 DEF Next

-----------------------------------------------------------------------------
(* Theorems.                                                               *)

(* In every reachable state each scope, under construction, installed or   *)
(* taken by an open, stands for what was configured, and an open under way *)
(* still has to compare whatever could decide it.                          *)
THEOREM Invariance == Spec => []IInv
BY InitInv, StepInv, PTL DEF Spec

(* Types, and no scope holds two entries for a path: allow_dir and         *)
(* deny_dir never add a directory twice.                                   *)
THEOREM TypeCorrect == Spec => []TypeOK
BY Invariance, PTL DEF IInv

(* FileScope::open opens only what the policy permits: under a directory   *)
(* that is allowed and not under one that is denied and was there at the   *)
(* call, whenever the directories came into being, whichever scope was     *)
(* installed meanwhile.                                                    *)
THEOREM OpensOnlyPermitted == Spec => []ApprovedIsPermitted
<1>1. IInv => ApprovedIsPermitted
  BY DEF IInv, Verdict
<1>2. QED
  BY <1>1, Invariance, PTL

(* FileScope::open refuses only what is denied, or allowed by no directory *)
(* that was there at the call.                                             *)
THEOREM RefusalsAreJust == Spec => RefusedIsForbidden
<1> DEFINE Just == \/ Within(canon, scope.policy.deny, fs)
                   \/ /\ ~scope.policy.permissive
                      /\ ~Within(canon, scope.policy.allow, begun)
           Refusal == opc # "idle" /\ ret' = "PermissionDenied" /\ opc' = "idle"
<1>1. ASSUME IInv, [Next]_vars, Refusal
      PROVE  Just \/ UNCHANGED vars
  <2>1. CASE Denied
    <3>1. PICK root \in todo : opc = "denies" /\ covers(root)
      BY <2>1 DEF Denied
    <3>2. /\ fs \in Worlds /\ scope \in ScopeType /\ scope # NoScope
          /\ Faithful(scope, {}, {}) /\ root \in scope.denies
          /\ canon \in Paths /\ fs[canon] = canon
      BY <1>1, <3>1, TypedScopes DEF IInv, TypeOK, Scopes, Verdict
    <3>3. PICK dir \in scope.policy.deny : Stands(root, dir, fs)
      BY <3>2 DEF Faithful, Configured
    <3>4. QED
      BY <3>1, <3>2, <3>3, ScopeFacts, CoverIsWithin DEF Within
  <2>2. CASE NotAllowed
    BY <1>1, <2>2 DEF NotAllowed, IInv, Verdict, Pending, Within
  <2>3. CASE OpenFile \/ ResolveFails \/ NoneInstalled
    BY <1>1, <2>3 DEF OpenFile, ResolveFails, NoneInstalled, Return
  <2>4. CASE \/ TakeScope \/ Canonicalise \/ NotDenied \/ Allowed
             \/ \E root \in todo : Compare(root)
             \/ \E path \in Requests : Call(path)
    BY <1>1, <2>4 DEF TakeScope, Canonicalise, NotDenied, Allowed, Compare, Call
  <2>5. CASE Configure \/ Grow \/ UNCHANGED vars
    BY <1>1, <2>5 DEF Configure, NewScope, AllowDir, DenyDir, Install, Grow,
                      vars
  <2>6. QED
    BY <1>1, <2>1, <2>2, <2>3, <2>4, <2>5 DEF Next, Opening
<1>2. IInv /\ [Next]_vars => [Refusal => Just]_vars
  BY <1>1
<1>3. QED
  BY <1>2, Invariance, PTL DEF Spec, RefusedIsForbidden
=============================================================================

------------------------------- MODULE Scope -------------------------------
(***************************************************************************)
(* The file:// policy of scope.rs.  One thread builds scopes out of allow  *)
(* and deny directories and installs them in the process-wide slot;        *)
(* another opens files under what it finds there; a third creates          *)
(* directories, files and links.                                           *)
(*                                                                         *)
(* The file system is what std::fs::canonicalize answers: a function from  *)
(* paths to their canonical form.  It only grows: what resolves keeps      *)
(* resolving to the same place.  Each action is one call of canonicalize   *)
(* or of File::open, or one critical section of the slot's lock.  The      *)
(* order of a Vec's entries plays no part, so roots are sets.              *)
(*                                                                         *)
(* An operator named Buggy... is the one that follows it with a plausible  *)
(* mistake, kept to check that the properties notice.                      *)
(***************************************************************************)
EXTENDS Sequences, Naturals

CONSTANTS
    Paths,        \* paths that may be asked for or configured, as components
    Worlds,       \* the file systems there may be
    Requests,     \* what a caller may ask to open
    Policies,     \* what a caller may configure
    NoScope       \* the slot before the first register_into

Missing == <<>>   \* what canonicalize answers where it fails

(* child lies at or under root, component by component.                    *)
under_root(root, child) ==
    Len(root) <= Len(child) /\ SubSeq(child, 1, Len(root)) = root

(* A canonical path resolves to itself, as does every path above it.       *)
World(f) ==
    /\ f \in [Paths -> Paths \union {Missing}]
    /\ \A p \in Paths : f[p] # Missing => f[f[p]] = f[p]
    /\ \A c, p \in Paths : f[c] = c /\ under_root(p, c) => f[p] = p

Grown(f, g) == \A p \in Paths : f[p] # Missing => g[p] = f[p]

ASSUME PathAssumption ==
    /\ \A p \in Paths : p \in Seq(STRING) \ {Missing}
    /\ \A f \in Worlds : World(f)
    /\ Requests \subseteq Paths

RootType  == [path : Paths, pinned : BOOLEAN]
ScopeType == [policy : Policies, roots : SUBSET RootType,
              denies : SUBSET RootType]

ASSUME PolicyAssumption ==
    /\ Policies \subseteq [permissive : BOOLEAN,
                           allow : SUBSET Paths, deny : SUBSET Paths]
    /\ NoScope \notin ScopeType

VARIABLES
    fs,           \* the file system now
    \* the thread that configures
    draft,        \* the scope under construction, or NoScope
    to_allow,     \* directories it has yet to allow,
    to_deny,      \* and to deny
    \* shared
    slot,         \* the process-wide scope
    \* the thread that opens
    opc,          \* where it is
    request,      \* what it was asked to open
    scope,        \* its clone of the slot
    canon,        \* the request's canonical form
    todo,         \* the roots not yet compared
    begun,        \* no code: the file system when the call began
    ret           \* outcome of the last call once it is completed

config == <<draft, to_allow, to_deny>>
locals == <<request, scope, canon, todo, begun>>
vars   == <<fs, draft, to_allow, to_deny, slot,
            opc, request, scope, canon, todo, begun, ret>>

Init ==
    /\ fs \in Worlds
    /\ draft = NoScope /\ to_allow = {} /\ to_deny = {}
    /\ slot = NoScope
    /\ opc = "idle"
    /\ request = Missing /\ scope = NoScope /\ canon = Missing /\ todo = {}
    /\ begun = fs
    /\ ret = "none"

-----------------------------------------------------------------------------
(* Building a scope: policy, no code, is what the caller wants of it.      *)

(* A directory that exists is pinned to its canonical form; one that does  *)
(* not keeps its spelling.                                                 *)
Root(dir) == IF fs[dir] # Missing THEN [path |-> fs[dir], pinned |-> TRUE]
                                  ELSE [path |-> dir, pinned |-> FALSE]

(* An entry with the same path makes the new one superfluous.              *)
Buggy_Added(roots, root) == roots \union {root}
Added(roots, root) ==
    IF \E r \in roots : r.path = root.path THEN roots ELSE roots \union {root}

NewScope(p) ==
    /\ draft = NoScope
    /\ draft' = [policy |-> p, roots |-> {}, denies |-> {}]
    /\ to_allow' = p.allow /\ to_deny' = p.deny
    /\ UNCHANGED <<fs, slot, opc, locals, ret>>

AllowDir(dir) ==
    /\ draft # NoScope /\ dir \in to_allow
    /\ draft' = [draft EXCEPT !.roots = Added(@, Root(dir))]
    /\ to_allow' = to_allow \ {dir}
    /\ UNCHANGED <<fs, to_deny, slot, opc, locals, ret>>

DenyDir(dir) ==
    /\ draft # NoScope /\ dir \in to_deny
    /\ draft' = [draft EXCEPT !.denies = Added(@, Root(dir))]
    /\ to_deny' = to_deny \ {dir}
    /\ UNCHANGED <<fs, to_allow, slot, opc, locals, ret>>

(* register_into.  It borrows the registry for itself alone, so that no    *)
(* open through the registry falls between the slot and the registration.  *)
Install ==
    /\ draft # NoScope /\ to_allow = {} /\ to_deny = {}
    /\ slot' = draft
    /\ draft' = NoScope
    /\ UNCHANGED <<fs, to_allow, to_deny, opc, locals, ret>>

-----------------------------------------------------------------------------
(* open_file_scoped and FileScope::open.                                   *)

(* By the registry or by anyone else: the function is public.              *)
Call(path) ==
    /\ opc = "idle"
    /\ opc' = "called" /\ request' = path
    /\ ret' = "none"
    /\ UNCHANGED <<fs, config, slot, scope, canon, todo, begun>>

Return(outcome) ==
    /\ ret' = outcome
    /\ opc' = "idle"
    /\ request' = Missing /\ scope' = NoScope /\ canon' = Missing /\ todo' = {}
    /\ begun' = fs

TakeScope ==
    /\ opc = "called" /\ slot # NoScope
    /\ scope' = slot
    /\ opc' = "resolving"
    /\ UNCHANGED <<fs, config, slot, request, canon, todo, begun, ret>>

NoneInstalled ==
    /\ opc = "called" /\ slot = NoScope
    /\ Return("NoneInstalled")
    /\ UNCHANGED <<fs, config, slot>>

Canonicalise ==
    /\ opc = "resolving" /\ fs[request] # Missing
    /\ canon' = fs[request]
    /\ todo' = scope.denies
    /\ opc' = "denies"
    /\ UNCHANGED <<fs, config, slot, request, scope, begun, ret>>

(* Another scheme, a bad escape or a NUL; or canonicalize fails.           *)
ResolveFails ==
    /\ opc = "resolving"
    /\ \/ Return("Invalid")
       \/ fs[request] = Missing /\ Return("NotFound")
    /\ UNCHANGED <<fs, config, slot>>

(* A root that is not pinned is canonicalised again.                       *)
Buggy_Place(root) == root.path
Place(root) ==
    IF root.pinned \/ fs[root.path] = Missing THEN root.path ELSE fs[root.path]

covers(root) == under_root(Place(root), canon)

Denied ==
    /\ opc = "denies" /\ \E root \in todo : covers(root)
    /\ Return("PermissionDenied")
    /\ UNCHANGED <<fs, config, slot>>

Compare(root) ==
    /\ opc \in {"denies", "allows"} /\ root \in todo
    /\ ~covers(root)
    /\ todo' = todo \ {root}
    /\ UNCHANGED <<fs, config, slot, opc, request, scope, canon, begun, ret>>

Buggy_AllowRoots == IF slot = NoScope THEN {} ELSE slot.roots
AllowRoots       == scope.roots

NotDenied ==
    /\ opc = "denies" /\ todo = {}
    /\ IF scope.policy.permissive THEN opc' = "opening" /\ todo' = {}
                                  ELSE opc' = "allows" /\ todo' = AllowRoots
    /\ UNCHANGED <<fs, config, slot, request, scope, canon, begun, ret>>

Allowed ==
    /\ opc = "allows" /\ \E root \in todo : covers(root)
    /\ opc' = "opening" /\ todo' = {}
    /\ UNCHANGED <<fs, config, slot, request, scope, canon, begun, ret>>

NotAllowed ==
    /\ opc = "allows" /\ todo = {}
    /\ Return("PermissionDenied")
    /\ UNCHANGED <<fs, config, slot>>

OpenFile ==
    /\ opc = "opening"
    /\ Return("opened") \/ Return("Io")
    /\ UNCHANGED <<fs, config, slot>>

-----------------------------------------------------------------------------
(* Others create files, directories and links.                             *)
Grow ==
    /\ \E f \in Worlds \ {fs} : Grown(fs, f) /\ fs' = f
    /\ begun' = IF opc = "idle" THEN fs' ELSE begun
    /\ UNCHANGED <<config, slot, opc, request, scope, canon, todo, ret>>

Configure ==
    \/ \E p \in Policies : NewScope(p)
    \/ \E dir \in Paths : AllowDir(dir) \/ DenyDir(dir)
    \/ Install

Opening ==
    \/ \E path \in Requests : Call(path)
    \/ TakeScope \/ NoneInstalled \/ Canonicalise \/ ResolveFails
    \/ Denied \/ NotDenied \/ Allowed \/ NotAllowed \/ OpenFile
    \/ \E root \in todo : Compare(root)

Next == Configure \/ Opening \/ Grow

Spec == Init /\ [][Next]_vars

-----------------------------------------------------------------------------
(* Properties.                                                             *)

OnePerPath(roots) == \A r, s \in roots : r.path = s.path => r = s

(* Types, and no scope holds two entries for a path.                       *)
TypeOK ==
    /\ fs \in Worlds /\ begun \in Worlds
    /\ \A sc \in {draft, slot, scope} \ {NoScope} :
          /\ sc \in ScopeType
          /\ OnePerPath(sc.roots) /\ OnePerPath(sc.denies)
    /\ to_allow \subseteq Paths /\ to_deny \subseteq Paths
    /\ request \in Paths \union {Missing} /\ canon \in Paths \union {Missing}
    /\ todo \subseteq RootType

(* The policy as its caller means it, whenever a directory was created and *)
(* however it was spelled: some directory of dirs stands, in file system   *)
(* f, at or above path c.                                                  *)
Within(c, dirs, f) == \E d \in dirs : f[d] # Missing /\ under_root(f[d], c)

(* What is opened is under a directory the policy allows and, whatever was *)
(* created, linked or replaced while the scope was built, installed and    *)
(* consulted, not under one it denies, as far as that existed at the call. *)
ApprovedIsPermitted ==
    opc = "opening" =>
        /\ scope.policy.permissive \/ Within(canon, scope.policy.allow, fs)
        /\ ~Within(canon, scope.policy.deny, begun)

(* What is refused is denied, or under no allowed directory that existed   *)
(* at the call: one created after the scope was built counts.              *)
RefusedIsForbidden ==
    [][opc # "idle" /\ ret' = "PermissionDenied" /\ opc' = "idle" =>
          \/ Within(canon, scope.policy.deny, fs)
          \/ /\ ~scope.policy.permissive
             /\ ~Within(canon, scope.policy.allow, begun)]_vars

(* What these rest on.  A root stands for a directory dir if it is pinned  *)
(* to where dir is, or keeps the spelling of dir; the roots of a scope     *)
(* stand for nothing but what was configured, and for all of it but what   *)
(* is left to configure.                                                   *)
Stands(root, dir, f) == \/ f[dir] # Missing /\ root.path = f[dir]
                        \/ ~root.pinned /\ root.path = dir

Configured(roots, dirs, left, f) ==
    /\ left \subseteq dirs
    /\ \A root \in roots : \E dir \in dirs : Stands(root, dir, f)
    /\ \A dir \in dirs \ left : \E root \in roots : Stands(root, dir, f)

Faithful(sc, allowing, denying) ==
    /\ Configured(sc.roots, sc.policy.allow, allowing, fs)
    /\ Configured(sc.denies, sc.policy.deny, denying, fs)

Scopes ==
    /\ draft # NoScope => Faithful(draft, to_allow, to_deny)
    /\ slot # NoScope => Faithful(slot, {}, {})
    /\ scope # NoScope => Faithful(scope, {}, {})

(* A directory that existed at the call and has the request under it is    *)
(* still to be compared.                                                   *)
Pending(dirs) ==
    \A dir \in dirs :
        begun[dir] # Missing /\ under_root(begun[dir], canon) =>
            \E root \in todo : Stands(root, dir, fs)

Verdict ==
    /\ opc \in {"idle", "called", "resolving", "denies", "allows", "opening"}
    /\ Grown(begun, fs)
    /\ opc = "idle" => begun = fs
    /\ opc # "idle" => request \in Paths
    /\ opc \in {"resolving", "denies", "allows", "opening"} => scope # NoScope
    /\ opc \in {"denies", "allows", "opening"} =>
          canon \in Paths /\ fs[canon] = canon
    /\ opc = "denies" =>
          todo \subseteq scope.denies /\ Pending(scope.policy.deny)
    /\ opc = "allows" =>
          /\ ~scope.policy.permissive
          /\ todo \subseteq scope.roots /\ Pending(scope.policy.allow)
    /\ opc \in {"allows", "opening"} =>
          ~Within(canon, scope.policy.deny, begun)
    /\ ApprovedIsPermitted

(* The inductive invariant.                                                *)
IInv == TypeOK /\ Scopes /\ Verdict
=============================================================================

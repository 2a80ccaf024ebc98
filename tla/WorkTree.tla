------------------------------ MODULE WorkTree ------------------------------
(* What Git and the user do to the checkouts of one repository.  None of it  *)
(* is code of the program: it is the world `map` and the queries read, taken *)
(* from how the code asks it questions (`git rev-parse HEAD`, `git status    *)
(* --porcelain`, reading a file).                                            *)
(*                                                                           *)
(* A file's bytes are one member of Contents, or Absent.  A commit is the    *)
(* tree it records; commit 0 is the unborn branch, where `rev-parse HEAD`    *)
(* fails.  A checkout made without Git has no commit at all.                 *)
EXTENDS Naturals, Sequences, FiniteSets

CONSTANTS
    Worktrees,      \* the checkouts that share one Git directory
    HasGit,         \* FALSE: a single root with no .git entry
    Files,          \* every path the model knows
    Contents,       \* the byte strings a file may hold
    Absent,         \* not a byte string: there is no such file
    InitialTree,    \* what every checkout holds, committed, at the start
    MaxEdits,       \* bound on user edits
    MaxCommits      \* bound on commits, the initial one included

Trees == [Files -> Contents \cup {Absent}]

ASSUME WorkTreeAssumption ==
    /\ HasGit \in BOOLEAN
    /\ Absent \notin Contents
    /\ IsFiniteSet(Files)
    /\ InitialTree \in Trees
    /\ MaxEdits \in Nat
    /\ MaxCommits \in Nat \ {0}

VARIABLES
    tree,       \* tree[w]: the bytes of every file of checkout w
    head,       \* head[w]: the commit checkout w is on, 0 for none
    commits,    \* the trees recorded so far, by commit number
    edits       \* how many edits the user has made

worldVars == <<tree, head, commits, edits>>

CommittedTree(w) ==
    IF head[w] = 0 THEN [f \in Files |-> Absent] ELSE commits[head[w]]

(* `git status --porcelain --untracked-files=all --no-renames -- S`.         *)
GitStatus(w, S) == {f \in S : tree[w][f] # CommittedTree(w)[f]}

WorldTypeOK ==
    /\ tree \in [Worktrees -> Trees]
    /\ commits \in Seq(Trees)
    /\ head \in [Worktrees -> 0 .. Len(commits)]
    /\ edits \in 0 .. MaxEdits

WorldInit ==
    /\ tree = [w \in Worktrees |-> InitialTree]
    /\ commits = IF HasGit THEN <<InitialTree>> ELSE <<>>
    /\ head = [w \in Worktrees |-> Len(commits)]
    /\ edits = 0

(* The user writes, creates or deletes one file.                             *)
Edit(w, f, c) ==
    /\ edits < MaxEdits
    /\ c # tree[w][f]
    /\ tree' = [tree EXCEPT ![w][f] = c]
    /\ edits' = edits + 1
    /\ UNCHANGED <<head, commits>>

(* `git commit -a`: the tree as it stands becomes the new HEAD.              *)
Commit(w) ==
    /\ HasGit
    /\ Len(commits) < MaxCommits
    /\ tree[w] # CommittedTree(w)
    /\ commits' = Append(commits, tree[w])
    /\ head' = [head EXCEPT ![w] = Len(commits')]
    /\ UNCHANGED <<tree, edits>>

(* `git switch`: from a clean checkout to another commit.                    *)
Switch(w, c) ==
    /\ c \in 1 .. Len(commits)
    /\ c # head[w]
    /\ GitStatus(w, Files) = {}
    /\ head' = [head EXCEPT ![w] = c]
    /\ tree' = [tree EXCEPT ![w] = commits[c]]
    /\ UNCHANGED <<commits, edits>>
=============================================================================

------------------------------- MODULE RepoMap ------------------------------
(***************************************************************************)
(* buildRepoMap (repo_map_runtime.ts): discovery through git or by walking *)
(* the tree, the ignore rules, the guards before a file is read, the cap   *)
(* on candidates, selection under the token budget (ContextSelection), the *)
(* head of the best file that did not fit, and the account of everything   *)
(* that was left out.  A file's score and its likeness to others are given *)
(* with it; the names a glob matches within one segment are given as a set;*)
(* symbols are left out.                                                   *)
(***************************************************************************)
EXTENDS ContextSelection, Places, SequencesExt

CONSTANT Repos      \* repositories and requests considered

VARIABLES
  repo,       \* the request and the tree; see WellFormed
  phase,      \* what buildRepoMap does next
  listed,     \* the paths discovery let through
  ranked,     \* the candidates, best first
  omitted,    \* omissions: pairs of class and path, in the order noted
  considered,
  files,      \* the answer: [path, lines] of each entry
  tokens      \* tokensEstimated

mapVars == <<repo, phase, listed, ranked, omitted, considered, files, tokens>>

\* A path is the sequence of its segments.  tree holds the paths in discovery order;
\* git lists one with unmerged stages once for each of them.
FileKind == {"text", "missing", "huge", "binary", "empty"}

Trees ==
  {tree \in Seq([path : Seq(STRING), kind : FileKind, lines : Seq(Nat) \ {<<>>},
                 score : Nat, stages : 1 .. 3]) :
     \A i, j \in DOMAIN tree : tree[i].path = tree[j].path => i = j}

WellFormed(r) ==
  /\ r.git \in BOOLEAN /\ r.cap \in Nat \ {0} /\ r.tree \in Trees
  /\ r.request \in [explicit : Nat, window : Nat, windows : SUBSET Nat, reserved : Nat]
  /\ \A f, g \in Range(r.tree) : r.sim[{f.path, g.path}] \in Nat

ASSUME ReposAssumption == \A r \in Repos : WellFormed(r)

File(path) == CHOOSE f \in Range(repo.tree) : f.path = path

-----------------------------------------------------------------------------
(* resolveBudget *)

DefaultBudget == 8000
MinDerived    == 512

\* findContextWindow: the smallest window recorded for the model.
Window(r) ==
  IF r.request.window > 0 THEN r.request.window
  ELSE IF r.request.windows = {} THEN 0 ELSE Min(r.request.windows)

Budget(r) ==
  IF r.request.explicit > 0 THEN r.request.explicit
  ELSE IF Window(r) = 0 THEN DefaultBudget
  ELSE Max({MinDerived, Window(r) \div 4 - r.request.reserved})

-----------------------------------------------------------------------------
(* Ignore rules: [pattern, anchored, dirOnly, negated].  A pattern is a sequence *)
(* with, for each segment, the names its glob matches; AnyDepth is a `**`.       *)

AnyDepth == {}

\* globToRegExpSource: `**` before a slash stands for any number of segments, at the
\* end for what is left, which is something.
Matches(pattern, path) ==
  LET reach(from, segment) ==
        {n \in 0 .. Len(path) : IF segment = AnyDepth THEN \E m \in from : m <= n
                                ELSE n > 0 /\ n - 1 \in from /\ path[n] \in segment}
      head == FoldLeft(reach, {0}, Front(pattern))
  IN  IF Last(pattern) = AnyDepth THEN \E m \in head : m < Len(path)
      ELSE Len(path) \in reach(head, Last(pattern))

\* parseIgnoreLine: a pattern that is not anchored matches at any depth.
Names(rule, path) ==
  Matches(IF rule.anchored THEN rule.pattern ELSE <<AnyDepth>> \o rule.pattern, path)

Ancestors(path) == {SubSeq(path, 1, n) : n \in 1 .. Len(path) - 1}

RuleMatches(rule, path) ==
  \/ \E dir \in Ancestors(path) : Names(rule, dir)
  \/ ~rule.dirOnly /\ Names(rule, path)

\* loadIgnoreRules: the built-in rule, then those of .xxignore, and for a walk of .gitignore.
GitDirectory == [pattern |-> <<{".git"}>>, anchored |-> FALSE, dirOnly |-> TRUE, negated |-> FALSE]
Rules == <<GitDirectory>> \o repo.rules \o (IF repo.git THEN <<>> ELSE repo.gitRules)

\* isIgnored: the last rule that matches decides.
Ignored(path) ==
  LET hits == {k \in DOMAIN Rules : RuleMatches(Rules[k], path)}
  IN  hits # {} /\ ~Rules[Max(hits)].negated

Noted(class, paths) == [k \in DOMAIN paths |-> <<class, paths[k]>>]

-----------------------------------------------------------------------------
(* Discovery *)

Starts(r) ==
  /\ repo' = r /\ phase' = "discover"
  /\ UNCHANGED <<listed, ranked, omitted, considered, files, tokens, selectVars>>

Paths == [k \in DOMAIN repo.tree |-> repo.tree[k].path]

\* What either way of listing leads to.
Discovers(all) ==
  /\ listed' = Only(all, LAMBDA p : ~Ignored(p))
  /\ omitted' = Noted("ignored", Only(all, LAMBDA p : Ignored(p)))
  /\ considered' = Len(all)
  /\ phase' = "read"
  /\ UNCHANGED <<repo, ranked, files, tokens, selectVars>>

\* The stages of each path, one after the other.
Staged == {e \in (DOMAIN repo.tree) \X (1 .. 3) : e[2] <= repo.tree[e[1]].stages}
ByPlace ==
  {p \in Staged \X Staged : p[1][1] < p[2][1] \/ (p[1][1] = p[2][1] /\ p[1][2] < p[2][2])}

ListsByGit ==
  /\ phase = "discover" /\ repo.git
  /\ Discovers(Along([e \in Staged |-> Paths[e[1]]], Staged, ByPlace))

\* The walk does not enter an ignored directory: the directory is what it reports.
Walked(path) ==
  LET cut == {dir \in Ancestors(path) : Ignored(dir)}
  IN  IF cut = {} THEN path ELSE CHOOSE dir \in cut : \A other \in cut : Len(dir) <= Len(other)

Entries == [k \in DOMAIN Paths |-> Walked(Paths[k])]

ListsByWalk ==
  /\ phase = "discover" /\ ~repo.git
  /\ Discovers(At(Entries, {k \in DOMAIN Entries : \A j \in 1 .. k - 1 : Entries[j] # Entries[k]}))

-----------------------------------------------------------------------------
(* Reading, ranking, the cap *)

OmittedAs == [missing |-> "unreadable", huge |-> "oversized", binary |-> "binary", empty |-> "empty"]

\* A sequence cut after n entries.
UpTo(n, s) ==
  LET m == IF n < Len(s) THEN n ELSE Len(s)
  IN  <<SubSeq(s, 1, m), SubSeq(s, m + 1, Len(s))>>

\* estimateTokens of the first n lines: four characters a token, rounded up, with a
\* line break between lines.
Chars(lines, n) == Total(SubSeq(lines, 1, n)) + (IF n > 0 THEN n - 1 ELSE 0)
Tokens(lines, n) == (Chars(lines, n) + 3) \div 4
Size(path) == Tokens(File(path).lines, Len(File(path).lines))

Likeness(p, q) == repo.sim[{p, q}]

Request(paths) ==
  [cost |-> [k \in DOMAIN paths |-> Size(paths[k])],
   rel |-> [k \in DOMAIN paths |-> File(paths[k]).score],
   sim |-> [k \in DOMAIN paths |-> [m \in DOMAIN paths |-> Likeness(paths[k], paths[m])]],
   weights |-> [rel |-> 2, coverage |-> 1, diversity |-> 1],
   budget |-> Budget(repo), minGain |-> {}]

Reads ==
  /\ phase = "read"
  /\ LET texts == Only(listed, LAMBDA p : File(p).kind = "text")
         other == Only(listed, LAMBDA p : File(p).kind # "text")
         cut   == UpTo(repo.cap, Ranked(texts, LAMBDA p : File(p).score))
     IN  /\ ranked' = cut[1]
         /\ omitted' = omitted \o [k \in DOMAIN other |-> <<OmittedAs[File(other[k]).kind], other[k]>>]
                               \o Noted("droppedForScale", cut[2])
         /\ Selects(Request(cut[1]))
  /\ phase' = "select"
  /\ UNCHANGED <<repo, listed, considered, files, tokens>>

Selecting ==
  /\ phase = "select"
  /\ Evaluates \/ Picks
  /\ UNCHANGED mapVars

-----------------------------------------------------------------------------
(* The answer *)

Entry(path, n) == [path |-> path, lines |-> n]
Whole(path)    == Entry(path, Len(File(path).lines))

\* Mutant of HeadOf: the budget of the whole map instead of what is left of it.
HeadOf_Total(path, left) ==
  LET fits == {n \in DOMAIN File(path).lines : Chars(File(path).lines, n) <= 4 * input.budget}
  IN  IF fits = {} THEN 0 ELSE Max(fits)

\* Whole lines while their characters fit into what is left.
HeadOf(path, left) ==
  LET fits == {n \in DOMAIN File(path).lines : Chars(File(path).lines, n) <= 4 * left}
  IN  IF fits = {} THEN 0 ELSE Max(fits)

\* chosen is a set of ids in the code: of paths.
Ids  == {ranked[chosen[k]] : k \in DOMAIN chosen}
Fit  == Only(ranked, LAMBDA p : p \in Ids)
Rest == Only(ranked, LAMBDA p : p \notin Ids)

\* Lines of the best file that did not fit.
Left  == input.budget - Spent(input, chosen)
Shown == IF Left > 0 /\ Rest # <<>> THEN HeadOf(Rest[1], Left) ELSE 0
IsCut == Shown > 0 /\ Shown < Len(File(Rest[1]).lines)

Answers ==
  /\ phase = "select" /\ Selected
  /\ files' = [k \in DOMAIN Fit |-> Whole(Fit[k])]
                  \o (IF Shown > 0 THEN <<Entry(Rest[1], Shown)>> ELSE <<>>)
  /\ tokens' = Spent(input, chosen) + (IF Shown > 0 THEN Tokens(File(Rest[1]).lines, Shown) ELSE 0)
  /\ omitted' = omitted \o (IF IsCut THEN <<<<"truncated", Rest[1]>>>> ELSE <<>>)
                   \o Noted("droppedForBudget", Only(Rest, LAMBDA p : Shown = 0 \/ p # Rest[1]))
  /\ phase' = "done"
  /\ UNCHANGED <<repo, listed, ranked, considered, selectVars>>

MapInit ==
  /\ repo = [git |-> TRUE, tree |-> <<>>, rules |-> <<>>, gitRules |-> <<>>, cap |-> 1]
  /\ phase = "start" /\ listed = <<>> /\ ranked = <<>> /\ omitted = <<>>
  /\ considered = 0 /\ files = <<>> /\ tokens = 0
  /\ SelectInit

MapNext ==
  \/ phase = "start" /\ \E r \in Repos : Starts(r)
  \/ ListsByGit \/ ListsByWalk \/ Reads \/ Selecting \/ Answers

-----------------------------------------------------------------------------
(* The omissions of the answer *)

Classes == {"ignored", "unreadable", "oversized", "binary", "empty",
            "droppedForScale", "droppedForBudget", "truncated"}

\* finalizeOmissions keeps the count of a class and its first paths.
Omitted(class) == {omitted[k][2] : k \in {k \in DOMAIN omitted : omitted[k][1] = class}}

(* Properties *)

\* "Nothing is dropped in silence": every entry that discovery considered is in the
\* answer or in one class of the omissions, never in both and never twice; only the
\* truncated file is in both, and then its tail is missing.
EveryPathIsAccounted ==
  phase = "done" =>
     LET left == UNION {Omitted(class) : class \in Classes \ {"truncated"}}
         cut  == Omitted("truncated")
         in   == {files[k].path : k \in DOMAIN files}
     IN  /\ left \cap in = {}
         /\ Cardinality(left) + Cardinality(in) = considered
         /\ Len(omitted) + Len(files) = considered + Cardinality(cut)
         /\ cut = {f.path : f \in {f \in Range(files) : f.lines < Len(File(f.path).lines)}}
         /\ \A p \in in : ~Ignored(p) /\ File(p).kind = "text"

\* tokenBudget is the "maximum estimated tokens for the returned file list".
MapFitsBudget ==
  phase = "done" =>
     Total([k \in DOMAIN files |-> Tokens(File(files[k].path).lines, files[k].lines)])
       <= Budget(repo)
=============================================================================

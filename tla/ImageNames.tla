----------------------------- MODULE ImageNames ------------------------------
(***************************************************************************)
(* How the programs of this repository read the name of an image:          *)
(* Normalize of mini-nerdctl/pkg/reference, normalizeRef of mini-docker,   *)
(* and the three parseRef that turn a name into registry, repository and   *)
(* tag.  A name is a sequence of words and of the separators "/", ":" and  *)
(* "@"; of a word only matters whether it has a dot, whether it looks like *)
(* a port, and whether it is one of the words the code compares it with.   *)
(*                                                                         *)
(* The state is one name in circulation: a user types it, a client stores  *)
(* the image under its own form of it, the listing shows that form, and it *)
(* is given to the same or to another client again.                        *)
(***************************************************************************)
EXTENDS Integers, Sequences, FiniteSets, FiniteSetsExt

CONSTANTS
    Dotted,      \* words with a dot: registries, some tags
    Numbers,     \* words of one to five digits
    Hosts,       \* what users write before the first slash
    Components,  \* what users write between slashes
    Tags,        \* what users write after the last colon
    MaxDepth,    \* slashes in a repository, plus one
    MaxLen,      \* bound: length of a name in circulation
    None

ASSUME WordAssumption ==
    /\ {"docker.io", "registry-1.docker.io"} \subseteq Dotted
    /\ Dotted \cap Numbers = {}
    /\ "latest" \notin Dotted \cup Numbers
    /\ \A w \in {"/", ":", "@"} :
            w \notin Dotted \cup Numbers \cup Hosts \cup Components \cup Tags
    /\ MaxDepth \in Nat \ {0}
    /\ MaxLen \in Nat
    /\ None \notin Hosts \cup Tags \cup Numbers

VARIABLES
    meant,   \* the image the user has in mind
    name     \* the name now in circulation

vars == <<meant, name>>

-----------------------------------------------------------------------------
(* The words the code compares with or adds.                               *)
defaultRegistry == "docker.io"
defaultTag == "latest"
officialPrefix == "library"
hubHost == "registry-1.docker.io"

(* What a reference is: an optional registry, which has a dot or a port,   *)
(* the components of the repository, an optional tag and digest.  What has *)
(* a dot before the first slash is a registry.                             *)
Reference ==
    {r \in [host   : Hosts \cup {None},
            port   : Numbers \cup {None},
            path   : UNION {[1..n -> Components] : n \in 1..MaxDepth},
            tag    : Tags \cup {None},
            pinned : BOOLEAN] :
        IF r.host = None
        THEN r.port = None /\ (Len(r.path) > 1 => r.path[1] \notin Dotted)
        ELSE r.host \in Dotted \/ r.port # None}

Registry(r) == <<r.host>> \o IF r.port = None THEN << >> ELSE <<":", r.port>>

Path(r) == [i \in 1..(2 * Len(r.path) - 1) |->
                IF i % 2 = 0 THEN "/" ELSE r.path[(i + 1) \div 2]]

(* How the user writes it.                                                 *)
Written(r) ==
    (IF r.host = None THEN << >> ELSE Registry(r) \o <<"/">>)
        \o Path(r)
        \o (IF r.tag = None THEN << >> ELSE <<":", r.tag>>)
        \o (IF r.pinned THEN <<"@", "sha256", ":", "hex">> ELSE << >>)

-----------------------------------------------------------------------------
(* The functions of package strings that the code uses, on such sequences. *)
Has(s, w) == \E i \in DOMAIN s : s[i] = w
FirstAt(s, w) == Min({i \in DOMAIN s : s[i] = w})
LastAt(s, w) == Max({i \in DOMAIN s : s[i] = w})
Upto(s, i) == SubSeq(s, 1, i - 1)
From(s, i) == SubSeq(s, i + 1, Len(s))
HasDot(s) == \E i \in DOMAIN s : s[i] \in Dotted

(* strings.SplitN(s, "/", 3): the number of parts, the first and the rest. *)
Parts(s) == Min({3, 1 + Cardinality({i \in DOMAIN s : s[i] = "/"})})
FirstPart(s) == IF Has(s, "/") THEN Upto(s, FirstAt(s, "/")) ELSE s
OtherParts(s) == From(s, FirstAt(s, "/"))

-----------------------------------------------------------------------------
(* mini-nerdctl/pkg/reference.  An index of 0 is the code's -1.            *)
isPort(s) == Len(s) = 1 /\ s[1] \in Numbers

(* Mutant: every last colon is the one before the tag.                     *)
lastNonPortColonMutant(s) == IF Has(s, ":") THEN LastAt(s, ":") ELSE 0

lastNonPortColon(s) ==
    IF ~Has(s, ":") THEN 0
    ELSE LET colon == LastAt(s, ":")
             after == From(s, colon)
             before == Upto(s, colon)
         IN  IF Has(after, "/") /\ isPort(Upto(after, FirstAt(after, "/")))
             THEN IF Has(before, ":") THEN LastAt(before, ":") ELSE 0
             ELSE colon

splitTag(raw) ==
    IF Has(raw, "@") THEN lastNonPortColon(Upto(raw, FirstAt(raw, "@")))
    ELSE IF lastNonPortColon(raw) = Len(raw) THEN 0
    ELSE lastNonPortColon(raw)

(* Registry and repository of a name without its tag.                      *)
Located(s, tag) ==
    IF Parts(s) >= 2 /\ (HasDot(FirstPart(s)) \/ Has(FirstPart(s), ":"))
    THEN [registry |-> FirstPart(s), repo |-> OtherParts(s), tag |-> tag]
    ELSE IF Parts(s) = 1
         THEN [registry |-> <<defaultRegistry>>,
               repo |-> <<officialPrefix, "/">> \o s, tag |-> tag]
         ELSE [registry |-> <<defaultRegistry>>, repo |-> s, tag |-> tag]

(* Official images are under library/.                                     *)
Official(p) ==
    IF p.registry = <<defaultRegistry>> /\ ~Has(p.repo, "/")
    THEN [p EXCEPT !.repo = <<officialPrefix, "/">> \o @]
    ELSE p

Parse(raw) ==
    LET i == splitTag(raw)
    IN  Official(IF i = 0 THEN Located(raw, <<defaultTag>>)
                          ELSE Located(Upto(raw, i), From(raw, i)))

Normalize(raw) ==
    LET p == Parse(raw)
    IN  p.registry \o <<"/">> \o p.repo \o <<":">> \o p.tag

-----------------------------------------------------------------------------
(* The other parsers take the last colon for the tag's unless a slash      *)
(* follows it.                                                             *)
Tagged(s) == Has(s, ":") /\ ~Has(From(s, LastAt(s, ":")), "/")
TagOf(s) == IF Tagged(s) THEN From(s, LastAt(s, ":")) ELSE <<defaultTag>>
Untagged(s) == IF Tagged(s) THEN Upto(s, LastAt(s, ":")) ELSE s

Alias(registry) ==
    IF registry = <<defaultRegistry>> THEN <<hubHost>> ELSE registry

(* Docker Hub is meant by one word, and by two when the first has no dot.  *)
OnHub(s) == Parts(s) = 1 \/ (Parts(s) = 2 /\ ~HasDot(FirstPart(s)))
HubRepo(s) == IF Parts(s) = 1 THEN <<officialPrefix, "/">> \o s ELSE s

(* parseRef of mini-nerdctl/pkg/image and of mini-docker/pkg/registry.     *)
parseRef(ref) ==
    LET s == Untagged(ref)
    IN  IF OnHub(s)
        THEN [registry |-> <<hubHost>>,
              repo |-> HubRepo(s), tag |-> TagOf(ref)]
        ELSE [registry |-> Alias(FirstPart(s)),
              repo |-> OtherParts(s), tag |-> TagOf(ref)]

(* parseRef of mini-containerd/internal/image looks for a digest too, in   *)
(* what is left after the last colon is cut off.  (The tag added here is   *)
(* the one that parseRef cuts off again.)                                  *)
daemonParseRef(ref) ==
    LET s == Untagged(ref)
        at == FirstAt(s, "@")
    IN  IF Has(s, "@")
        THEN [parseRef(Upto(s, at) \o <<":", defaultTag>>) EXCEPT !.tag = From(s, at)]
        ELSE parseRef(ref)

(* Mutant: the prefix of official images is forgotten.                     *)
normalizeRefMutant(raw) ==
    LET s == Untagged(raw)
    IN  (IF OnHub(s) THEN <<defaultRegistry, "/">> \o s
                     ELSE Alias(FirstPart(s)) \o <<"/">> \o OtherParts(s))
            \o <<":">> \o TagOf(raw)

(* normalizeRef of mini-docker/internal/api.                               *)
normalizeRef(raw) ==
    LET s == Untagged(raw)
    IN  (IF OnHub(s) THEN <<defaultRegistry, "/">> \o HubRepo(s)
                     ELSE Alias(FirstPart(s)) \o <<"/">> \o OtherParts(s))
            \o <<":">> \o TagOf(raw)

-----------------------------------------------------------------------------
Init == meant \in Reference /\ name = Written(meant)

(* mini-nerdctl pulls, runs or removes the image: the record has the       *)
(* normalized name.                                                        *)
NerdctlPull ==
    /\ Len(Normalize(name)) <= MaxLen
    /\ name' = Normalize(name)
    /\ UNCHANGED meant

(* mini-docker pulls the image or creates a container from it.             *)
DockerPull ==
    /\ Len(normalizeRef(name)) <= MaxLen
    /\ name' = normalizeRef(name)
    /\ UNCHANGED meant

(* FROM in a Dockerfile pulls and records the name as it is: no step.      *)
Next == NerdctlPull \/ DockerPull

Spec == Init /\ [][Next]_vars

-----------------------------------------------------------------------------
(* What r denotes, by the rules that reference.go states.                  *)
Denoted(r) ==
    [registry |-> IF r.host = None THEN <<defaultRegistry>> ELSE Registry(r),
     repo     |-> IF /\ r.host \in {None, defaultRegistry}
                     /\ r.port = None
                     /\ Len(r.path) = 1
                  THEN <<officialPrefix, "/">> \o Path(r)
                  ELSE Path(r),
     tag      |-> <<IF r.tag = None THEN defaultTag ELSE r.tag>>]

(* Parse of reference.go agrees with that for every reference without a    *)
(* digest, ports and numeric tags and components included, and goes on     *)
(* doing so however often the name was normalized by nerdctl.              *)
ParseIsDenoted ==
    name \in {Written(meant), Normalize(Written(meant))} /\ ~meant.pinned
        => Parse(name) = Denoted(meant)

(* References that all parsers of the repository are to agree on: not      *)
(* pinned; without a registry at most user/image; a registry without a     *)
(* dot, and docker.io, with at least two components.                       *)
Common(r) ==
    /\ ~r.pinned
    /\ r.host = None => Len(r.path) <= 2
    /\ r.host # None /\ r.host \notin Dotted => Len(r.path) >= 2
    /\ r.host = defaultRegistry /\ r.port = None => Len(r.path) >= 2

(* However often such a name went through nerdctl, docker and a build, and *)
(* in whatever order, each client and the daemon fetch from it the image   *)
(* the user meant: the name a record has and the place it is fetched from  *)
(* belong together.  (Which record a client finds under a name is another  *)
(* matter: the forms the two clients store differ, and List of the daemon  *)
(* does not filter by name.)                                               *)
NamesKeepMeaning ==
    LET place == [Denoted(meant) EXCEPT !.registry = Alias(@)]
    IN  Common(meant) =>
            /\ parseRef(Normalize(name)) = place
            /\ parseRef(normalizeRef(name)) = place
            /\ parseRef(name) = place
            /\ daemonParseRef(name) = place
=============================================================================

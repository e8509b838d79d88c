---------------------------- MODULE NeuronWallet ----------------------------
(***************************************************************************)
(* The commands of trisha neuron (cli/neuron.rs, cli/neptune.rs): they ask *)
(* neptune-cli, which asks a running node or reads the wallet on disk,     *)
(* keep a file of hidden addresses for each network, and create and remove *)
(* wallets.  Every call of neptune-cli and every file operation is a step  *)
(* of its own; the node may stop, or be started again on another network.  *)
(*                                                                         *)
(* An address is <<network, index>>.  A hidden entry is a piece of text,   *)
(* represented by the set of the addresses that it is a part of.           *)
(***************************************************************************)
EXTENDS CommandJobs

CONSTANTS
    MaxIndex,   \* the largest index of an address: 2^64 - 1 in the code
    MaxLimit    \* the longest list of addresses: 1000 in the code

ASSUME WalletAssumption == MaxIndex \in Nat /\ MaxLimit \in Nat \ {0}

Asking == {"balance", "add", "list", "boxes"}
Changing == {"hide", "show"}
Walleting == {"create", "import", "remove"}

\* A neuron command is about a network that there is, and a list starts at an
\* index; the addresses that were handed out have one.
ASSUME NeuronAssumption ==
    \A i \in DOMAIN Cases :
        LET c == Cases[i]
        IN  /\ c.issued \in [DOMAIN c.issued -> 0 .. MaxIndex]
            /\ DOMAIN c.hidden = DOMAIN c.issued
            /\ "none" \notin DOMAIN c.issued
            /\ \A p \in DOMAIN c.scripts : \A turn \in 1 .. Len(c.scripts[p]) :
                  LET cmd == c.scripts[p][turn]
                  IN  /\ cmd.op \in Asking \cup Changing \cup Walleting => cmd.network \in DOMAIN c.issued
                      /\ cmd.op = "list" => cmd.start \in Nat /\ cmd.limit \in Nat

VARIABLES
    node,       \* the network of the running node, or "none"
    issued,     \* issued[network]: the index of the last address handed out
    hidden,     \* hidden[network]: the entries in hidden_addresses, whose order does not matter
    wallets,    \* the directories that hold a wallet
    asked,      \* asked[network]: what has been hidden and not shown since
    torn,       \* a command on a list of hidden addresses has met another one, or failed in it
    moved       \* the processes under whose command the node has moved

walletVars == <<node, issued, hidden, wallets, asked, torn, moved>>

Networks == DOMAIN case.issued

\* A place is <<base, network>>.
DataDir == "data"

WalletInit ==
    /\ node = case.node
    /\ issued = case.issued
    /\ hidden = case.hidden
    /\ wallets = case.wallets
    /\ asked = case.hidden
    /\ torn = FALSE
    /\ moved = {}

\* The user stops the node or starts it on a network.
MoveNode(n) ==
    /\ n # node
    /\ node' = n
    /\ moved' = {p \in Procs : ~Ready(p)}
    /\ UNCHANGED <<jobVars, issued, hidden, wallets, asked, torn>>

(***************************************************************************)
(* Replies of neptune-cli                                                  *)
(***************************************************************************)
Selected(p) == Cmd(p).network
Up == node # "none"

\* A reply of the node, or the error that there is none.
Run(p, next) == IF Up THEN next ELSE Fail(p)

\* An answer, the networks that it is of, and whether the node has stayed.
Reply(p, networks) == [of |-> networks, settled |-> p \notin moved]

\* require_node_network, for every command that asks the node.
Begin(p) ==
    /\ Ready(p)
    /\ \E op \in Asking : Runs(p, op)
    /\ moved' = moved \ {p}
    /\ IF Cmd(p).op # "add" THEN Goto(p, "network", Nothing)
       ELSE IF Cmd(p).keyType # "generation" THEN Fail(p)
       ELSE Goto(p, IF Cmd(p).indexed THEN "offline" ELSE "network", Nothing)
    /\ UNCHANGED <<node, issued, hidden, wallets, asked, torn>>

\* Variant of RequireNodeNetwork: any node that answers will do.
RequireNode(p) ==
    /\ At(p, "network")
    /\ Run(p, Goto(p, Cmd(p).op, Nothing))
    /\ UNCHANGED walletVars

RequireNodeNetwork(p) ==
    /\ At(p, "network")
    /\ IF Up /\ node = Selected(p) THEN Goto(p, Cmd(p).op, Nothing) ELSE Fail(p)
    /\ UNCHANGED walletVars

ConfirmedBalance(p) ==
    /\ At(p, "balance")
    /\ Run(p, Goto(p, "unconfirmed", node))
    /\ UNCHANGED walletVars

\* An error is printed as "(unavailable)".
UnconfirmedBalance(p) ==
    /\ At(p, "unconfirmed")
    /\ Succeed(p, Reply(p, {Got(p)} \cup IF Up THEN {node} ELSE {}))
    /\ UNCHANGED walletVars

ListUtxos(p) ==
    /\ At(p, "boxes")
    /\ Run(p, Succeed(p, Reply(p, {node})))
    /\ UNCHANGED walletVars

\* The node hands out its next address.
NextAddress(p) ==
    /\ At(p, "add")
    /\ Run(p, Succeed(p, Reply(p, {node})))
    /\ issued' = IF Up /\ issued[node] < MaxIndex THEN [issued EXCEPT ![node] = @ + 1] ELSE issued
    /\ UNCHANGED <<node, hidden, wallets, asked, torn, moved>>

\* Derived from the wallet on disk, which needs no node and may fail.
AddressAtIndex(p) ==
    /\ At(p, "offline")
    /\ Succeed(p, Reply(p, {Selected(p)})) \/ Fail(p)
    /\ UNCHANGED walletVars

(***************************************************************************)
(* address list                                                            *)
(***************************************************************************)
Least(a, b) == IF a < b THEN a ELSE b

\* One derivation for each index, ended by the limit, the last index or an
\* overflow.
KnownKeys(network, start, limit, last) ==
    {<<network, i>> : i \in start .. Least(Least(last, MaxIndex), start + limit - 1)}

\* The list that is printed: the keys that were read, less those hidden.
Listing(seen, shown, entries) ==
    [of |-> seen.of, settled |-> seen.settled, keys |-> seen.keys, last |-> seen.last,
     shown |-> shown, asked |-> entries]

ListKeys(p) ==
    LET keys == KnownKeys(Selected(p), Cmd(p).start, Cmd(p).limit, issued[node])
        seen == [of |-> {Selected(p)}, settled |-> p \notin moved,
                 keys |-> keys, last |-> issued[Selected(p)]]
    IN  /\ At(p, "list")
        /\ Cmd(p).limit \in 1 .. MaxLimit
        /\ \/ /\ Up
              /\ IF keys = {} THEN Succeed(p, Listing(seen, {}, {})) ELSE Goto(p, "filter", seen)
           \/ Fail(p)
        /\ UNCHANGED walletVars

Refuse(p) ==
    /\ At(p, "list")
    /\ Cmd(p).limit \notin 1 .. MaxLimit
    /\ Fail(p)
    /\ UNCHANGED walletVars

Writing(p) == job[p].at \in {"change", "truncate", "rewrite"}
Meets(p) == \E q \in Procs \ {p} : Writing(q) /\ Selected(q) = Selected(p)

\* A line is left out when an entry of the file is a part of it.
ListShown(p) ==
    LET entries == IF Cmd(p).all THEN {} ELSE hidden[Selected(p)]
    IN  /\ At(p, "filter")
        /\ Succeed(p, Listing(Got(p), {a \in Got(p).keys : \A entry \in entries : a \notin entry},
                              asked[Selected(p)]))
        /\ torn' = (torn \/ Meets(p))
        /\ UNCHANGED <<node, issued, hidden, wallets, asked, moved>>

(***************************************************************************)
(* address hide, address show: the list is read, changed and written back. *)
(***************************************************************************)
LoadHidden(p) ==
    /\ Ready(p)
    /\ \E op \in Changing : Runs(p, op)
    /\ Goto(p, "change", hidden[Selected(p)])
    /\ torn' = (torn \/ Meets(p))
    /\ UNCHANGED <<node, issued, hidden, wallets, asked, moved>>

Changed(op, lines, entry) ==
    IF op = "hide" THEN lines \cup {entry} ELSE lines \ {entry}

ChangeHidden(p) ==
    LET lines == Got(p)
        op == Cmd(p).op
    IN  /\ At(p, "change")
        /\ IF (Cmd(p).entry \in lines) = (op = "hide")
             THEN Succeed(p, Nothing)
             ELSE Goto(p, "truncate", Changed(op, lines, Cmd(p).entry))
        /\ UNCHANGED walletVars

\* fs::write opens the file, which empties it, and then writes.
TruncateHidden(p) ==
    /\ At(p, "truncate")
    /\ \/ /\ hidden' = [hidden EXCEPT ![Selected(p)] = {}]
          /\ Goto(p, "rewrite", Got(p))
       \/ /\ Fail(p)
          /\ UNCHANGED hidden
    /\ UNCHANGED <<node, issued, wallets, asked, torn, moved>>

WriteHidden(p) ==
    LET n == Selected(p)
        entry == {Cmd(p).entry}
    IN  /\ At(p, "rewrite")
        /\ \/ /\ hidden' = [hidden EXCEPT ![n] = Got(p)]
              /\ asked' = [asked EXCEPT ![n] = IF Cmd(p).op = "hide" THEN @ \cup entry ELSE @ \ entry]
              /\ Succeed(p, Nothing)
              /\ UNCHANGED torn
           \/ /\ Fail(p)
              /\ torn' = TRUE
              /\ UNCHANGED <<hidden, asked>>
        /\ UNCHANGED <<node, issued, wallets, moved>>

(***************************************************************************)
(* wallet_file: neptune-cli names the wallet, and its path is checked.     *)
(***************************************************************************)
\* Where the directory of a place is on disk once links are followed.
Real(place) == IF place \in DOMAIN case.links THEN case.links[place] ELSE place

\* The paths that which-wallet may print for a network: the wallet's own unless
\* it is told others, and none where there is no wallet.
Told(n) == IF n \in DOMAIN case.told THEN case.told[n] ELSE {<<DataDir, n>>}
Exists(place) == Real(place) \in wallets

\* Variant of PathAllowed: links are followed.
PathFollowed(place, n) ==
    /\ place[1] # "relative"
    /\ place[2] = n
    /\ case.dataDir => Real(place) = <<DataDir, n>>

PathAllowed(place, n) ==
    /\ place[1] # "relative"
    /\ place[2] = n
    /\ Real(place) = place
    /\ case.dataDir => Real(place) = <<DataDir, n>>

\* The first look of a command and, where it has one, the second.
Looks(p) ==
    \/ /\ Ready(p)
       /\ \E op \in Walleting : Runs(p, op)
       /\ Cmd(p).op = "import" => ~Cmd(p).words
    \/ At(p, "again")

WhichWallet(p) ==
    LET first == IF Ready(p) THEN <<>> ELSE Got(p)
    IN  /\ Looks(p)
        /\ \/ \E place \in Told(Selected(p)) :
                IF Exists(place) THEN Goto(p, "check", [first |-> first, place |-> place])
                                 ELSE Goto(p, "none", [first |-> first])
           \/ Fail(p)
        /\ UNCHANGED walletVars

\* The path is inspected after it was printed: the wallet may be gone.
CheckPath(p) ==
    LET place == Got(p).place
    IN  /\ At(p, "check")
        /\ IF PathAllowed(place, Selected(p)) /\ Exists(place)
             THEN Goto(p, "found", [first |-> Got(p).first, place |-> Real(place)])
             ELSE Fail(p)
        /\ UNCHANGED walletVars

(***************************************************************************)
(* create, import and remove                                               *)
(***************************************************************************)
First(p) == Got(p).first = <<>>
MakingWallet(p) == Cmd(p).op \in {"create", "import"}

NoWallet(p) ==
    /\ At(p, "none")
    /\ IF MakingWallet(p) /\ First(p)
         THEN Goto(p, "make", <<>>)
         ELSE IF MakingWallet(p) \/ ~First(p) THEN Fail(p) ELSE Succeed(p, Nothing)
    /\ UNCHANGED walletVars

\* generate-wallet or import-seed-phrase: neither replaces a wallet, and
\* success does not mean that there is one.
MakeWallet(p) ==
    /\ At(p, "make")
    /\ \/ /\ wallets' = wallets \cup {Real(<<DataDir, Selected(p)>>)}
          /\ Goto(p, "again", <<"made">>)
       \/ /\ UNCHANGED wallets
          /\ Goto(p, "again", <<"made">>) \/ Fail(p)
    /\ UNCHANGED <<node, issued, hidden, asked, torn, moved>>

WalletFound(p) ==
    LET place == Got(p).place
        found == [first |-> Got(p).first, place |-> place]
    IN  /\ At(p, "found")
        /\ IF MakingWallet(p) THEN IF First(p) THEN Fail(p) ELSE Succeed(p, Nothing)
           ELSE IF First(p)
           THEN IF Cmd(p).confirm THEN Goto(p, "again", <<place>>) ELSE Succeed(p, Nothing)
           ELSE IF Got(p).first = <<place>> THEN Goto(p, "delete", place) ELSE Fail(p)
        /\ UNCHANGED walletVars

\* remove_dir_all can fail after it has removed some of the files.
RemoveWallet(p) ==
    /\ At(p, "delete")
    /\ \/ /\ wallets' = wallets \ {Got(p)}
          /\ IF Got(p) \in wallets THEN Succeed(p, Nothing) \/ Fail(p) ELSE Fail(p)
       \/ /\ Fail(p)
          /\ UNCHANGED wallets
    /\ UNCHANGED <<node, issued, hidden, asked, torn, moved>>

\* Words of a seed on the command line are refused before anything else.
RefuseWords(p) ==
    /\ Ready(p)
    /\ Runs(p, "import")
    /\ Cmd(p).words
    /\ Fail(p)
    /\ UNCHANGED walletVars

WalletStep(p) ==
    \/ Begin(p)
    \/ RequireNodeNetwork(p)
    \/ ConfirmedBalance(p)
    \/ UnconfirmedBalance(p)
    \/ ListUtxos(p)
    \/ NextAddress(p)
    \/ AddressAtIndex(p)
    \/ ListKeys(p)
    \/ Refuse(p)
    \/ ListShown(p)
    \/ LoadHidden(p)
    \/ ChangeHidden(p)
    \/ TruncateHidden(p)
    \/ WriteHidden(p)
    \/ WhichWallet(p)
    \/ CheckPath(p)
    \/ NoWallet(p)
    \/ MakeWallet(p)
    \/ WalletFound(p)
    \/ RemoveWallet(p)
    \/ RefuseWords(p)

=============================================================================

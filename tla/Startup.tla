------------------------------ MODULE Startup ------------------------------
(***************************************************************************)
(* From the command line and the environment to a listening server:        *)
(* main (src/main.rs), create_config and validate (src/config.rs),         *)
(* Faucet::new (src/faucet.rs) and run_server (src/server.rs).             *)
(*                                                                         *)
(* The value of a variable is a record: the number n its text denotes, -1  *)
(* when it denotes none, and whether blanks surround the text; a secret is *)
(* a text with some n >= 0.  Variables that are passed on as they are      *)
(* (host, title, RPC address) are left out.                                *)
(***************************************************************************)
EXTENDS Rlp, RpcReply

CONSTANTS
    Defaults,       \* the DEFAULT_ constants, by field
    MaxPowBits,     \* 28
    MaxPowPuzzles,  \* 100000
    KeyOrder,       \* secret keys are 1 .. KeyOrder - 1
    FallbackChain,  \* 1337
    Environments,   \* bound: the environments considered
    NodeChains      \* bound: the chains the node may be on

VARIABLES
    args,       \* the command-line arguments
    env,        \* the environment
    status,     \* what main does next, or how it ended
    config,     \* Config, with key and secret resolved
    chain_id,   \* the chain id the service signs for
    node_chain  \* external: the chain of the node

boot == <<args, env, config, chain_id, node_chain>>

\* External: the most permits a tokio semaphore can have.
MaxPermits == (U64 - 1) \div 8
PermitsFit(capacity) == capacity \in 1 .. MaxPermits

U16 == Power[(WordBytes + 2) \div 4]
U32 == Power[WordBytes \div 2]

None == -1      \* of an Option<u64> or Option<u128>
Unset == [n |-> -2, padded |-> FALSE]
Blank == [n |-> -1, padded |-> TRUE]
Given(n) == [n |-> n, padded |-> FALSE]
Padded(n) == [n |-> n, padded |-> TRUE]

\* What envy parses as numbers, and below what; the rest stays text.
Widths ==
    [listen_port |-> U16, web_workers |-> U64, chain_id |-> U64,
     pow_bits |-> U32, pow_puzzles |-> U32, pow_ttl_secs |-> U64,
     faucet_queue_capacity |-> U64, faucet_cooldown_secs |-> U64,
     faucet_gas_limit |-> U64, faucet_receipt_timeout_secs |-> U64]
Numbers == DOMAIN Widths
NonZero == {"listen_port", "web_workers", "faucet_queue_capacity"}
Texts == {"faucet_private_key", "faucet_drip_wei", "faucet_gas_price_wei",
          "pow_hmac_secret"}
Variables == Numbers \cup Texts

ASSUME StartupAssumption ==
    /\ DOMAIN Defaults = Variables
    /\ Environments \subseteq [Variables -> [n : Int, padded : BOOLEAN]]
    /\ \A f \in Numbers \ {"chain_id"} : Defaults[f] \in 0 .. Widths[f] - 1
    /\ \A f \in NonZero : Defaults[f] # 0
    /\ Defaults.chain_id = None /\ Defaults.faucet_gas_price_wei = None
    /\ FallbackChain \in 0 .. U64 - 1
    /\ NodeChains \subseteq 0 .. U64 - 1
-----------------------------------------------------------------------------
\* Mutant of IsUnset: only absent variables are unset.
IsAbsent(value) == value = Unset

\* create_config drops variables that are set to blanks.
IsUnset(value) == value \in {Unset, Blank}

\* The text of a field once the defaults are in place.
Field(e, f) == IF IsUnset(e[f]) THEN Given(Defaults[f]) ELSE e[f]

\* private_key, gas_price_wei and main look for blanks themselves too.
TrimmedField(e, f) ==
    IF Field(e, f) = Blank THEN Given(Defaults[f]) ELSE Field(e, f)

\* FromStr of an unsigned number, which does not trim.
Parses(value, word) == ~value.padded /\ value.n \in 0 .. word - 1

EnvyAccepts(e) ==
    \A f \in Numbers :
        \/ IsUnset(e[f])
        \/ Parses(e[f], Widths[f]) /\ (f \in NonZero => e[f].n # 0)

\* drip_wei and gas_price_wei trim before they parse.
Wei(value) == value.n \in 0 .. U128 - 1

\* Mutant of ValidDifficulty: the bits have no upper bound.
ValidDifficultyFromBelow(bits, puzzles) == bits > 0 /\ puzzles \in 1 .. MaxPowPuzzles

ValidDifficulty(bits, puzzles) ==
    bits \in 1 .. MaxPowBits /\ puzzles \in 1 .. MaxPowPuzzles

Validate(e) ==
    /\ ValidDifficulty(Field(e, "pow_bits").n, Field(e, "pow_puzzles").n)
    /\ Wei(Field(e, "faucet_drip_wei"))
    /\ e.faucet_gas_price_wei \in {Unset, Blank} \/ Wei(e.faucet_gas_price_wei)

\* from_private_key_hex, which trims.
ValidKey(value) == value.n \in 1 .. KeyOrder - 1

Loads(e) ==
    EnvyAccepts(e) /\ Validate(e) /\ ValidKey(TrimmedField(e, "faucet_private_key"))

\* Config as the rest of the program reads it.
Resolved(e) ==
    [f \in Variables |-> IF f \in Texts THEN TrimmedField(e, f).n ELSE Field(e, f).n]
-----------------------------------------------------------------------------
StartupInit ==
    /\ args \in SUBSET {"version", "other"}
    /\ env \in Environments
    /\ node_chain \in NodeChains
    /\ status = "args"
    /\ config = Defaults
    /\ chain_id = None

\* startup_action: any argument but -v and --version is an error.
StartupAction ==
    /\ status = "args"
    /\ status' = IF "other" \in args THEN "exit 2"
                 ELSE IF "version" \in args THEN "exit 0" ELSE "config"
    /\ UNCHANGED boot

\* A panic of the main thread ends the process.
LoadConfig ==
    /\ status = "config"
    /\ IF Loads(env)
         THEN status' = "runtime" /\ config' = Resolved(env)
         ELSE status' = "panic" /\ UNCHANGED config
    /\ UNCHANGED <<args, env, chain_id, node_chain>>

\* The operating system may refuse the threads of web_workers, however few.
BuildRuntime ==
    /\ status = "runtime"
    /\ status' \in {"chain", "no threads"}
    /\ UNCHANGED boot

ConfiguredChain ==
    /\ status = "chain"
    /\ config.chain_id # None
    /\ chain_id' = config.chain_id
    /\ status' = "faucet"
    /\ UNCHANGED <<args, env, config, node_chain>>

\* Without CHAIN_ID the node is asked, once; without an answer it is a guess.
DiscoverChain(reply) ==
    /\ status = "chain"
    /\ config.chain_id = None
    /\ chain_id' = IF ReadQuantity(reply, U64).ok
                     THEN ReadQuantity(reply, U64).value
                     ELSE FallbackChain
    /\ status' = "faucet"
    /\ UNCHANGED <<args, env, config, node_chain>>

\* Faucet::new makes a semaphore of the capacity, which validate leaves alone.
NewFaucet ==
    /\ status = "faucet"
    /\ status' = IF PermitsFit(config.faucet_queue_capacity) THEN "bind" ELSE "panic"
    /\ UNCHANGED boot

\* run_server returns when it cannot bind, and main with it.
Bind ==
    /\ status = "bind"
    /\ status' \in {"listening", "exit 0"}
    /\ UNCHANGED boot

StartupStep ==
    \/ StartupAction
    \/ LoadConfig
    \/ BuildRuntime
    \/ ConfiguredChain
    \/ \E reply \in HonestReplies(node_chain) \cup FaultyReplies(U64) :
           DiscoverChain(reply)
    \/ NewFaucet
    \/ Bind

Terminated == status \in {"exit 0", "exit 2", "panic", "no threads"}
=============================================================================

----------------------------- MODULE JQueryData -----------------------------
(***************************************************************************)
(* The data that jQuery keeps for the nodes of the page (Data and          *)
(* jQuery.fn.data, web/lib/js/jquery-2.1.3.js:3518-3874), and what cloning *)
(* and removal do to it.                                                   *)
(*                                                                         *)
(* A node carries only a number, its unlock; the data is in a cache under  *)
(* that number.  A name with several words has two spellings, foo-bar and  *)
(* fooBar: .data() files it under the second one, and under the first too  *)
(* if there was something already; $.data() and .data(object) file it as   *)
(* it is spelled.  What is not in the cache is looked for in the data-*    *)
(* attribute, once, and kept.                                              *)
(*                                                                         *)
(* data_user is modelled; of data_priv, the mark hasDataAttrs.  How the    *)
(* text of an attribute is converted is the constant Converted.            *)
(***************************************************************************)
EXTENDS Naturals

CONSTANTS
    Owners,       \* nodes
    Accepting,    \* those that accept data: the elements
    Copies,       \* elements that are there only when they are cloned
    DataNames,    \* names, each with the spelling fooBar
    Dashed,       \* those with the spelling foo-bar, too
    DataValues,   \* what the page stores
    Converted,    \* texts of attributes, and the values read from them
    Undefined,
    MaxDataCalls  \* bounds the calls

ASSUME DataAssumption ==
    Copies \subseteq Accepting /\ Accepting \subseteq Owners /\ Dashed \subseteq DataNames

VARIABLES
    unlocks,      \* owner[ this.expando ]; 0 if it has none
    uid,          \* Data.uid, from the first unlock
    caches,       \* this.cache: by unlock, the value under each spelling
    attributes,   \* the data-* attributes
    askedAll,     \* elements with hasDataAttrs
    cloned,       \* the copies that have been made
    lastGiven,    \* history: the value the page last gave or was given for a name
    dataCalls

storeVars == <<unlocks, uid, caches>>
dataVars == <<storeVars, attributes, askedAll, cloned, lastGiven, dataCalls>>

Camel(name) == [name |-> name, dashed |-> FALSE]
Keys == {Camel(n) : n \in DataNames} \cup [name : Dashed, dashed : {TRUE}]

DataInit ==
    /\ unlocks = [o \in Owners |-> 0]
    /\ uid = 0
    /\ caches = <<>>
    /\ attributes = [o \in Owners |-> [n \in DataNames |-> Undefined]]
    /\ askedAll = {}
    /\ cloned = {}
    /\ lastGiven = [o \in Owners |-> [n \in DataNames |-> Undefined]]
    /\ dataCalls = 0

-----------------------------------------------------------------------------
(* Data.prototype                                                          *)

\* key: 0 is the entry of nodes without data, which is empty at each look.
Key(o) == IF o \notin Accepting THEN 0 ELSE IF unlocks[o] = 0 THEN uid + 1 ELSE unlocks[o]
Cache(o) == IF Key(o) \in DOMAIN caches THEN caches[Key(o)] ELSE <<>>

Entry(o, key) == IF key \in DOMAIN Cache(o) THEN Cache(o)[key] ELSE Undefined

\* Values that are filed among others, or in their place.
Filed(values, cache) ==
    [k \in DOMAIN values \cup DOMAIN cache |->
        IF k \in DOMAIN values THEN values[k] ELSE cache[k]]

Under(key, value) == [k \in {key} |-> value]

\* Every call that reaches the cache makes the unlock and the entry.
Keeps(o, cache) ==
    IF Key(o) = 0 THEN UNCHANGED storeVars
    ELSE /\ unlocks' = [unlocks EXCEPT ![o] = Key(o)]
         /\ uid' = IF unlocks[o] = 0 THEN uid + 1 ELSE uid
         /\ caches' = Filed(Under(Key(o), cache), caches)

Dropping(cache, keys) == [k \in DOMAIN cache \ keys |-> cache[k]]

HasData(o) == unlocks[o] \in DOMAIN caches /\ DOMAIN caches[unlocks[o]] # {}

-----------------------------------------------------------------------------
(* Reading and writing.                                                    *)

\* A call on a node that is in the page.
CallOn(o) ==
    /\ dataCalls < MaxDataCalls
    /\ dataCalls' = dataCalls + 1
    /\ o \in Copies => o \in cloned

\* getAttribute, and the conversion
FromAttribute(o, name) ==
    IF attributes[o][name] = Undefined THEN Undefined ELSE Converted[attributes[o][name]]

\* What .data(key) returns.
Reads(o, key) ==
    IF Entry(o, key) # Undefined THEN Entry(o, key)
    ELSE IF Entry(o, Camel(key.name)) # Undefined THEN Entry(o, Camel(key.name))
    ELSE FromAttribute(o, key.name)

\* What dataAttr files: the attributes of the names that are not in the cache.
Fetched(o, names) ==
    LET new == {n \in names : Entry(o, Camel(n)) = Undefined /\ FromAttribute(o, n) # Undefined}
    IN  [k \in {Camel(n) : n \in new} |-> FromAttribute(o, k.name)]

Gives(o, values) ==
    lastGiven' = [lastGiven EXCEPT ![o] = [n \in DataNames |->
                 IF Camel(n) \in DOMAIN values THEN values[Camel(n)] ELSE @[n]]]

\* .data(key)
ReadData(o, key) ==
    /\ CallOn(o)
    /\ LET fetched == IF Entry(o, key) # Undefined THEN <<>> ELSE Fetched(o, {key.name})
       IN  Keeps(o, Filed(fetched, Cache(o))) /\ Gives(o, fetched)
    /\ UNCHANGED <<attributes, askedAll, cloned>>

\* .data(): every attribute, the first time.
ReadAllData(o) ==
    /\ CallOn(o)
    /\ LET fetched == IF o \in askedAll THEN <<>> ELSE Fetched(o, DataNames)
       IN  Keeps(o, Filed(fetched, Cache(o))) /\ Gives(o, fetched)
    /\ askedAll' = IF o \in Accepting THEN askedAll \cup {o} ELSE askedAll
    /\ UNCHANGED <<attributes, cloned>>

\* .data(key, value)
WriteData(o, key, value) ==
    /\ CallOn(o)
    /\ LET twice == key.dashed /\ Entry(o, Camel(key.name)) # Undefined
           keys == {Camel(key.name)} \cup IF twice THEN {key} ELSE {}
       IN  Keeps(o, Filed([k \in keys |-> value], Cache(o)))
    /\ IF o \in Accepting THEN Gives(o, Under(Camel(key.name), value)) ELSE UNCHANGED lastGiven
    /\ UNCHANGED <<attributes, askedAll, cloned>>

\* $.data(o, key, value), and .data(object) with one property
WriteAsSpelled(o, key, value) ==
    /\ CallOn(o)
    /\ Keeps(o, Filed(Under(key, value), Cache(o)))
    /\ IF o \in Accepting THEN Gives(o, Under(key, value)) ELSE UNCHANGED lastGiven
    /\ UNCHANGED <<attributes, askedAll, cloned>>

\* Deviation: takes away what is there under the spelling it is given.
RemovedAsSpelled(o, key) == {key}

\* The spellings that .removeData(key) takes away.
Removed(o, key) ==
    IF key \in DOMAIN Cache(o) THEN {key, Camel(key.name)} ELSE {Camel(key.name)}

Forgets(o, names) ==
    lastGiven' = [lastGiven EXCEPT ![o] = [n \in DataNames |-> IF n \in names THEN Undefined ELSE @[n]]]

\* .removeData(key)
RemoveData(o, key) ==
    /\ CallOn(o)
    /\ Keeps(o, Dropping(Cache(o), Removed(o, key)))
    /\ Forgets(o, {key.name})
    /\ UNCHANGED <<attributes, askedAll, cloned>>

\* .removeData(list): each key as it is spelled, and in camel case.
RemoveListed(o, keys) ==
    /\ CallOn(o)
    /\ Keeps(o, Dropping(Cache(o), keys \cup {Camel(k.name) : k \in keys}))
    /\ Forgets(o, {k.name : k \in keys})
    /\ UNCHANGED <<attributes, askedAll, cloned>>

\* .removeData()
RemoveAllData(o) ==
    /\ CallOn(o)
    /\ Keeps(o, <<>>)
    /\ Forgets(o, DataNames)
    /\ UNCHANGED <<attributes, askedAll, cloned>>

-----------------------------------------------------------------------------
(* Nodes.                                                                  *)

\* cleanData: the entries of both stores; the node keeps its unlock.
DiscardData(o) ==
    /\ CallOn(o)
    /\ caches' = Dropping(caches, {unlocks[o]})
    /\ askedAll' = askedAll \ {o}
    /\ Forgets(o, DataNames)
    /\ UNCHANGED <<unlocks, uid, attributes, cloned>>

\* clone(true): attributes, marks, and a copy of the data.
CloneWithData(o, copy) ==
    /\ CallOn(o)
    /\ copy \in Copies \ cloned /\ o \in Accepting
    /\ cloned' = cloned \cup {copy}
    /\ attributes' = [attributes EXCEPT ![copy] = attributes[o]]
    /\ askedAll' = IF o \in askedAll THEN askedAll \cup {copy} ELSE askedAll
    /\ IF HasData(o) THEN Keeps(copy, Cache(o)) ELSE UNCHANGED storeVars
    /\ lastGiven' = [lastGiven EXCEPT ![copy] = lastGiven[o]]

\* The page sets or removes an attribute.
SetAttribute(o, name, text) ==
    /\ CallOn(o) /\ o \in Accepting
    /\ attributes' = [attributes EXCEPT ![o][name] = text]
    /\ UNCHANGED <<storeVars, askedAll, cloned, lastGiven>>

DataNext ==
    \/ \E o \in Owners, key \in Keys :
          \/ ReadData(o, key) \/ RemoveData(o, key)
          \/ \E value \in DataValues : WriteData(o, key, value) \/ WriteAsSpelled(o, key, value)
    \/ \E o \in Owners : ReadAllData(o) \/ RemoveAllData(o) \/ DiscardData(o)
    \/ \E o \in Owners, keys \in SUBSET Keys : RemoveListed(o, keys)
    \/ \E o, copy \in Owners : CloneWithData(o, copy)
    \/ \E o \in Owners, n \in DataNames, text \in DOMAIN Converted \cup {Undefined} :
          SetAttribute(o, n, text)

DataSpec == DataInit /\ [][DataNext]_dataVars

-----------------------------------------------------------------------------
(* Properties.                                                             *)

\* The page reads back, under either spelling, the value it last gave or was
\* given for a name of that node, and the attribute if there is none, whatever
\* happens to the attribute ("so it isn't changed later", :3741), to clones and
\* to other nodes; but for a value that is also filed under foo-bar, which only
\* the calls that spell the name so replace and remove (:3849-3864, :3672-3676).
ReadsWhatWasGiven ==
    \A o \in Accepting, key \in Keys :
        (key.dashed => key \notin DOMAIN Cache(o)) =>
            Reads(o, key) = IF lastGiven[o][key.name] # Undefined THEN lastGiven[o][key.name]
                            ELSE FromAttribute(o, key.name)
=============================================================================

----------------------------- MODULE LocalStore -----------------------------
(***************************************************************************)
(* The IO manager of local and test runs (dagster_io/local_io_manager.py,  *)
(* LocalJsonIOManager and LocalOptionalIOManager), and the places that     *)
(* dagster_io/path_builder.py gives to outputs: layer, code location,      *)
(* group and asset, the model for the layers that are kept for each, and   *)
(* the partition, a date taken apart.                                      *)
(*                                                                         *)
(* A place is the sequence of its directories, and the tag of a model that *)
(* of its words and signs.  An output is known by the number of its write. *)
(***************************************************************************)
EXTENDS Naturals, SequencesExt, Python

CONSTANTS Target,       \* what may be stored
          About,        \* the layer, the key, the partition and the model of each
          ModelKeyed,   \* _MODEL_KEYED_LAYERS
          Location,     \* DAGSTER_CODE_LOCATION
          MaxStores, MaxTorn   \* bounds

\* A partition key is a date or a month, both with their parts, or another name.
PartitionKey(key) ==
    \/ /\ key.kind = "date"
       /\ key = [kind |-> "date", year |-> key.year, month |-> key.month, day |-> key.day]
    \/ key.kind = "month" /\ key = [kind |-> "month", year |-> key.year, month |-> key.month]
    \/ key.kind = "name" /\ key = [kind |-> "name", name |-> key.name]

ASSUME LocalStoreAssumption ==
    /\ MaxStores \in Nat /\ MaxTorn \in Nat /\ None \notin Nat
    /\ \A t \in Target : About[t].partition = None \/ PartitionKey(About[t].partition)

VARIABLES localFiles,    \* the files of each place: None, Torn, or the write they are of
          meta,     \* the format that _metadata.json of each place tells, or None
          storing,  \* the output that is being stored, or None
          latest,   \* history: the last write of each target
          formats,  \* history: the formats each place was written in
          stores, torn   \* writes so far, and those that were cut off

localVars == <<localFiles, meta, storing, latest, formats, stores, torn>>

\* Writes are counted from 1.
Torn == 0

-----------------------------------------------------------------------------
(* path_builder                                                            *)

_hive_partition_segment(key) ==
    IF key.kind = "date" THEN <<<<"year", key.year>>, <<"month", key.month>>, <<"day", key.day>>>>
    ELSE IF key.kind = "month" THEN <<<<"year", key.year>>, <<"month", key.month>>>>
    ELSE <<key.name>>

\* A key has parts, and a part words: the group is the first of several parts, or else
\* the first word; the name of the asset has the words of all parts.
_group_from_asset_key(key) == IF Len(key) > 1 THEN key[1] ELSE <<key[1][1]>>

build_asset_root(t) ==
    <<t.layer, Location, _group_from_asset_key(t.key), FlattenSeq(t.key)>>

\* model_tag.replace("/", "_").replace(":", "_"): tags that differ in these signs alone
\* become one.
SafeTag(tag) == [i \in DOMAIN tag |-> IF tag[i] \in {"/", ":"} THEN "_" ELSE tag[i]]

\* Variant: one directory for the outputs of all models.
NoSegment(t) == <<>>

\* The model comes after the asset, in the layers that differ by it.
ModelSegment(t) ==
    IF t.model # None /\ t.layer \in ModelKeyed THEN <<<<"model", SafeTag(t.model)>>>> ELSE <<>>

PartitionSegment(t) ==
    IF t.partition = None THEN <<>> ELSE _hive_partition_segment(t.partition)

PlaceOf(t) == build_asset_root(t) \o ModelSegment(t) \o PartitionSegment(t)

\* A directory goes by the name of one of the outputs that are stored in it.
Directory ==
    [t \in Target |-> CHOOSE u \in Target : PlaceOf(About[u]) = PlaceOf(About[t])]

-----------------------------------------------------------------------------
Format == {"jsonl", "json", "pkl"}

LocalInit ==
    /\ localFiles = [d \in Target |-> [f \in Format |-> None]]
    /\ meta = [d \in Target |-> None] /\ storing = None
    /\ latest = [t \in Target |-> None] /\ formats = [d \in Target |-> {}]
    /\ stores = 0 /\ torn = 0

\* Opening the file for writing has emptied it.
Open(t, f) ==
    /\ storing = None /\ stores < MaxStores /\ stores' = stores + 1
    /\ storing' = [target |-> t, format |-> f, at |-> "data"]
    /\ localFiles' = [localFiles EXCEPT ![Directory[t]][f] = Torn]
    /\ formats' = [formats EXCEPT ![Directory[t]] = @ \union {f}]
    /\ UNCHANGED <<meta, latest, torn>>

WriteData ==
    /\ storing # None /\ storing.at = "data"
    /\ localFiles' = [localFiles EXCEPT ![Directory[storing.target]][storing.format] = stores]
    /\ storing' = [storing EXCEPT !.at = "meta"]
    /\ latest' = [latest EXCEPT ![storing.target] = stores]
    /\ UNCHANGED <<meta, formats, stores, torn>>

WriteMeta ==
    /\ storing # None /\ storing.at = "meta"
    /\ meta' = [meta EXCEPT ![Directory[storing.target]] = storing.format]
    /\ storing' = None
    /\ UNCHANGED <<localFiles, latest, formats, stores, torn>>

CutShort ==
    /\ storing # None /\ torn < MaxTorn /\ torn' = torn + 1
    /\ storing' = None
    /\ UNCHANGED <<localFiles, meta, latest, formats, stores>>

LocalNext == (\E t \in Target, f \in Format : Open(t, f)) \/ WriteData \/ WriteMeta \/ CutShort

\* load_input takes the first format there is, whatever was written last; nothing to
\* load is an error, or None for the optional manager.
Tried == <<"jsonl", "json", "pkl">>

Loaded(t) ==
    LET found == {i \in DOMAIN Tried : localFiles[Directory[t]][Tried[i]] # None}
    IN  IF found = {} THEN None ELSE localFiles[Directory[t]][Tried[Min(found)]]

-----------------------------------------------------------------------------
LocalTypeOK ==
    /\ localFiles \in [Target -> [Format -> {None, Torn} \union 1..MaxStores]]
    /\ meta \in [Target -> Format \union {None}]
    /\ storing # None => storing.at \in {"data", "meta"}
    /\ latest \in [Target -> {None} \union 1..MaxStores]
    /\ stores \in 0..MaxStores /\ torn \in 0..MaxTorn

\* Outputs that the places do not tell apart: those of one layer, asset and partition, by
\* models whose tags differ in the replaced signs alone; and a partition that has the
\* name of a model's directory.
SameModel(a, b) ==
    a.model = b.model \/ (a.model # None /\ b.model # None /\ SafeTag(a.model) = SafeTag(b.model))

NamedAsModel(a, b) ==
    /\ a.partition # None /\ ModelSegment(a) = <<>> /\ b.partition = None
    /\ PartitionSegment(a) = ModelSegment(b)

Alike(a, b) ==
    /\ a.layer = b.layer
    /\ _group_from_asset_key(a.key) = _group_from_asset_key(b.key)
    /\ FlattenSeq(a.key) = FlattenSeq(b.key)
    /\ \/ a.partition = b.partition /\ (a.layer \in ModelKeyed => SameModel(a, b))
       \/ NamedAsModel(a, b) \/ NamedAsModel(b, a)

\* An asset that is always stored in one format loads the last output stored for it, or a
\* later one that the paths do not tell from it: of its own layer, name, partition and,
\* where the layer is kept for each, of a model of the same safe tag; and the sidecar
\* tells a format that was written.
LoadsItsOwn ==
    /\ \A d \in Target : meta[d] # None => meta[d] \in formats[d]
    /\ \A t \in Target :
        Cardinality(formats[Directory[t]]) <= 1 /\ Loaded(t) # Torn =>
            /\ latest[t] # None => Loaded(t) # None /\ Loaded(t) >= latest[t]
            /\ Loaded(t) # None =>
                \E u \in Target : Alike(About[t], About[u]) /\ Loaded(t) = latest[u]
=============================================================================

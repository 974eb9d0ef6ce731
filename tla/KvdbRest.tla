------------------------------ MODULE KvdbRest ------------------------------
(***************************************************************************)
(* The REST endpoints of a KVDB and its KVS (src/lib/kvdb/kvdb_rest.c),    *)
(* composed with the runtime parameter record of KvdbRparams that the      *)
(* params endpoint reads and writes.                                       *)
(*                                                                         *)
(* The KVDB's parameters are built first (KvdbRparams' entries applied at  *)
(* open); kvdb_rest_add_endpoints then registers the KVDB endpoints one    *)
(* by one, and any of them may fail (rest_server_add_endpoint).  The KVS   *)
(* registers its two endpoints on open (kvs_rest_add_endpoints, taking a   *)
(* reference on the KVS) and removes them on close.  Requests are served   *)
(* on registered endpoints only.  The REST server, ikvdb and the generic   *)
(* param engine (param_set, param_default_populate) are outside src/ and  *)
(* modelled from spec 4.A and 6: set looks the name up (not-found), then  *)
(* checks the writable flag (read-only), then converts and checks bounds  *)
(* (bad-value) and writes the field at ps_offset.  The callers of the add  *)
(* functions log a failure and go on (the REST surface is optional,        *)
(* spec 6).  Every scalar pspec is below, with the four kinds of           *)
(* KvdbRparams; a response is its status, not its text.                    *)
(***************************************************************************)
EXTENDS KvdbRparams, TLC

CONSTANTS
    PerfcLevelMin,      \* PERFC_LEVEL_MIN  (header not in the repository)
    PerfcLevelMax,      \* PERFC_LEVEL_MAX
    PerfcLevelDefault,  \* PERFC_LEVEL_DEFAULT
    HeaderValue,        \* the other header constants pspecs[] names, by name
    NoParam,            \* a request on /params itself, naming no parameter
    Bodies,             \* PUT bodies: [kind |-> "number", val], "string" or "none"
    PutNames,           \* parameter names PUT and GET requests carry
    AddMayFail,         \* may rest_server_add_endpoint fail?
    MemMayFail,         \* may a handler's allocation fail?
    MaxReqs,            \* bound on the requests served
    MaxKvsOpens,        \* bound on the opens of the KVS
    Configured          \* the media classes configured in the mpool

VARIABLES
    scal,    \* the scalar fields of struct kvdb_rparams addressed below
    phase,   \* the KVDB: "build" (entries applied), "open", "closed"
    eps,     \* the registered REST endpoints of the KVDB and its KVS
    kvs,     \* the KVS: "closed" or "open"
    refcnt,  \* kk_refcnt of the KVS, relative to its value before any open
    resp,    \* the last response: [op, name, status]
    nreq,    \* requests served
    nkvs     \* opens of the KVS

restvars == <<scal, phase, eps, kvs, refcnt, resp, nreq, nkvs>>
allvars  == <<vars, restvars>>

\* A scalar pspec: field at ps_offset, PARAM_FLAG_WRITABLE, bits of
\* ps_type, ps_bounds and ps_default_value.
Pspec(f, w, bits, lo, hi, d) ==
    [field |-> f, writable |-> w, bits |-> bits, lo |-> lo, hi |-> hi, dflt |-> d]

\* UINTn_MAX; above 2^30 a bound is Wide (TLC's integers stop at 2^31, and
\* no input comes near a wide bound).
Wide == 2^30
UMax(bits) == IF bits <= 30 THEN 2^bits - 1 ELSE Wide
H(m) == HeaderValue[m]

\* pspecs[] "perfc.level", "perfc_enable" (both at perfc_level), "c0_debug".
PerfcPspecs ==
    << <<"perfc.level", Pspec("perfc_level", FALSE, 8, PerfcLevelMin, PerfcLevelMax,
                              PerfcLevelDefault)>>,
       <<"perfc_enable", Pspec("perfc_level", FALSE, 8, 0, 4, 2)>>,
       <<"c0_debug", Pspec("c0_debug", TRUE, 8, 0, 255, 0)>> >>

\* pspecs[] "c0_diag_mode" .. "cndb_compact_hwm_pct" (a bool is 0 or 1, the
\* double a number in its bounds).
C0Pspecs ==
    << <<"c0_diag_mode", Pspec("c0_diag_mode", FALSE, 1, 0, 1, 0)>>,
       <<"c0_ingest_width", Pspec("c0_ingest_width", FALSE, 32, H("HSE_C0_INGEST_WIDTH_MIN"),
             H("HSE_C0_INGEST_WIDTH_MAX"), H("HSE_C0_INGEST_WIDTH_DFLT"))>>,
       <<"txn_timeout", Pspec("txn_timeout", FALSE, 64, 0, UMax(64), 1000 * 60 * 5)>>,
       <<"cndb_compact_hwm_pct", Pspec("cndb_compact_hwm_pct", FALSE, 64, 0, 100,
             H("HSE_CNDB_COMPACT_HWM_PCT_DEFAULT"))>> >>

\* pspecs[] "csched_policy", "csched_debug_mask", "csched_samp_max".
CschedPolicyPspecs ==
    << <<"csched_policy", Pspec("csched_policy", TRUE, 32, H("csched_rp_kvset_iter_async"),
             H("csched_rp_kvset_iter_mmap"), H("csched_rp_kvset_iter_async"))>>,
       <<"csched_debug_mask", Pspec("csched_debug_mask", TRUE, 64, 0, UMax(64), 0)>>,
       <<"csched_samp_max", Pspec("csched_samp_max", TRUE, 64, 0, UMax(64), 150)>> >>

\* Variant for mutation checking: csched_max_vgroups at the offset of the
\* next field.
CschedPspecsVgroupsAlias ==
    << <<"csched_lo_th_pct", Pspec("csched_lo_th_pct", TRUE, 8, 0, 100, 25)>>,
       <<"csched_hi_th_pct", Pspec("csched_hi_th_pct", TRUE, 8, 0, 100, 75)>>,
       <<"csched_leaf_pct", Pspec("csched_leaf_pct", TRUE, 8, 0, 100, 90)>>,
       <<"csched_gc_pct", Pspec("csched_gc_pct", TRUE, 8, 50, 100, 67)>>,
       <<"csched_max_vgroups", Pspec("csched_lscat_runlen_max", TRUE, 16, 1, 65535, 1024)>>,
       <<"csched_lscat_runlen_max", Pspec("csched_lscat_runlen_max", TRUE, 8, 1, 8, 3)>> >>

\* pspecs[] "csched_lo_th_pct" .. "csched_lscat_runlen_max";
\* csched_max_vgroups is the field csched_lscat_hwm.
CschedPspecs ==
    << <<"csched_lo_th_pct", Pspec("csched_lo_th_pct", TRUE, 8, 0, 100, 25)>>,
       <<"csched_hi_th_pct", Pspec("csched_hi_th_pct", TRUE, 8, 0, 100, 75)>>,
       <<"csched_leaf_pct", Pspec("csched_leaf_pct", TRUE, 8, 0, 100, 90)>>,
       <<"csched_gc_pct", Pspec("csched_gc_pct", TRUE, 8, 50, 100, 67)>>,
       <<"csched_max_vgroups", Pspec("csched_lscat_hwm", TRUE, 16, 1, 65535, 1024)>>,
       <<"csched_lscat_runlen_max", Pspec("csched_lscat_runlen_max", TRUE, 8, 1, 8, 3)>> >>

\* pspecs[] "csched_qthreads" .. "csched_node_min_ttl".
CschedParamsPspecs ==
    << <<"csched_qthreads", Pspec("csched_qthreads", TRUE, 64, 0, UMax(64),
             H("CSCHED_QTHREADS_DEFAULT"))>>,
       <<"csched_rspill_params", Pspec("csched_rspill_params", TRUE, 64, 0, UMax(64), 0)>>,
       <<"csched_leaf_comp_params", Pspec("csched_leaf_comp_params", TRUE, 64, 0, UMax(64), 0)>>,
       <<"csched_leaf_len_params", Pspec("csched_leaf_len_params", TRUE, 64, 0, UMax(64), 0)>>,
       <<"csched_node_min_ttl", Pspec("csched_node_min_ttl", FALSE, 64, 0, UMax(64), 17)>> >>

\* pspecs[] "durability.enabled" .. "durability.buffer.managed" (the mclass
\* is a kind of KvdbRparams).
DurPspecs ==
    << <<"durability.enabled", Pspec("dur_enable", FALSE, 1, 0, 1, 1)>>,
       <<"durability.interval_ms", Pspec("dur_intvl_ms", FALSE, 32, H("HSE_WAL_DUR_MS_MIN"),
             H("HSE_WAL_DUR_MS_MAX"), H("HSE_WAL_DUR_MS_DFLT"))>>,
       <<"durability.replay.force", Pspec("dur_replay_force", FALSE, 1, 0, 1, 0)>>,
       <<"durability.size_bytes", Pspec("dur_size_bytes", FALSE, 32,
             H("HSE_WAL_DUR_SIZE_BYTES_MIN"), H("HSE_WAL_DUR_SIZE_BYTES_MAX"),
             H("HSE_WAL_DUR_SIZE_BYTES_DFLT"))>>,
       <<"durability.buffer.size", Pspec("dur_bufsz_mb", FALSE, 32, H("HSE_WAL_DUR_BUFSZ_MB_MIN"),
             H("HSE_WAL_DUR_BUFSZ_MB_MAX"), H("HSE_WAL_DUR_BUFSZ_MB_DFLT"))>>,
       <<"durability.throttling.threshold.low", Pspec("dur_throttle_lo_th", FALSE, 8, 0, 100, 13)>>,
       <<"durability.throttling.threshold.high", Pspec("dur_throttle_hi_th", FALSE, 8, 0, 100, 87)>>,
       <<"durability.buffer.managed", Pspec("dur_buf_managed", FALSE, 1, 0, 1, 0)>> >>

\* pspecs[] "throttle_disable" .. "throttle_debug_intvl_s" (the init policy
\* after them is a kind of KvdbRparams).
ThrottlePspecs ==
    << <<"throttle_disable", Pspec("throttle_disable", FALSE, 1, 0, 1, 0)>>,
       <<"throttle_update_ns", Pspec("throttle_update_ns", TRUE, 64, 0, UMax(64), 25 * 1000 * 1000)>>,
       <<"throttle_debug", Pspec("throttle_debug", TRUE, 32, 0, UMax(32), 0)>>,
       <<"throttle_debug_intvl_s", Pspec("throttle_debug_intvl_s", TRUE, 32, 0, UMax(32), 300)>> >>

\* pspecs[] "throttle_burst" and "throttle_rate".
ThrottleRatePspecs ==
    << <<"throttle_burst", Pspec("throttle_burst", TRUE, 64, 0, UMax(64), 2^20)>>,
       <<"throttle_rate", Pspec("throttle_rate", TRUE, 64, 0, UMax(64), 10 * 2^20)>> >>

\* pspecs[] "txn_wkth_delay" .. "keylock_tables".
ThreadPspecs ==
    << <<"txn_wkth_delay", Pspec("txn_wkth_delay", FALSE, 64, 0, UMax(64), 1000 * 60)>>,
       <<"c0_maint_threads", Pspec("c0_maint_threads", FALSE, 32, H("HSE_C0_MAINT_THREADS_MIN"),
             H("HSE_C0_MAINT_THREADS_MAX"), H("HSE_C0_MAINT_THREADS_DFLT"))>>,
       <<"c0_ingest_threads", Pspec("c0_ingest_threads", FALSE, 32, H("HSE_C0_INGEST_THREADS_MIN"),
             H("HSE_C0_INGEST_THREADS_MAX"), H("HSE_C0_INGEST_THREADS_DFLT"))>>,
       <<"cn_maint_threads", Pspec("cn_maint_threads", FALSE, 16, 1, 256, 32)>>,
       <<"cn_io_threads", Pspec("cn_io_threads", FALSE, 16, 1, 256, 17)>>,
       <<"keylock_tables", Pspec("keylock_tables", FALSE, 32, 16, 8192, 761)>> >>

\* pspecs[] "storage.<class>.directio.enabled": dio_enable[HSE_MCLASS_<class>].
StoragePspecs ==
    [i \in 1..3 |-> LET c == <<"capacity", "staging", "pmem">>[i]
                    IN  <<"storage." \o c \o ".directio.enabled",
                          Pspec("dio_enable[" \o c \o "]", FALSE, 1, 0, 1, 1)>>]

\* The scalar pspecs in the order of pspecs[].
PspecTable  == PerfcPspecs \o C0Pspecs \o CschedPolicyPspecs \o CschedPspecs
                  \o CschedParamsPspecs \o DurPspecs \o ThrottlePspecs
                  \o ThrottleRatePspecs \o ThreadPspecs \o StoragePspecs
ScalarNames == {PspecTable[i][1] : i \in DOMAIN PspecTable}
Pspecs      == [n \in ScalarNames |->
                  PspecTable[CHOOSE i \in DOMAIN PspecTable : PspecTable[i][1] = n][2]]
Fields      == {Pspecs[n].field : n \in ScalarNames}

\* Each default of pspecs[] lies in its bounds, and each bound in its type.
ASSUME \A n \in ScalarNames :
          Pspecs[n].lo <= Pspecs[n].dflt /\ Pspecs[n].dflt <= Pspecs[n].hi
          /\ Pspecs[n].hi <= UMax(Pspecs[n].bits)

\* param_default_populate: each pspec in table order writes its default, so
\* a field takes the default of the last pspec that addresses it.
DefaultScalars ==
    [f \in Fields |->
       LET last == CHOOSE i \in DOMAIN PspecTable :
                      /\ PspecTable[i][2].field = f
                      /\ \A j \in DOMAIN PspecTable : j > i => PspecTable[j][2].field # f
       IN  PspecTable[last][2].dflt]

\* kvdb_rparams_to_json: one member per pspec, from its jsonify callback;
\* the documents it can produce (dur_mclass_jsonify has two outcomes).
RparamsToJson ==
    {[n \in ScalarNames |-> scal[Pspecs[n].field]]
     @@ ("mclass_policies" :> MclassPoliciesJsonify(pol))
     @@ ("throttling.init_policy" :> ThrottleInitPolicyJsonify(thr))
     @@ ("durability.mclass" :> d)
     @@ ("mode" :> KvdbOpenModeJsonify(mode)) : d \in DurMclassJsonify(dur)}

\* Every document has the same members.
ParamNames == DOMAIN (CHOOSE doc \in RparamsToJson : TRUE)
Writable(n) == n \in ScalarNames /\ Pspecs[n].writable

\* Variant for mutation checking: the bounds of the pspec are not checked.
KvdbRparamsSetNoBounds(n, body) ==
    LET err == IF body.kind = "none" THEN "EINVAL"
               ELSE IF n \notin ParamNames THEN "ENOENT"
               ELSE IF ~Writable(n) THEN "EROFS"
               ELSE IF body.kind # "number" THEN "EINVAL"
               ELSE "OK"
    IN  [err |-> err,
         scal |-> IF err = "OK" THEN [scal EXCEPT ![Pspecs[n].field] = body.val] ELSE scal]

(***************************************************************************)
(* kvdb_rparams_set then param_set: EINVAL without a value; ENOENT for an  *)
(* unknown name; EROFS for a pspec without PARAM_FLAG_WRITABLE; EINVAL     *)
(* when the body is not a JSON number or is out of bounds; else the field  *)
(* at ps_offset is written.  Returns the error and the new fields.         *)
(***************************************************************************)
KvdbRparamsSet(n, body) ==
    LET err == IF body.kind = "none" THEN "EINVAL"
               ELSE IF n \notin ParamNames THEN "ENOENT"
               ELSE IF ~Writable(n) THEN "EROFS"
               ELSE IF body.kind # "number" THEN "EINVAL"
               ELSE IF body.val \notin Pspecs[n].lo..Pspecs[n].hi THEN "EINVAL"
               ELSE "OK"
    IN  [err |-> err,
         scal |-> IF err = "OK" THEN [scal EXCEPT ![Pspecs[n].field] = body.val] ELSE scal]

\* The status rest_kvdb_params_put maps each error of kvdb_rparams_set to.
PutStatus == [OK |-> 201, EINVAL |-> 400, ENOENT |-> 404, EROFS |-> 423]

\* The KVDB endpoints in the order kvdb_rest_add_endpoints registers them.
KvdbEpSeq == <<"compact", "home", "kvs", "mclasses", "mclass/capacity",
               "mclass/staging", "mclass/pmem", "params", "perfc">>
KvdbEps   == Range(KvdbEpSeq)
KvsEps    == {"kvs/params", "kvs/perfc"}

\* The endpoints a call of a list of adds leaves registered: every prefix
\* when an add may fail (the one after the prefix failed), else all.
AddedPrefixes(s) ==
    IF AddMayFail THEN {Range(SubSeq(s, 1, k)) : k \in 0..Len(s)} ELSE {Range(s)}

Serve(ep) ==
    /\ phase = "open"
    /\ ep \in eps
    /\ nreq < MaxReqs
    /\ nreq' = nreq + 1

Response(op, n, s) == [op |-> op, name |-> n, status |-> s]
-----------------------------------------------------------------------------
RestInit ==
    /\ Init
    /\ scal = DefaultScalars
    /\ phase = "build"
    /\ eps = {}
    /\ kvs = "closed"
    /\ refcnt = 0
    /\ resp = Response("none", NoParam, 0)
    /\ nreq = 0
    /\ nkvs = 0

\* An entry of the open path applied to the record.
Build ==
    /\ phase = "build"
    /\ Next
    /\ UNCHANGED restvars

(***************************************************************************)
(* kvdb_rest_add_endpoints at the end of the KVDB open, once its MaxSets   *)
(* entries are applied (a shorter list is one with ineffective entries):   *)
(* register the KVDB endpoints in turn; on the first failure return,       *)
(* leaving the ones registered before it.                                  *)
(***************************************************************************)
KvdbRestAddEndpoints ==
    /\ phase = "build"
    /\ nsets = MaxSets
    /\ phase' = "open"
    /\ \E added \in AddedPrefixes(KvdbEpSeq) : eps' = eps \cup added
    /\ UNCHANGED <<vars, scal, kvs, refcnt, resp, nreq, nkvs>>

\* Variant for mutation checking: the per-media-class endpoints are not
\* removed.
KvdbRestRemoveEndpointsNoMclass ==
    /\ phase = "open" /\ kvs = "closed"
    /\ phase' = "closed"
    /\ eps' = eps \ (KvdbEps \ {"mclass/capacity", "mclass/staging", "mclass/pmem"})
    /\ UNCHANGED <<vars, scal, kvs, refcnt, resp, nreq, nkvs>>

\* kvdb_rest_remove_endpoints at KVDB close, after its KVS are closed:
\* remove every KVDB endpoint (a path not registered is left alone).
KvdbRestRemoveEndpoints ==
    /\ phase = "open" /\ kvs = "closed"
    /\ phase' = "closed"
    /\ eps' = eps \ KvdbEps
    /\ UNCHANGED <<vars, scal, kvs, refcnt, resp, nreq, nkvs>>

(***************************************************************************)
(* kvs_rest_add_endpoints at KVS open: register params, then perfc.  On    *)
(* success take a reference on the KVS; on failure call                    *)
(* kvs_rest_remove_endpoints, which removes both and drops a reference.    *)
(***************************************************************************)
KvsRestAddEndpoints ==
    /\ phase = "open" /\ kvs = "closed"
    /\ nkvs < MaxKvsOpens
    /\ nkvs' = nkvs + 1
    /\ kvs' = "open"
    /\ \E added \in AddedPrefixes(<<"kvs/params", "kvs/perfc">>) :
         IF added = KvsEps
         THEN eps' = eps \cup KvsEps /\ refcnt' = refcnt + 1
         ELSE eps' = eps \ KvsEps /\ refcnt' = refcnt - 1
    /\ UNCHANGED <<vars, scal, phase, resp, nreq>>

\* kvs_rest_remove_endpoints at KVS close: remove both, drop the reference.
KvsRestRemoveEndpoints ==
    /\ kvs = "open"
    /\ kvs' = "closed"
    /\ eps' = eps \ KvsEps
    /\ refcnt' = refcnt - 1
    /\ UNCHANGED <<vars, scal, phase, resp, nreq, nkvs>>

(***************************************************************************)
(* rest_kvdb_params_put: 405 without a parameter name, 400 unless the      *)
(* content type is JSON, else kvdb_rparams_set and its error mapped.       *)
(***************************************************************************)
RestKvdbParamsPut(n, json, body) ==
    LET r == KvdbRparamsSet(n, body)
        s == IF n = NoParam THEN 405 ELSE IF ~json THEN 400 ELSE PutStatus[r.err]
    IN  /\ Serve("params")
        /\ scal' = IF n # NoParam /\ json THEN r.scal ELSE scal
        /\ resp' = Response("put", n, s)
        /\ UNCHANGED <<vars, phase, eps, kvs, refcnt, nkvs>>

(***************************************************************************)
(* rest_kvdb_params_get: 400 for a bad 'pretty'; without a name the merged *)
(* cparams and rparams JSON (503 if building it fails); with a name 404    *)
(* when unknown, else the value, read into a 128-byte buffer and, when it  *)
(* does not fit (the policy array), into a malloc'd one (503 if that      *)
(* fails).                                                                 *)
(***************************************************************************)
RestKvdbParamsGet(n, pretty) ==
    /\ Serve("params")
    /\ \E oom \in IF MemMayFail THEN BOOLEAN ELSE {FALSE} :
         resp' = Response("get", n,
                   IF ~pretty THEN 400
                   ELSE IF n = NoParam THEN (IF oom THEN 503 ELSE 200)
                   ELSE IF n \notin ParamNames THEN 404
                   ELSE IF n = "mclass_policies" /\ oom THEN 503
                   ELSE 200)
    /\ UNCHANGED <<vars, scal, phase, eps, kvs, refcnt, nkvs>>

\* The media class endpoints, by class.
MclassEp == [m \in {"capacity", "staging", "pmem"} |-> "mclass/" \o m]

(***************************************************************************)
(* rest_kvdb_mclass_info_get: 400 for a bad 'pretty'; 404 when             *)
(* ikvdb_mclass_info_get finds the class not configured; 503 when the cJSON *)
(* object, a member or the printed text cannot be allocated; else 200.     *)
(***************************************************************************)
MclassInfoStatuses(c, pretty) ==
    IF ~pretty THEN {400}
    ELSE IF c \notin Configured THEN {404}
    ELSE {200} \cup (IF MemMayFail THEN {503} ELSE {})

(***************************************************************************)
(* The statuses the read-only GET handlers of home, kvs, mclasses and      *)
(* perfc answer: 400 for a bad 'pretty' in each; 503 when a cJSON          *)
(* allocation fails (home prints without one); 404 from                    *)
(* rest_kvdb_get_perfc for an unknown filter (the data tree below perfc is *)
(* not modelled, so that is a choice), else 200.                           *)
(***************************************************************************)
GetStatuses(ep, pretty) ==
    IF \E c \in DOMAIN MclassEp : MclassEp[c] = ep
    THEN MclassInfoStatuses(CHOOSE c \in DOMAIN MclassEp : MclassEp[c] = ep, pretty)
    ELSE IF ~pretty THEN {400}
    ELSE {200}
         \cup (IF MemMayFail /\ ep # "home" THEN {503} ELSE {})
         \cup (IF ep = "perfc" THEN {404} ELSE {})

\* rest_kvdb_get_home, rest_kvdb_get_kvs_names, rest_kvdb_get_mclass,
\* rest_kvdb_mclass_info_get and rest_kvdb_get_perfc.
RestKvdbGet(ep, pretty) ==
    /\ Serve(ep)
    /\ \E s \in GetStatuses(ep, pretty) : resp' = Response("get", ep, s)
    /\ UNCHANGED <<vars, scal, phase, eps, kvs, refcnt, nkvs>>

(***************************************************************************)
(* The KVS handlers.  The KVS parameter record and its engine              *)
(* (kvs_rparams_set, ikvdb_kvs_param_get) are not in the repository: their *)
(* result is a choice among the errors the handlers tell apart, EIO        *)
(* standing for any other.  dt_emit of the KVS's perfc path may likewise   *)
(* find nothing (ENOENT, ENAMETOOLONG) or fail otherwise.                   *)
(***************************************************************************)
KvsParamErrs == {"OK", "EINVAL", "ENOENT", "EROFS", "EIO"}
DtEmitErrs   == {"OK", "ENOENT", "ENAMETOOLONG", "EIO"}
MemFails     == IF MemMayFail THEN BOOLEAN ELSE {FALSE}

\* The status rest_kvs_params_put maps each error of kvs_rparams_set to.
KvsPutStatus == [OK |-> 201, EINVAL |-> 400, ENOENT |-> 404, EROFS |-> 423, EIO |-> 500]

\* rest_kvs_params_put: 405 without a parameter name, 400 unless the
\* content type is JSON, else kvs_rparams_set and its error mapped.
RestKvsParamsPut(named, json) ==
    /\ Serve("kvs/params")
    /\ \E err \in KvsParamErrs :
         resp' = Response("put", "kvs/params",
                   IF ~named THEN 405 ELSE IF ~json THEN 400 ELSE KvsPutStatus[err])
    /\ UNCHANGED <<vars, scal, phase, eps, kvs, refcnt, nkvs>>

(***************************************************************************)
(* rest_kvs_params_get: 400 for a bad 'pretty'.  With a name:              *)
(* ikvdb_kvs_param_get into a 128-byte buffer, EINVAL 400, ENOENT 404, any *)
(* other error 500; a value that does not fit is read again into a        *)
(* malloc'd buffer (503 if that fails).  Without a name: the KVS cparams   *)
(* and rparams JSON merged and printed, 503 when any of the four           *)
(* allocations fails.  Else 200.                                            *)
(***************************************************************************)
RestKvsParamsGet(named, pretty) ==
    /\ Serve("kvs/params")
    /\ \E err \in KvsParamErrs \ {"EROFS"}, big \in BOOLEAN, oom \in MemFails :
         resp' = Response("get", "kvs/params",
                   IF ~pretty THEN 400
                   ELSE IF ~named THEN (IF oom THEN 503 ELSE 200)
                   ELSE IF err = "EINVAL" THEN 400
                   ELSE IF err = "ENOENT" THEN 404
                   ELSE IF err # "OK" THEN 500
                   ELSE IF big /\ oom THEN 503
                   ELSE 200)
    /\ UNCHANGED <<vars, scal, phase, eps, kvs, refcnt, nkvs>>

\* rest_kvs_get_perfc: 400 for a bad 'pretty'; dt_emit of the KVS's path
\* (with the filter appended): 404 when nothing is there, 500 for another
\* error; 503 when printing fails; else 200.
RestKvsGetPerfc(pretty) ==
    /\ Serve("kvs/perfc")
    /\ \E err \in DtEmitErrs, oom \in MemFails :
         resp' = Response("get", "kvs/perfc",
                   IF ~pretty THEN 400
                   ELSE IF err \in {"ENOENT", "ENAMETOOLONG"} THEN 404
                   ELSE IF err # "OK" THEN 500
                   ELSE IF oom THEN 503
                   ELSE 200)
    /\ UNCHANGED <<vars, scal, phase, eps, kvs, refcnt, nkvs>>

\* rest_kvdb_compact_request and rest_kvdb_compact_cancel hand the flag to
\* ikvdb_compact and answer 202; rest_kvdb_compact_status_get answers 400
\* for a bad 'pretty', 503 when building the JSON fails, else 200.
RestKvdbCompact(op, pretty) ==
    /\ Serve("compact")
    /\ \E oom \in IF MemMayFail THEN BOOLEAN ELSE {FALSE} :
         resp' = Response(op, NoParam,
                   IF op \in {"post", "delete"} THEN 202
                   ELSE IF ~pretty THEN 400 ELSE IF oom THEN 503 ELSE 200)
    /\ UNCHANGED <<vars, scal, phase, eps, kvs, refcnt, nkvs>>

\* The KVDB is closed: nothing more happens.
Closed ==
    /\ phase = "closed"
    /\ UNCHANGED allvars

RestNext ==
    \/ Build
    \/ KvdbRestAddEndpoints \/ KvdbRestRemoveEndpoints
    \/ KvsRestAddEndpoints \/ KvsRestRemoveEndpoints
    \/ \E n \in PutNames \cup {NoParam}, json \in BOOLEAN, b \in Bodies :
          RestKvdbParamsPut(n, json, b)
    \/ \E n \in PutNames \cup {NoParam}, pretty \in BOOLEAN : RestKvdbParamsGet(n, pretty)
    \/ \E op \in {"post", "delete", "get"}, pretty \in BOOLEAN : RestKvdbCompact(op, pretty)
    \/ \E ep \in KvdbEps \ {"compact", "params"}, pretty \in BOOLEAN : RestKvdbGet(ep, pretty)
    \/ \E named, json \in BOOLEAN : RestKvsParamsPut(named, json)
    \/ \E named, pretty \in BOOLEAN : RestKvsParamsGet(named, pretty)
    \/ \E pretty \in BOOLEAN : RestKvsGetPerfc(pretty)
    \/ Closed

RestSpec == RestInit /\ [][RestNext]_allvars

\* No guard reads resp, so states that differ in it alone have the same
\* futures; the view of the model checker leaves it out.  (Properties that
\* read resp read the resp' of a step.)
RestView == <<vars, scal, phase, eps, kvs, refcnt, nreq, nkvs>>


-----------------------------------------------------------------------------
RestTypeOK ==
    /\ scal \in [Fields -> Nat]
    /\ \A n \in ScalarNames : scal[Pspecs[n].field] <= UMax(Pspecs[n].bits)
    /\ phase \in {"build", "open", "closed"}
    /\ eps \subseteq KvdbEps \cup KvsEps
    /\ kvs \in {"closed", "open"}
    /\ refcnt \in -2 * MaxKvsOpens..MaxKvsOpens
    /\ nreq \in 0..MaxReqs /\ nkvs \in 0..MaxKvsOpens

(***************************************************************************)
(* Once the KVDB is open, a step changes the value of at most one          *)
(* parameter, as the GET of any name shows it: the one a PUT named, when   *)
(* that PUT answered 201 and the parameter is writable.  A rejected PUT    *)
(* leaves the record as it was (spec 4.A), and no pspec writes a field     *)
(* another parameter reads.  The non-scalar members are functions of vars. *)
(***************************************************************************)
PutScope ==
    [][phase = "open" =>
         /\ UNCHANGED vars
         /\ \A n \in ScalarNames :
               scal'[Pspecs[n].field] # scal[Pspecs[n].field] =>
                  /\ resp'.op = "put" /\ resp'.name = n /\ resp'.status = 201
                  /\ Writable(n)]_allvars

(***************************************************************************)
(* No endpoint outlives what it serves: the KVS endpoints are registered   *)
(* only while the KVS is open and the KVDB endpoints only while the KVDB   *)
(* is open, whatever adds failed on the way (a request on a stale one     *)
(* would run its handler on a closed KVS or KVDB).                         *)
(***************************************************************************)
EndpointsOfLiveOnly ==
    /\ kvs = "closed" => eps \cap KvsEps = {}
    /\ phase # "open" => eps \cap KvdbEps = {}

(***************************************************************************)
(* The KVS holds one reference for its registered endpoints and none       *)
(* otherwise: kvs_rest_add_endpoints takes it on success, and               *)
(* kvs_rest_remove_endpoints drops it.                                     *)
(***************************************************************************)
RefcntMatchesEndpoints ==
    refcnt = IF KvsEps \subseteq eps THEN 1 ELSE 0
====

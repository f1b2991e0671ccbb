------------------------ MODULE AcquisitionPipeline ------------------------
(***************************************************************************)
(* The Dataset Import Pipeline of the data_acquisition context, without    *)
(* its database: what a job may be scheduled with, what each provider      *)
(* adapter can answer, and how ExecuteAcquisitionJobHandler turns the      *)
(* answer into a failed job, an escaped exception or a dataset with an     *)
(* account of the preprocessing steps and spectral indices.                *)
(*                                                                         *)
(* File contents, geometries and pixel values are abstracted to what the   *)
(* pipeline tells apart: which validator accepts the bytes, which fault a  *)
(* shapefile archive has, which bands have a mean over the AOI.  What a    *)
(* remote service answers is a set of possible answers.                    *)
(***************************************************************************)
EXTENDS Integers, FiniteSets

(* Of the product-level members, which no job may fetch from, two stand    *)
(* for all.                                                                *)
DataProvider ==
    {"GOOGLE_EARTH_ENGINE", "USGS", "NASA", "COPERNICUS", "LOCAL_UPLOAD", "CHIRPS", "OTHER"}

ACQUISITION_CAPABLE_PROVIDERS ==
    {"GOOGLE_EARTH_ENGINE", "USGS", "NASA", "COPERNICUS", "LOCAL_UPLOAD"}

AcquisitionFormat == {"GEOJSON", "SHAPEFILE", "GEOTIFF", "CSV", "JSON"}

RemoteSensingSource == {"SENTINEL_1", "SENTINEL_2", "LANDSAT", "MODIS", "CHIRPS", "ERA5"}

PreprocessingStep ==
    {"CLOUD_MASKING", "ATMOSPHERIC_CORRECTION", "RADIOMETRIC_CORRECTION",
     "REPROJECTION", "AOI_CLIPPING"}

SpectralIndex == {"NDVI", "EVI", "SAVI", "NDWI", "NBR", "DNBR", "LST", "SPEI"}

NoSource == "NO_SOURCE"

(* What a schedule request asks for.  aoi, content and comparison say      *)
(* whether the request names an AOI, carries raw_content_base64, and gives *)
(* both ends of a comparison window; crs whether declared_crs has the form *)
(* EPSG:<code>; visible whether the dataset source exists and is global or *)
(* the tenant's own.                                                       *)
Request ==
    [visible : BOOLEAN, provider : DataProvider, format : AcquisitionFormat,
     source : RemoteSensingSource \cup {NoSource}, aoi : BOOLEAN, content : BOOLEAN,
     crs : BOOLEAN, comparison : BOOLEAN,
     steps : SUBSET PreprocessingStep, indices : SUBSET SpectralIndex]

(* Faulty variant: the format is not tied to the provider. *)
SchedulableAnyFormat(r) ==
    /\ r.provider \in ACQUISITION_CAPABLE_PROVIDERS
    /\ r.provider = "LOCAL_UPLOAD" => r.content
    /\ r.provider = "GOOGLE_EARTH_ENGINE" => r.source # NoSource /\ r.aoi

(* AcquisitionJob.schedule *)
Schedulable(r) ==
    /\ r.provider \in ACQUISITION_CAPABLE_PROVIDERS
    /\ r.provider = "LOCAL_UPLOAD" => r.content
    /\ r.provider = "GOOGLE_EARTH_ENGINE" =>
          /\ r.source # NoSource
          /\ r.aoi
          /\ r.format = "GEOTIFF"

-----------------------------------------------------------------------------
(* Bands and indices: feature_extraction.py *)

Optical == {"BLUE", "GREEN", "RED", "NIR", "SWIR1", "SWIR2"}

BAND_NAMES_BY_SOURCE ==
    [SENTINEL_1 |-> {}, SENTINEL_2 |-> Optical, LANDSAT |-> Optical \cup {"THERMAL"},
     MODIS |-> Optical, CHIRPS |-> {"PRECIPITATION"},
     ERA5 |-> {"PRECIPITATION", "TEMPERATURE"}]

REQUIRED_BANDS_BY_INDEX ==
    [NDVI |-> {"NIR", "RED"}, EVI |-> {"NIR", "RED", "BLUE"}, SAVI |-> {"NIR", "RED"},
     NDWI |-> {"GREEN", "NIR"}, NBR |-> {"NIR", "SWIR2"}, LST |-> {"THERMAL"},
     SPEI |-> {"PRECIPITATION", "TEMPERATURE"}]

(* stats and after are the sets of bands that have a mean in the period    *)
(* and in the comparison period; NoStats is None.                          *)
NoStats == {"NO_STATISTICS"}

Computable(index, stats, after) ==
    IF index = "DNBR"
    THEN /\ after # NoStats
         /\ {"NIR", "SWIR2"} \subseteq stats
         /\ {"NIR", "SWIR2"} \subseteq after
    ELSE REQUIRED_BANDS_BY_INDEX[index] \subseteq stats

(* Faulty variant: what cannot be computed is dropped silently. *)
ExtractComputedOnly(requested, stats, after) ==
    [computed |-> {i \in requested : Computable(i, stats, after)}, skipped |-> {}]

(* extract_features: (computed, skipped) *)
ExtractFeatures(requested, stats, after) ==
    LET computed == {i \in requested : Computable(i, stats, after)}
    IN  [computed |-> computed, skipped |-> requested \ computed]

-----------------------------------------------------------------------------
(* Preprocessing: gee_connector.py *)

CLOUD_MASKABLE_SOURCES == {"SENTINEL_2", "LANDSAT"}

ALREADY_ATMOSPHERICALLY_CORRECTED_SOURCES == {"SENTINEL_2", "LANDSAT", "MODIS"}

(* Faulty variant: reports the steps it knows, not those it was asked for. *)
BuildCompositeAll(source, steps) == PreprocessingStep \ {"CLOUD_MASKING"}

(* _apply_preprocessing, on the composite and with a region: what is not   *)
(* applied is honestly left out.                                           *)
ApplyPreprocessing(source, steps) ==
    {s \in steps : s = "ATMOSPHERIC_CORRECTION" =>
                       source \in ALREADY_ATMOSPHERICALLY_CORRECTED_SOURCES}

(* _build_composite: cloud masking is per image, before the median. *)
BuildComposite(source, steps) ==
    {s \in {"CLOUD_MASKING"} : s \in steps /\ source \in CLOUD_MASKABLE_SOURCES}
        \cup ApplyPreprocessing(source, steps \ {"CLOUD_MASKING"})

-----------------------------------------------------------------------------
(* Provider adapters.  A FetchResult is [success, content, stats, after,   *)
(* applied, skipped]: content is the kind of file the bytes are, or        *)
(* NoContent; skipped is raster_skipped_reason being set.                  *)

NoContent == "NO_CONTENT"

FetchFailed ==
    [success |-> FALSE, content |-> NoContent, stats |-> NoStats, after |-> NoStats,
     applied |-> {}, skipped |-> FALSE]

Bytes(kind) == [FetchFailed EXCEPT !.success = TRUE, !.content = kind]

(* Kinds of bytes: a file that is exactly one of the formats; BINARY,      *)
(* which no validator accepts; LONG_FIELD, text with a field past the csv  *)
(* module's limit.                                                         *)
ContentKind == AcquisitionFormat \cup {"BINARY", "LONG_FIELD"}

LocalUploadFetch(r) ==
    IF r.content THEN {Bytes(k) : k \in ContentKind} ELSE {FetchFailed}

(* The three HTTP providers: an unset base URL and every transport or      *)
(* status error become a failed result.                                    *)
HttpFetch == {FetchFailed} \cup {Bytes(k) : k \in ContentKind}

(* reduceRegion yields no mean for a band that is masked everywhere.  The  *)
(* instances: all bands, none of them, all but NIR.                        *)
BandStatistics(source) ==
    LET all == BAND_NAMES_BY_SOURCE[source] IN {all, all \ {"NIR"}, {}}

(* _fetch_sync: statistics first, then the raster, whose request-size      *)
(* limit alone is forgiven.                                                *)
FetchSync(r) ==
    {[success |-> TRUE, content |-> k, stats |-> stats, after |-> after,
      applied |-> BuildComposite(r.source, r.steps), skipped |-> k = NoContent] :
        k \in {"GEOTIFF", "BINARY", NoContent}, stats \in BandStatistics(r.source),
        after \in IF r.comparison THEN BandStatistics(r.source) ELSE {NoStats}}

(* GoogleEarthEngineProvider.fetch: missing credentials, and every         *)
(* exception of _fetch_sync, are a failed result.                          *)
EarthEngineFetch(r) ==
    {FetchFailed} \cup IF r.source = NoSource \/ ~r.aoi THEN {} ELSE FetchSync(r)

(* ProviderRegistry.resolve and the adapter's fetch, guarded by the        *)
(* handler's except Exception.                                             *)
Fetch(r) ==
    CASE r.provider = "LOCAL_UPLOAD" -> LocalUploadFetch(r)
      [] r.provider = "GOOGLE_EARTH_ENGINE" -> EarthEngineFetch(r)
      [] r.provider \in {"USGS", "NASA", "COPERNICUS"} -> HttpFetch
      [] OTHER -> {FetchFailed}

-----------------------------------------------------------------------------
(* Validation *)

(* The per-format validators of validation.py: GeoJSON text is JSON, and   *)
(* any non-empty UTF-8 text has a CSV header row.                          *)
VALIDATORS_BY_FORMAT ==
    [GEOJSON |-> {"GEOJSON"}, JSON |-> {"GEOJSON", "JSON"}, CSV |-> {"GEOJSON", "JSON", "CSV"},
     GEOTIFF |-> {"GEOTIFF"}, SHAPEFILE |-> {"SHAPEFILE"}]

ValidateDatasetContent(format, kind, crs) == crs /\ kind \in VALIDATORS_BY_FORMAT[format]

(* csv.reader raises csv.Error, which validate_csv does not catch.         *)
ValidatorRaises(format, kind) == format = "CSV" /\ kind = "LONG_FIELD"

(* What pyogrio and shapely can find in a structurally complete archive.   *)
(* "undecodable" is a geometry shapely.wkb.loads refuses or an attribute   *)
(* that cannot be read: neither call is guarded.                           *)
ArchiveState ==
    {"sound", "corrupted", "empty", "no_crs", "unsupported_crs", "unreadable",
     "undecodable", "mixed", "unsupported_geometry"}

(* parse_shapefile_archive: a result, one of four typed errors, or an      *)
(* exception of another type, which the handler does not catch.            *)
ParseShapefileArchive(a) ==
    CASE a = "sound" -> "parsed"
      [] a = "undecodable" -> "escapes"
      [] OTHER -> "typed_error"

-----------------------------------------------------------------------------
(* The pipeline between the two commits of ExecuteAcquisitionJobHandler.   *)

(* Outcomes.  LOST: an exception leaves the handler.  ASSERT: the handler  *)
(* reaches its assertion that a shapefile job has content, and it fails.   *)
Verdict(kind, r, f) ==
    [kind |-> kind, applied |-> f.applied,
     features |-> IF r.indices # {} /\ r.source # NoSource
                  THEN IF f.stats # NoStats
                       THEN ExtractFeatures(r.indices, f.stats, f.after)
                       ELSE [computed |-> {}, skipped |-> r.indices]
                  ELSE [computed |-> {}, skipped |-> {}]]

Failing == [kind |-> "FAILED", applied |-> {},
            features |-> [computed |-> {}, skipped |-> {}]]

Lost == [Failing EXCEPT !.kind = "LOST"]

AssertionFailed == [Failing EXCEPT !.kind = "ASSERT"]

(* From the fetch result to the verdict. *)
Judge(r, f) ==
    IF ValidatorRaises(r.format, f.content) THEN {Lost}
    ELSE IF
       \/ ~f.success
       \/ f.content = NoContent /\ ~f.skipped
       \/ f.content # NoContent /\ ~ValidateDatasetContent(r.format, f.content, r.crs)
    THEN {Failing}
    ELSE IF r.format # "SHAPEFILE" THEN {Verdict("READY", r, f)}
    ELSE IF f.content = NoContent THEN {AssertionFailed}
    ELSE {CASE ParseShapefileArchive(a) = "parsed" -> Verdict("READY", r, f)
            [] ParseShapefileArchive(a) = "typed_error" -> Failing
            [] OTHER -> Lost : a \in ArchiveState}

(* The whole pipeline: the AOI lookup comes first, then base64.b64decode,  *)
(* which raises on malformed input outside every try block.                *)
Process(r) ==
    (IF r.aoi THEN {Failing} ELSE {})
        \cup (IF r.content THEN {Lost} ELSE {})
        \cup UNION {Judge(r, f) : f \in Fetch(r)}

=============================================================================

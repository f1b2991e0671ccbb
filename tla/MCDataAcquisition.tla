------------------------- MODULE MCDataAcquisition -------------------------
(* Instance of DataAcquisition for TLC. *)
EXTENDS DataAcquisition, TLC

Upload ==
    [visible |-> TRUE, provider |-> "LOCAL_UPLOAD", format |-> "SHAPEFILE", source |-> NoSource, aoi |-> FALSE,
     content |-> TRUE, crs |-> TRUE, comparison |-> FALSE, steps |-> {}, indices |-> {}]

Scene ==
    [visible |-> TRUE, provider |-> "GOOGLE_EARTH_ENGINE", format |-> "GEOTIFF", source |-> "SENTINEL_2",
     aoi |-> TRUE, content |-> FALSE, crs |-> TRUE, comparison |-> TRUE,
     steps |-> {"CLOUD_MASKING", "ATMOSPHERIC_CORRECTION"}, indices |-> {"LST", "DNBR"}]

CONSTANTS j1, j2

(* The first job is a satellite scene or a table over HTTP, the second an  *)
(* upload; beside them requests that schedule() refuses.                   *)
MCRequests ==
    j1 :> {Scene,
           [Upload EXCEPT !.provider = "USGS", !.format = "CSV", !.source = "LANDSAT",
                          !.content = FALSE, !.indices = {"NDVI"}],
           [Scene EXCEPT !.format = "SHAPEFILE"], [Scene EXCEPT !.visible = FALSE]}
    @@ j2 :> {Upload, [Upload EXCEPT !.content = FALSE], [Upload EXCEPT !.provider = "CHIRPS"]}
=============================================================================

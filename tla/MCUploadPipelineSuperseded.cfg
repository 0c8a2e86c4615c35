CONSTANTS
  Accounts = {k1}
  Uploads = 2
  Keys = {k1}
  Jobs <- MCJobs
  MaxUploads <- MCMaxUploads
  NoJob = NoJob
  EnrichmentMax = 1
  QueueMax = 3
  LagSamples = {0, 2, 4}
SPECIFICATION PipelineSpec
PROPERTIES SupersededNeverEnriched
